------------------------------ MODULE WebhookStore ------------------------------
(***************************************************************************)
(* simpleWebhookService, the in-memory ancla.Service that the add, v2 add  *)
(* and list handlers share.  Add and GetAll run on the goroutines of the   *)
(* HTTP server and take no lock, so they race on the slice s.store.  The   *)
(* model follows the words of memory: the slice header is three words that *)
(* are loaded in any order; append stores, in the order the compiler emits *)
(* them, cap and pointer (when the array grew), then len, then the element.*)
(*                                                                         *)
(* Nothing imposes an order on the calls.  That Adds overlapped, and that  *)
(* an Add overlapped any call, is recorded in two history variables.       *)
(*                                                                         *)
(* Copying an array and storing one element are single steps.  A store     *)
(* past the end of an array damages memory that is not modelled.           *)
(***************************************************************************)
EXTENDS Integers, Sequences

CONSTANTS
    Callers,   \* goroutines that may be inside Add or GetAll
    Manifests, \* schema.Manifest values
    Nil,       \* the nil interface value of a slot nobody has stored to
    Garbage,   \* whatever lies past the end of an array
    MaxAdds    \* bound: how many times Add is called

ASSUME StoreAssumption ==
    /\ MaxAdds \in Nat
    /\ Nil \notin Manifests
    /\ Garbage \notin Manifests

VARIABLES
    header,  \* s.store: pointer, length and capacity
    arrays,  \* the backing arrays ever allocated; the pointer is an index
    pc,      \* where each caller is
    item,    \* the manifest each caller adds
    reg,     \* each caller's copy of the header words, Unread until loaded
    size,    \* len(result) of a GetAll
    listing, \* what each caller's last GetAll returned
    adds,    \* calls of Add so far
    raced,   \* history: two Adds have overlapped
    overlapped, \* history: an Add has overlapped another call, of Add or of GetAll
    kept,    \* history: slot and manifest of every Add that ended before that
    known    \* history: kept, when the caller's last GetAll began

vars == <<header, arrays, pc, item, reg, size, listing, adds, raced, overlapped, kept, known>>
history == <<adds, raced, overlapped, kept, known>>

Words == {"ptr", "len", "cap"}
Unread == -1
NothingRead == [w \in Words |-> Unread]

AddStages == {"append", "growCap", "growPtr", "storeLen", "storeItem"}
ListStages == {"make", "copy"}

Init ==
    /\ header = [w \in Words |-> 0]
    /\ arrays = <<>>
    /\ pc = [c \in Callers |-> "idle"]
    /\ item = [c \in Callers |-> Nil]
    /\ reg = [c \in Callers |-> NothingRead]
    /\ size = [c \in Callers |-> 0]
    /\ listing = [c \in Callers |-> <<>>]
    /\ adds = 0
    /\ raced = FALSE
    /\ overlapped = FALSE
    /\ kept = {}
    /\ known = [c \in Callers |-> {}]

Adding == {c \in Callers : pc[c] \in AddStages}

Goto(c, from, to) ==
    /\ pc[c] = from
    /\ pc' = [pc EXCEPT ![c] = to]

(* The caller returns: its local variables are gone. *)
Forget(c) ==
    /\ item' = [item EXCEPT ![c] = Nil]
    /\ reg' = [reg EXCEPT ![c] = NothingRead]

(* The element at slot i of array p, wherever that points. *)
At(p, i) == IF p \in DOMAIN arrays /\ i \in DOMAIN arrays[p] THEN arrays[p][i] ELSE Garbage

(* External: runtime.growslice doubles a small array, and takes what is needed if that is more. *)
Grown(len, cap) == IF len + 1 > 2 * cap THEN len + 1 ELSE 2 * cap

-----------------------------------------------------------------------------

(* One word of s.store, for append or for the copy of GetAll *)
Load(c, w) ==
    /\ pc[c] = "append" \/ (pc[c] = "copy" /\ w # "cap")
    /\ reg[c][w] = Unread
    /\ reg' = [reg EXCEPT ![c][w] = header[w]]
    /\ UNCHANGED <<header, arrays, pc, item, size, listing>>
    /\ UNCHANGED history

(* POST /hook, validated: the handler calls Add. *)
Add(c, m) ==
    /\ adds < MaxAdds
    /\ Goto(c, "idle", "append")
    /\ item' = [item EXCEPT ![c] = m]
    /\ adds' = adds + 1
    /\ raced' = (raced \/ Adding # {})
    /\ overlapped' = (overlapped \/ \E d \in Callers : pc[d] # "idle")
    /\ UNCHANGED <<header, arrays, reg, size, listing, kept, known>>

Loaded(c) == \A w \in Words : reg[c][w] # Unread

(* append finds room in the array. *)
Fits(c) ==
    /\ Loaded(c)
    /\ reg[c].len < reg[c].cap
    /\ Goto(c, "append", "storeLen")
    /\ reg' = [reg EXCEPT ![c].len = @ + 1]
    /\ UNCHANGED <<header, arrays, item, size, listing>>
    /\ UNCHANGED history

(* append copies the elements to a larger array. *)
Grow(c) ==
    /\ Loaded(c)
    /\ reg[c].len >= reg[c].cap
    /\ Goto(c, "append", "growCap")
    /\ LET old == reg[c]
           cap == Grown(old.len, old.cap)
           copied == [i \in 1 .. cap |-> IF i <= old.len THEN At(old.ptr, i) ELSE Nil]
       IN  /\ arrays' = Append(arrays, copied)
           /\ reg' = [reg EXCEPT ![c] =
                        [ptr |-> Len(arrays) + 1, len |-> old.len + 1, cap |-> cap]]
    /\ UNCHANGED <<header, item, size, listing>>
    /\ UNCHANGED history

StoreWord(c, from, to, w) ==
    /\ Goto(c, from, to)
    /\ header' = [header EXCEPT ![w] = reg[c][w]]
    /\ UNCHANGED <<arrays, item, reg, size, listing>>
    /\ UNCHANGED history

StoreCap(c) == StoreWord(c, "growCap", "growPtr", "cap")
StorePtr(c) == StoreWord(c, "growPtr", "storeLen", "ptr")
StoreLen(c) == StoreWord(c, "storeLen", "storeItem", "len")

(* The element is stored and Add returns nil: the handler answers 200. *)
StoreItem(c) ==
    /\ Goto(c, "storeItem", "idle")
    /\ LET p == reg[c].ptr
           i == reg[c].len
       IN  /\ arrays' = IF p \in DOMAIN arrays /\ i \in DOMAIN arrays[p]
                        THEN [arrays EXCEPT ![p][i] = item[c]]
                        ELSE arrays
           /\ kept' = IF raced THEN kept ELSE kept \cup {[slot |-> i, manifest |-> item[c]]}
    /\ Forget(c)
    /\ UNCHANGED <<header, size, listing, adds, raced, overlapped, known>>

(* GET /hooks: the handler calls GetAll. *)
GetAll(c) ==
    /\ Goto(c, "idle", "make")
    /\ known' = [known EXCEPT ![c] = kept]
    /\ overlapped' = (overlapped \/ Adding # {})
    /\ UNCHANGED <<header, arrays, item, reg, size, listing, adds, raced, kept>>

MakeOfSize(c, n) ==
    /\ Goto(c, "make", "copy")
    /\ size' = [size EXCEPT ![c] = n]
    /\ UNCHANGED <<header, arrays, item, reg, listing>>
    /\ UNCHANGED history

(* Mutants: as many elements as the array has room for; one too few *)
MakeCap(c) == MakeOfSize(c, header.cap)
MakeShort(c) == MakeOfSize(c, header.len - 1)

(* result := make([]schema.Manifest, len(s.store)) *)
Make(c) == MakeOfSize(c, header.len)

(* GetAll returns once the words of the second load are there. *)
Return(c, result) ==
    /\ reg[c].ptr # Unread
    /\ reg[c].len # Unread
    /\ Goto(c, "copy", "idle")
    /\ listing' = [listing EXCEPT ![c] = result]
    /\ size' = [size EXCEPT ![c] = 0]
    /\ Forget(c)
    /\ UNCHANGED <<header, arrays>>
    /\ UNCHANGED history

CopyUpTo(c, n) ==
    Return(c, [i \in 1 .. size[c] |-> IF i <= n THEN At(reg[c].ptr, i) ELSE Nil])

(* Mutant: append(result, s.store...), behind the elements that make has already made *)
CopyBehind(c) ==
    Return(c, [i \in 1 .. size[c] + reg[c].len |->
                    IF i <= size[c] THEN Nil ELSE At(reg[c].ptr, i - size[c])])

(* Mutant: the last element is not copied. *)
CopyShort(c) == CopyUpTo(c, reg[c].len - 1)

(* copy(result, s.store), which loads the header again *)
Copy(c) == CopyUpTo(c, reg[c].len)

Next ==
    \E c \in Callers :
        \/ \E m \in Manifests : Add(c, m)
        \/ \E w \in Words : Load(c, w)
        \/ Fits(c)
        \/ Grow(c)
        \/ StoreCap(c)
        \/ StorePtr(c)
        \/ StoreLen(c)
        \/ StoreItem(c)
        \/ GetAll(c)
        \/ Make(c)
        \/ Copy(c)

Spec == Init /\ [][Next]_vars

-----------------------------------------------------------------------------

Slots == Manifests \cup {Nil, Garbage}

(* Where a registration was stored *)
Places == [slot : Nat, manifest : Manifests]

TypeOK ==
    /\ header \in [Words -> Nat]
    /\ arrays \in Seq(Seq(Slots))
    /\ pc \in [Callers -> {"idle"} \cup AddStages \cup ListStages]
    /\ item \in [Callers -> Manifests \cup {Nil}]
    /\ reg \in [Callers -> [Words -> Nat \cup {Unread}]]
    /\ size \in [Callers -> Nat]
    /\ listing \in [Callers -> Seq(Slots)]
    /\ adds \in 0 .. MaxAdds
    /\ raced \in BOOLEAN
    /\ overlapped \in BOOLEAN
    /\ kept \in SUBSET Places
    /\ known \in [Callers -> SUBSET Places]

(***************************************************************************)
(* What the races leave standing: a registration whose Add ended before    *)
(* two Adds first overlapped is in every later listing, at its place,      *)
(* however many Adds then race with each other and with the GetAll.  (Not  *)
(* so for an Add after a race, even one that no other overlaps: the race   *)
(* may have left a capacity larger than the array.)                        *)
(***************************************************************************)
EarlyRegistrationsListed ==
    \A c \in Callers : pc[c] \notin ListStages =>
        \A k \in known[c] : k.slot \in DOMAIN listing[c] /\ listing[c][k.slot] = k.manifest

(***************************************************************************)
(* The races may lose registrations but count none twice: no listing has   *)
(* more entries than Add has been called, whatever words the Adds loaded   *)
(* and in whatever order they stored them.                                 *)
(***************************************************************************)
NoListingTooLong == \A c \in Callers : Len(listing[c]) <= adds

(***************************************************************************)
(* Every registration that was answered 200 is stored: once no Add is in   *)
(* progress, the list has as many registrations as there were Adds.        *)
(***************************************************************************)
NothingLost == Adding = {} => header.len = adds

(***************************************************************************)
(* "fetch the current list of configured listeners": a listing holds only  *)
(* registrations, never an empty slot or memory past the array.  The code  *)
(* breaks it when a GetAll comes between two stores of an Add.             *)
(***************************************************************************)
ListsRegistrations ==
    \A c \in Callers : \A i \in DOMAIN listing[c] : listing[c][i] \in Manifests

InStore == {c \in Callers : pc[c] = "storeItem"}

Registry == INSTANCE WebhookRegistry WITH
    store <- [i \in 1 .. header.len - (IF InStore = {} THEN 0 ELSE 1) |-> At(header.ptr, i)]

(***************************************************************************)
(* Until an Add overlaps another call, the service takes the steps of Web- *)
(* hookRegistry: an Add takes effect when it stores the element, a GetAll  *)
(* when it copies; what happens to pointer, length and array in between is *)
(* not seen.  Nothing in the code keeps the calls apart, and afterwards it *)
(* is no registry (NothingLost and ListsRegistrations fail).               *)
(***************************************************************************)
ImplementsRegistry ==
    /\ Registry!Init
    /\ [][~overlapped' => Registry!Next \/ UNCHANGED Registry!vars]_vars

=============================================================================
