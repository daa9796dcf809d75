--------------------------- MODULE WebhookStoreProofs ---------------------------
(***************************************************************************)
(* Theorems about WebhookStore, for any number of goroutines: what the     *)
(* races on the slice leave standing, what holds until two Adds overlap,   *)
(* and that the slice takes the steps of WebhookRegistry until an Add      *)
(* overlaps any call.                                                      *)
(***************************************************************************)
EXTENDS WebhookStore, FiniteSetTheorems, TLAPS

(* The words of a slice header agree with the array it points to. *)
Whole(h) ==
    /\ h.ptr \in 0 .. Len(arrays)
    /\ h.len <= h.cap
    /\ h.cap = IF h.ptr = 0 THEN 0 ELSE Len(arrays[h.ptr])

(* A caller's registers are empty outside its call, and full once append has loaded them. *)
LocalInv ==
    \A c \in Callers :
        /\ pc[c] \in {"idle", "make"} => reg[c] = NothingRead
        /\ pc[c] \in AddStages => item[c] \in Manifests
        /\ pc[c] \in AddStages \ {"append"} => Loaded(c)

(***************************************************************************)
(* A registration that is kept is at its place in the array s.store points *)
(* to and in every array an Add holds, and every length is beyond it: so   *)
(* no race can overwrite it or leave it out of a larger array.             *)
(***************************************************************************)
KeptInv ==
    \A k \in kept :
        /\ k.slot \in 1 .. header.len
        /\ At(header.ptr, k.slot) = k.manifest
        /\ \A c \in Adding :
            /\ reg[c].ptr # Unread => At(reg[c].ptr, k.slot) = k.manifest
            /\ reg[c].len # Unread => k.slot <= reg[c].len
            /\ pc[c] # "append" => k.slot < reg[c].len

(* What a listing knew when it began is in whatever words it has loaded since. *)
KnownInv ==
    \A c \in Callers :
        /\ known[c] \subseteq kept
        /\ pc[c] = "copy" =>
            \A k \in known[c] :
                /\ k.slot <= size[c]
                /\ reg[c].ptr # Unread => At(reg[c].ptr, k.slot) = k.manifest
                /\ reg[c].len # Unread => k.slot <= reg[c].len

(* The registrations that are complete, if no Adds overlap *)
Stored == adds - (IF Adding = {} THEN 0 ELSE 1)

(* What one Add on its own may find and leave at each of its steps *)
AddInv(c) ==
    /\ adds > 0
    /\ header.len = IF pc[c] = "storeItem" THEN adds ELSE adds - 1
    /\ pc[c] = "append" =>
        /\ Whole(header)
        /\ \A w \in Words : reg[c][w] \in {Unread, header[w]}
    /\ pc[c] # "append" =>
        /\ Whole(reg[c])
        /\ reg[c].len = adds
        /\ \A i \in 1 .. adds - 1 : At(reg[c].ptr, i) = At(header.ptr, i)
    /\ pc[c] = "growPtr" => header.cap = reg[c].cap
    /\ pc[c] \in {"storeLen", "storeItem"} =>
        header.ptr = reg[c].ptr /\ header.cap = reg[c].cap

(* Until two Adds overlap, whatever listings do meanwhile *)
SoleInv ==
    /\ \A c, d \in Adding : c = d
    /\ header.ptr \in 0 .. Len(arrays)
    /\ \A i \in 1 .. Stored : At(header.ptr, i) \in Manifests
    /\ Adding = {} => Whole(header) /\ header.len = adds
    /\ \A c \in Adding : AddInv(c)

(* The invariant under races *)
IInv ==
    /\ TypeOK
    /\ LocalInv
    /\ KeptInv
    /\ KnownInv
    /\ EarlyRegistrationsListed
    /\ ~raced => SoleInv

(* The Adds that have not yet extended s.store *)
Unextended == {c \in Callers : pc[c] \in AddStages \ {"storeItem"}}

(* The Adds that have *)
Extended == adds - Cardinality(Unextended)

(* Every length comes from an earlier one, of other Adds, and counts one Add more. *)
CountInv ==
    /\ IsFiniteSet(Unextended)
    /\ header.len <= Extended
    /\ \A c \in Unextended : reg[c].len <= Extended + (IF pc[c] = "append" THEN 0 ELSE 1)
    /\ \A c \in Callers : size[c] <= adds
    /\ NoListingTooLong

(* What a listing finds if no Add runs *)
ReaderInv ==
    \A c \in Callers : pc[c] = "copy" =>
        /\ size[c] = header.len
        /\ reg[c].ptr \in {Unread, header.ptr}
        /\ reg[c].len \in {Unread, header.len}

(* While a caller is inside Add, nobody else is inside Add or GetAll. *)
Exclusive == \A c \in Adding, d \in Callers : pc[d] # "idle" => d = c

(* Until an Add overlaps a call *)
ApartInv ==
    /\ ~raced
    /\ Exclusive
    /\ ReaderInv

(* Both *)
FullInv == IInv /\ (~overlapped => ApartInv)

(* What one caller may do *)
Step(c) ==
    \/ \E m \in Manifests : Add(c, m)
    \/ \E w \in Words : Load(c, w)
    \/ Fits(c) \/ Grow(c) \/ StoreCap(c) \/ StorePtr(c) \/ StoreLen(c) \/ StoreItem(c)
    \/ GetAll(c) \/ Make(c) \/ Copy(c)

-----------------------------------------------------------------------------
(* Arrays *)

(* What is at a place is a value of a slot, and a manifest is only within an array. *)
LEMMA AtSlots ==
  ASSUME TypeOK, NEW p \in Int, NEW i \in Int
  PROVE  /\ At(p, i) \in Slots
         /\ At(p, i) \in Manifests =>
                /\ p \in 1 .. Len(arrays)
                /\ i \in 1 .. Len(arrays[p])
                /\ At(p, i) = arrays[p][i]
  <1>1. arrays \in Seq(Seq(Slots)) /\ DOMAIN arrays = 1 .. Len(arrays)
    BY DEF TypeOK
  <1>2. CASE p \in DOMAIN arrays /\ i \in DOMAIN arrays[p]
    <2>1. arrays[p] \in Seq(Slots)
      BY <1>1, <1>2
    <2>2. DOMAIN arrays[p] = 1 .. Len(arrays[p]) /\ arrays[p][i] \in Slots
      BY <1>2, <2>1
    <2>. QED
      BY <1>1, <1>2, <2>2 DEF At
  <1>3. CASE ~(p \in DOMAIN arrays /\ i \in DOMAIN arrays[p])
    BY <1>3, StoreAssumption DEF At, Slots
  <1>. QED
    BY <1>2, <1>3

(* A larger array has room for one more element than the old length. *)
LEMMA GrownRoom ==
  ASSUME NEW l \in Nat, NEW k \in Nat
  PROVE  Grown(l, k) \in Nat /\ l + 1 <= Grown(l, k)
  BY DEF Grown

(* Registers are a record of words. *)
LEMMA Registers ==
  ASSUME NEW p \in Nat, NEW l \in Nat, NEW k \in Nat
  PROVE  [ptr |-> p, len |-> l, cap |-> k] \in [Words -> Nat \cup {Unread}]
  BY DEF Words

(* The new array: what append copies, and empty slots behind it *)
LEMMA GrownArray ==
  ASSUME TypeOK, NEW p \in Nat, NEW l \in Nat, NEW n \in Nat
  PROVE  [i \in 1 .. n |-> IF i <= l THEN At(p, i) ELSE Nil] \in Seq(Slots)
  <1>1. ASSUME NEW i \in 1 .. n
        PROVE  (IF i <= l THEN At(p, i) ELSE Nil) \in Slots
    BY AtSlots DEF Slots
  <1>. QED
    BY <1>1

(* Storing an element changes nothing but that element. *)
LEMMA ItemStored ==
  ASSUME TypeOK, NEW p \in Nat, NEW i \in Nat, NEW e \in Slots,
         p \in DOMAIN arrays, i \in DOMAIN arrays[p]
  PROVE  LET new == [arrays EXCEPT ![p][i] = e]
         IN  /\ new \in Seq(Seq(Slots))
             /\ Len(new) = Len(arrays)
             /\ \A q \in DOMAIN arrays : Len(new[q]) = Len(arrays[q])
             /\ \A q \in DOMAIN arrays : \A j \in DOMAIN arrays[q] :
                    new[q][j] = IF q = p /\ j = i THEN e ELSE arrays[q][j]
  <1> DEFINE row == [arrays[p] EXCEPT ![i] = e]
             new == [arrays EXCEPT ![p] = row]
  <1>1. arrays \in Seq(Seq(Slots)) /\ arrays[p] \in Seq(Slots)
    BY DEF TypeOK
  <1>2. row \in Seq(Slots) /\ Len(row) = Len(arrays[p])
    BY <1>1
  <1>3. new \in Seq(Seq(Slots)) /\ Len(new) = Len(arrays)
    BY <1>1, <1>2
  <1>4. \A q \in DOMAIN arrays : new[q] = IF q = p THEN row ELSE arrays[q]
    BY <1>1
  <1>5. \A j \in DOMAIN arrays[p] : row[j] = IF j = i THEN e ELSE arrays[p][j]
    BY <1>1
  <1>. QED
    BY <1>2, <1>3, <1>4, <1>5

(* A new array leaves what is in the others. *)
LEMMA AtAppended ==
  ASSUME TypeOK, NEW copied \in Seq(Slots), arrays' = Append(arrays, copied)
  PROVE  /\ Len(arrays') = Len(arrays) + 1
         /\ arrays'[Len(arrays) + 1] = copied
         /\ \A p \in 1 .. Len(arrays) : arrays'[p] = arrays[p]
         /\ \A p \in 0 .. Len(arrays), i \in Int : At(p, i)' = At(p, i)
         /\ \A n \in Nat, i \in 1 .. Len(copied) :
                n = Len(arrays) + 1 => At(n, i)' = copied[i]
  <1>1. arrays \in Seq(Seq(Slots))
    BY DEF TypeOK
  <1>2. /\ Len(arrays') = Len(arrays) + 1
        /\ arrays' \in Seq(Seq(Slots))
        /\ arrays'[Len(arrays) + 1] = copied
        /\ \A p \in 1 .. Len(arrays) : arrays'[p] = arrays[p]
    BY <1>1
  <1>3. DOMAIN arrays = 1 .. Len(arrays) /\ DOMAIN arrays' = 1 .. Len(arrays) + 1
    BY <1>1, <1>2
  <1>4. ASSUME NEW p \in 0 .. Len(arrays), NEW i \in Int PROVE At(p, i)' = At(p, i)
    BY <1>1, <1>2, <1>3 DEF At
  <1>5. ASSUME NEW n \in Nat, NEW i \in 1 .. Len(copied), n = Len(arrays) + 1
        PROVE  At(n, i)' = copied[i]
    <2>1. n \in DOMAIN arrays' /\ arrays'[n] = copied /\ i \in DOMAIN copied
      BY <1>1, <1>2, <1>3, <1>5
    <2>. QED
      BY <2>1 DEF At
  <1>. QED
    BY <1>2, <1>4, <1>5

-----------------------------------------------------------------------------
(* Types *)

(* Nothing is stored, no call is in progress. *)
LEMMA InitInv == Init => IInv /\ ApartInv
  <1> SUFFICES ASSUME Init PROVE IInv /\ ApartInv
    OBVIOUS
  <1> USE DEF Init
  <1>1. Adding = {} /\ Exclusive
    BY DEF Adding, AddStages, Exclusive
  <1>2. TypeOK
    <2>1. header \in [Words -> Nat] /\ arrays \in Seq(Seq(Slots))
      OBVIOUS
    <2>2. reg \in [Callers -> [Words -> Nat \cup {Unread}]]
      BY DEF NothingRead
    <2>3. listing \in [Callers -> Seq(Slots)] /\ size \in [Callers -> Nat]
      OBVIOUS
    <2>4. pc \in [Callers -> {"idle"} \cup AddStages \cup ListStages]
      OBVIOUS
    <2>5. item \in [Callers -> Manifests \cup {Nil}]
      OBVIOUS
    <2>6. adds \in 0 .. MaxAdds
      BY StoreAssumption
    <2>8. raced \in BOOLEAN /\ overlapped \in BOOLEAN
      BY Zenon
    <2>7. kept \in SUBSET Places /\ known \in [Callers -> SUBSET Places]
      OBVIOUS
    <2>. QED
      BY <2>1, <2>2, <2>3, <2>4, <2>5, <2>6, <2>7, <2>8 DEF TypeOK
  <1>3. LocalInv
    BY DEF LocalInv, AddStages
  <1>4. KeptInv /\ KnownInv /\ EarlyRegistrationsListed /\ ReaderInv
    BY DEF KeptInv, KnownInv, EarlyRegistrationsListed, ReaderInv
  <1>5. SoleInv
    BY <1>1 DEF SoleInv, Whole, Stored, Words
  <1>. QED
    BY <1>1, <1>2, <1>3, <1>4, <1>5 DEF ApartInv, IInv

(* A step keeps the types, and the registers of each caller are what its stage says. *)
LEMMA TypeStep ==
  ASSUME TypeOK, LocalInv, Next
  PROVE  TypeOK' /\ LocalInv'
  <1> PICK c \in Callers : Step(c)
    BY DEF Next, Step
  <1> USE DEF TypeOK, LocalInv, AddStages, ListStages, Goto, history
  <1>1. ASSUME NEW m \in Manifests, Add(c, m) PROVE TypeOK' /\ LocalInv'
    BY <1>1, StoreAssumption DEF Add, Loaded
  <1>2. ASSUME NEW w \in Words, Load(c, w) PROVE TypeOK' /\ LocalInv'
    BY <1>2 DEF Load, Loaded, NothingRead, Words, Unread
  <1>3. CASE Fits(c)
    BY <1>3 DEF Fits, Loaded, Words, Unread
  <1>4. CASE Grow(c)
    <2> DEFINE old == reg[c]
               cap == Grown(old.len, old.cap)
               copied == [i \in 1 .. cap |-> IF i <= old.len THEN At(old.ptr, i) ELSE Nil]
               new == [ptr |-> Len(arrays) + 1, len |-> old.len + 1, cap |-> cap]
    <2>1. old.ptr \in Nat /\ old.len \in Nat /\ old.cap \in Nat
      BY <1>4 DEF Grow, Loaded, Words, Unread
    <2>2. cap \in Nat
      BY <2>1, GrownRoom
    <2>3. copied \in Seq(Slots)
      BY <2>1, <2>2, GrownArray, Zenon
    <2>4. arrays' = Append(arrays, copied) /\ reg' = [reg EXCEPT ![c] = new]
      BY <1>4 DEF Grow
    <2>5. arrays' \in Seq(Seq(Slots))
      BY <2>3, <2>4
    <2>6. new \in [Words -> Nat \cup {Unread}] /\ \A w \in Words : new[w] # Unread
      BY <2>1, <2>2, Registers DEF Words, Unread
    <2>7. reg' \in [Callers -> [Words -> Nat \cup {Unread}]]
      BY <2>4, <2>6
    <2>8. TypeOK'
      BY <1>4, <2>5, <2>7 DEF Grow
    <2>9. LocalInv'
      BY <1>4, <2>4, <2>6 DEF Grow, Loaded
    <2>. QED
      BY <2>8, <2>9
  <1>5. CASE StoreCap(c)
    BY <1>5 DEF StoreCap, StoreWord, Loaded, Words, Unread
  <1>6. CASE StorePtr(c)
    BY <1>6 DEF StorePtr, StoreWord, Loaded, Words, Unread
  <1>7. CASE StoreLen(c)
    BY <1>7 DEF StoreLen, StoreWord, Loaded, Words, Unread
  <1>8. CASE StoreItem(c)
    <2>1. reg[c].ptr \in Nat /\ reg[c].len \in Nat /\ item[c] \in Manifests
      BY <1>8 DEF StoreItem, Loaded, Words, Unread
    <2>2. arrays' \in Seq(Seq(Slots))
      BY <1>8, <2>1, ItemStored DEF StoreItem, Slots
    <2>3. kept' \in SUBSET Places
      BY <1>8, <2>1 DEF StoreItem, Places
    <2>4. TypeOK'
      BY <1>8, <2>2, <2>3 DEF StoreItem, Forget, NothingRead
    <2>5. LocalInv'
      BY <1>8 DEF StoreItem, Forget, Loaded
    <2>. QED
      BY <2>4, <2>5
  <1>9. CASE GetAll(c)
    BY <1>9 DEF GetAll, Loaded
  <1>10. CASE Make(c)
    BY <1>10 DEF Make, MakeOfSize, Loaded, Words
  <1>11. CASE Copy(c)
    <2>1. reg[c].ptr \in Nat /\ reg[c].len \in Nat /\ size[c] \in Nat
      BY <1>11 DEF Copy, CopyUpTo, Return, Words, Unread
    <2>2. [i \in 1 .. size[c] |-> IF i <= reg[c].len THEN At(reg[c].ptr, i) ELSE Nil]
          \in Seq(Slots)
      BY <2>1, GrownArray, Zenon
    <2>3. TypeOK'
      BY <1>11, <2>2 DEF Copy, CopyUpTo, Return, Forget, NothingRead
    <2>4. LocalInv'
      BY <1>11 DEF Copy, CopyUpTo, Return, Forget, Loaded
    <2>. QED
      BY <2>3, <2>4
  <1>. QED
    BY <1>1, <1>2, <1>3, <1>4, <1>5, <1>6, <1>7, <1>8, <1>9, <1>10, <1>11 DEF Step

-----------------------------------------------------------------------------
(* Arrays along a step *)

(* append moves to an array of its own, where everything it had is in its place. *)
LEMMA GrowArrays ==
  ASSUME TypeOK, LocalInv, NEW c \in Callers, Grow(c)
  PROVE  LET old == reg[c]
             n == Len(arrays) + 1
         IN  /\ old.ptr \in Nat /\ old.len \in Nat /\ old.cap \in Nat
             /\ reg' = [reg EXCEPT ![c] =
                    [ptr |-> n, len |-> old.len + 1, cap |-> Grown(old.len, old.cap)]]
             /\ Grown(old.len, old.cap) \in Nat /\ old.len + 1 <= Grown(old.len, old.cap)
             /\ Len(arrays') = n
             /\ Len(arrays'[n]) = Grown(old.len, old.cap)
             /\ \A p \in 1 .. Len(arrays) : arrays'[p] = arrays[p]
             /\ \A p \in 0 .. Len(arrays), i \in Int : At(p, i)' = At(p, i)
             /\ \A p \in Nat, q \in Nat, i \in 1 .. old.len :
                    p = n /\ q = old.ptr => At(p, i)' = At(q, i)
  <1> DEFINE old == reg[c]
             n == Len(arrays) + 1
             cap == Grown(old.len, old.cap)
             copied == [i \in 1 .. cap |-> IF i <= old.len THEN At(old.ptr, i) ELSE Nil]
  <1>1. old.ptr \in Nat /\ old.len \in Nat /\ old.cap \in Nat
    BY DEF Grow, TypeOK, Loaded, Words, Unread
  <1>2. cap \in Nat /\ old.len + 1 <= cap
    BY <1>1, GrownRoom
  <1>3. copied \in Seq(Slots) /\ Len(copied) = cap
    <2>1. copied \in Seq(Slots)
      BY <1>1, <1>2, GrownArray, Zenon
    <2>. QED
      BY <2>1, <1>2
  <1>4. /\ arrays' = Append(arrays, copied)
        /\ reg' = [reg EXCEPT ![c] = [ptr |-> n, len |-> old.len + 1, cap |-> cap]]
    BY DEF Grow
  <1> HIDE DEF copied, cap
  <1>5. /\ Len(arrays') = n
        /\ arrays'[n] = copied
        /\ \A p \in 1 .. Len(arrays) : arrays'[p] = arrays[p]
        /\ \A p \in 0 .. Len(arrays), i \in Int : At(p, i)' = At(p, i)
        /\ \A p \in Nat, i \in 1 .. cap : p = n => At(p, i)' = copied[i]
    BY <1>3, <1>4, AtAppended
  <1>6. ASSUME NEW p \in Nat, NEW q \in Nat, NEW i \in 1 .. old.len, p = n, q = old.ptr
        PROVE  At(p, i)' = At(q, i)
    <2>1. i \in 1 .. cap /\ i <= old.len
      BY <1>1, <1>2
    <2>2. copied[i] = At(q, i)
      BY <2>1, <1>6 DEF copied
    <2>. QED
      BY <1>5, <1>6, <2>1, <2>2
  <1>. QED
    BY <1>1, <1>2, <1>3, <1>4, <1>5, <1>6 DEF cap

(* Storing the element changes its place only, and only if the array has that place. *)
LEMMA StoreItemArrays ==
  ASSUME TypeOK, LocalInv, NEW c \in Callers, StoreItem(c)
  PROVE  /\ reg[c].ptr \in Nat /\ reg[c].len \in Nat
         /\ item[c] \in Manifests
         /\ Len(arrays') = Len(arrays)
         /\ \A p \in 1 .. Len(arrays) : Len(arrays'[p]) = Len(arrays[p])
         /\ \A p \in Int, i \in Int :
                At(p, i)' = IF /\ p = reg[c].ptr /\ p \in 1 .. Len(arrays)
                               /\ i = reg[c].len /\ i \in 1 .. Len(arrays[p])
                            THEN item[c] ELSE At(p, i)
  <1> DEFINE p == reg[c].ptr
             i == reg[c].len
  <1>1. p \in Nat /\ i \in Nat /\ item[c] \in Manifests
    BY DEF StoreItem, Goto, AddStages, LocalInv, TypeOK, Loaded, Words, Unread
  <1>2. arrays \in Seq(Seq(Slots)) /\ DOMAIN arrays = 1 .. Len(arrays)
    BY DEF TypeOK
  <1>3. \A q \in DOMAIN arrays : DOMAIN arrays[q] = 1 .. Len(arrays[q])
    BY <1>2
  <1>4. CASE p \in DOMAIN arrays /\ i \in DOMAIN arrays[p]
    <2>1. arrays' = [arrays EXCEPT ![p][i] = item[c]]
      BY <1>4 DEF StoreItem
    <2>2. /\ arrays' \in Seq(Seq(Slots))
          /\ Len(arrays') = Len(arrays)
          /\ \A q \in DOMAIN arrays : Len(arrays'[q]) = Len(arrays[q])
          /\ \A q \in DOMAIN arrays : \A j \in DOMAIN arrays[q] :
                arrays'[q][j] = IF q = p /\ j = i THEN item[c] ELSE arrays[q][j]
      BY <1>1, <1>4, <2>1, ItemStored DEF Slots
    <2>3. /\ DOMAIN arrays' = DOMAIN arrays
          /\ \A q \in DOMAIN arrays : DOMAIN arrays'[q] = DOMAIN arrays[q]
      BY <1>2, <2>2
    <2>4. ASSUME NEW q \in Int, NEW j \in Int
          PROVE  At(q, j)' = IF q = p /\ j = i THEN item[c] ELSE At(q, j)
      BY <1>4, <2>2, <2>3 DEF At
    <2>. QED
      BY <1>1, <1>2, <1>3, <1>4, <2>2, <2>4
  <1>5. CASE ~(p \in DOMAIN arrays /\ i \in DOMAIN arrays[p])
    <2>1. arrays' = arrays
      BY <1>5 DEF StoreItem
    <2>2. \A q \in Int, j \in Int : At(q, j)' = At(q, j)
      BY <2>1 DEF At
    <2>. QED
      BY <1>1, <1>2, <1>3, <1>5, <2>1, <2>2
  <1>. QED
    BY <1>4, <1>5

(* The other steps leave every array. *)
LEMMA ArraysStay ==
  ASSUME NEW c \in Callers, Step(c), ~Grow(c), ~StoreItem(c)
  PROVE  /\ arrays' = arrays /\ kept' = kept
         /\ \A p \in Int, i \in Int : At(p, i)' = At(p, i)
  <1>1. arrays' = arrays /\ kept' = kept
    BY DEF Step, Add, Load, Fits, StoreCap, StorePtr, StoreLen, StoreWord, GetAll,
           Make, MakeOfSize, Copy, CopyUpTo, Return, history
  <1>. QED
    BY <1>1 DEF At

(* A registration that is kept stays in every array that has it. *)
LEMMA KeptStays ==
  ASSUME TypeOK, LocalInv, KeptInv, NEW c \in Callers, Step(c),
         NEW k \in kept, NEW p \in Int, At(p, k.slot) = k.manifest
  PROVE  At(p, k.slot)' = k.manifest
  <1>1. k.slot \in Nat /\ k.manifest \in Manifests
    BY DEF TypeOK, Places
  <1>2. p \in 1 .. Len(arrays)
    BY <1>1, AtSlots
  <1>3. CASE Grow(c)
    BY <1>1, <1>2, <1>3, GrowArrays
  <1>4. CASE StoreItem(c)
    <2>1. k.slot < reg[c].len
      BY <1>4 DEF KeptInv, StoreItem, Goto, Adding, AddStages
    <2>2. reg[c].len \in Nat
      BY <1>4, StoreItemArrays
    <2>3. k.slot \in Int /\ k.slot # reg[c].len
      BY <1>1, <2>1, <2>2
    <2>4. At(p, k.slot)' = At(p, k.slot)
      BY <1>4, <2>3, StoreItemArrays, Zenon
    <2>. QED
      BY <2>4
  <1>5. CASE ~Grow(c) /\ ~StoreItem(c)
    BY <1>1, <1>5, ArraysStay
  <1>. QED
    BY <1>3, <1>4, <1>5

(* Nothing that is kept is forgotten. *)
LEMMA KeptGrows ==
  ASSUME NEW c \in Callers, Step(c)
  PROVE  kept \subseteq kept'
  <1>1. CASE StoreItem(c)
    BY <1>1 DEF StoreItem
  <1>2. CASE Grow(c)
    BY <1>2 DEF Grow, history
  <1>3. CASE ~Grow(c) /\ ~StoreItem(c)
    BY <1>3, ArraysStay
  <1>. QED
    BY <1>1, <1>2, <1>3

-----------------------------------------------------------------------------
(* What the races leave standing *)

(* A step keeps, in s.store and in every Add, what was kept before it. *)
LEMMA KeptOldStep ==
  ASSUME TypeOK, LocalInv, KeptInv, NEW c \in Callers, Step(c), NEW k \in kept
  PROVE  /\ k.slot \in 1 .. header'.len
         /\ At(header.ptr, k.slot)' = k.manifest
         /\ \A d \in Adding' :
                /\ reg'[d].ptr # Unread => At(reg[d].ptr, k.slot)' = k.manifest
                /\ reg'[d].len # Unread => k.slot <= reg'[d].len
                /\ pc'[d] # "append" => k.slot < reg'[d].len
  <1> DEFINE i == k.slot
             m == k.manifest
             Held == \A d \in Adding' :
                /\ reg'[d].ptr # Unread => At(reg[d].ptr, i)' = m
                /\ reg'[d].len # Unread => i <= reg'[d].len
                /\ pc'[d] # "append" => i < reg'[d].len
  <1> DEFINE Goal == i <= header'.len /\ At(header.ptr, i)' = m /\ Held
  <1>1. i \in Nat /\ m \in Manifests /\ i > 0 /\ i <= header.len
    BY DEF TypeOK, Places, KeptInv
  <1>2. At(header.ptr, i) = m
    BY DEF KeptInv
  <1>3. \A d \in Adding :
            /\ reg[d].ptr # Unread => At(reg[d].ptr, i) = m
            /\ reg[d].len # Unread => i <= reg[d].len
            /\ pc[d] # "append" => i < reg[d].len
    BY DEF KeptInv
  <1>4. \A p \in Int : At(p, i) = m => At(p, i)' = m
    BY KeptStays
  <1>5. header \in [Words -> Nat] /\ reg \in [Callers -> [Words -> Nat \cup {Unread}]]
        /\ pc \in [Callers -> {"idle"} \cup AddStages \cup ListStages]
    BY DEF TypeOK
  <1>. SUFFICES Goal
    <2>1. header' \in [Words -> Nat] => header'.len \in Nat
      BY DEF Words
    <2>. QED
      BY <1>1, <2>1, TypeStep DEF Next, Step, TypeOK
  <1> HIDE DEF i, m
  <1> USE DEF Adding, AddStages, ListStages, Goto, Words, Unread
  <1>6. ASSUME NEW e \in Manifests, Add(c, e)
        PROVE  Goal
    BY <1>1, <1>2, <1>3, <1>4, <1>5, <1>6 DEF Add, LocalInv, NothingRead
  <1>7. ASSUME NEW w \in Words, Load(c, w)
        PROVE  Goal
    BY <1>1, <1>2, <1>3, <1>4, <1>5, <1>7 DEF Load
  <1>8. CASE Fits(c)
    BY <1>1, <1>2, <1>3, <1>4, <1>5, <1>8 DEF Fits, Loaded
  <1>9. CASE Grow(c)
    <2> DEFINE n == Len(arrays) + 1
    <2>1. c \in Adding /\ pc[c] = "append" /\ pc' = [pc EXCEPT ![c] = "growCap"]
          /\ header' = header
      BY <1>9 DEF Grow
    <2>2. /\ reg[c].ptr \in Nat /\ reg[c].len \in Nat /\ reg[c].cap \in Nat
          /\ reg' = [reg EXCEPT ![c] = [ptr |-> n, len |-> reg[c].len + 1,
                                       cap |-> Grown(reg[c].len, reg[c].cap)]]
          /\ \A p \in Nat, q \in Nat, j \in 1 .. reg[c].len :
                    p = n /\ q = reg[c].ptr => At(p, j)' = At(q, j)
      BY <1>9, GrowArrays
    <2>3. i \in 1 .. reg[c].len /\ At(reg[c].ptr, i) = m
      BY <1>1, <1>3, <2>1, <2>2
    <2>4. n \in Nat
      BY DEF TypeOK
    <2>5. \A p \in Nat : p = n => At(p, i)' = m
      BY <2>2, <2>3
    <2>6. reg'[c].ptr = n /\ reg'[c].len = reg[c].len + 1
      BY <1>5, <2>2
    <2>7. At(header.ptr, i)' = m
      BY <1>2, <1>4, <1>5, <2>1
    <2>8. ASSUME NEW d \in Adding', d # c
          PROVE  /\ d \in Adding /\ reg'[d] = reg[d] /\ pc'[d] = pc[d]
                 /\ reg'[d].ptr # Unread => At(reg[d].ptr, i)' = m
      BY <1>3, <1>4, <1>5, <2>1, <2>2, <2>8
    <2>9. At(reg[c].ptr, i)' = m
      BY <2>4, <2>5, <2>6
    <2>. QED
      BY <1>1, <1>3, <2>1, <2>2, <2>3, <2>6, <2>7, <2>8, <2>9
  <1>10. CASE StoreCap(c) \/ StorePtr(c) \/ StoreLen(c)
    BY <1>1, <1>2, <1>3, <1>4, <1>5, <1>10
    DEF StoreCap, StorePtr, StoreLen, StoreWord, LocalInv, Loaded
  <1>11. CASE StoreItem(c)
    BY <1>1, <1>2, <1>3, <1>4, <1>5, <1>11 DEF StoreItem, Forget, NothingRead
  <1>12. CASE GetAll(c) \/ Make(c) \/ Copy(c)
    BY <1>1, <1>2, <1>3, <1>4, <1>5, <1>12
    DEF GetAll, Make, MakeOfSize, Copy, CopyUpTo, Return, Forget, NothingRead
  <1>. QED
    BY <1>1, <1>6, <1>7, <1>8, <1>9, <1>10, <1>11, <1>12 DEF Step

(* What an Add that overlapped no other has stored is there, as its last length says. *)
LEMMA ItemKept ==
  ASSUME TypeOK, LocalInv, SoleInv, NEW c \in Callers, StoreItem(c)
  PROVE  /\ header.ptr = reg[c].ptr /\ header.len = reg[c].len /\ header.len = adds
         /\ reg[c].ptr \in 1 .. Len(arrays)
         /\ reg[c].len \in 1 .. Len(arrays[reg[c].ptr])
         /\ header' = header /\ adds' = adds
         /\ Adding' = {}
         /\ At(header.ptr, header.len)' = item[c]
  <1>1. c \in Adding /\ pc[c] = "storeItem" /\ header' = header /\ adds' = adds
        /\ pc' = [pc EXCEPT ![c] = "idle"]
    BY DEF StoreItem, Goto, Adding, AddStages
  <1>2. header \in [Words -> Nat] /\ arrays \in Seq(Seq(Slots)) /\ adds \in Nat
        /\ pc \in [Callers -> {"idle"} \cup AddStages \cup ListStages]
    BY StoreAssumption DEF TypeOK
  <1>3. Adding = {c}
    BY <1>1 DEF SoleInv
  <1>4. Adding' = {}
    BY <1>1, <1>2, <1>3 DEF Adding, AddStages
  <1>5. /\ adds > 0 /\ header.len = adds /\ reg[c].len = adds
        /\ header.ptr = reg[c].ptr
        /\ Whole(reg[c])
    BY <1>1 DEF SoleInv, AddInv
  <1>6. reg[c].ptr \in 1 .. Len(arrays) /\ reg[c].len \in 1 .. Len(arrays[reg[c].ptr])
    <2>1. reg[c].ptr \in Nat /\ reg[c].len \in Nat
      BY StoreItemArrays
    <2>. QED
      BY <1>2, <1>5, <2>1 DEF Whole
  <1>7. \A p \in Int, i \in Int :
            p = reg[c].ptr /\ i = reg[c].len => At(p, i)' = item[c]
    BY <1>6, StoreItemArrays
  <1>8. header.ptr \in Int /\ header.len \in Int
    BY <1>2 DEF Words
  <1>9. At(header.ptr, header.len)' = item[c]
    BY <1>1, <1>5, <1>7, <1>8
  <1>. QED
    BY <1>1, <1>4, <1>5, <1>6, <1>9

(* A step keeps what is kept where it can be found. *)
LEMMA KeptStep ==
  ASSUME IInv, NEW c \in Callers, Step(c)
  PROVE  KeptInv'
  <1>1. TypeOK /\ LocalInv /\ KeptInv
    BY DEF IInv
  <1>2. SUFFICES ASSUME NEW k \in kept', k \notin kept
                 PROVE  /\ k.slot \in 1 .. header'.len
                        /\ At(header.ptr, k.slot)' = k.manifest
                        /\ Adding' = {}
    BY <1>1, KeptOldStep DEF KeptInv
  <1>3. StoreItem(c) /\ ~raced /\ k = [slot |-> reg[c].len, manifest |-> item[c]]
    <2>1. StoreItem(c)
      BY <1>2, ArraysStay DEF Grow, history
    <2>. QED
      BY <1>2, <2>1 DEF StoreItem
  <1>4. SoleInv
    BY <1>3 DEF IInv
  <1>5. k.slot = reg[c].len /\ k.manifest = item[c]
    BY <1>3
  <1>6. /\ header.len = reg[c].len /\ header' = header /\ Adding' = {}
        /\ reg[c].len \in 1 .. Len(arrays[reg[c].ptr])
        /\ At(header.ptr, header.len)' = item[c]
    BY <1>1, <1>3, <1>4, ItemKept
  <1>7. reg[c].len \in 1 .. reg[c].len
    BY <1>6
  <1>. QED
    BY <1>5, <1>6, <1>7

(* A listing finds what it knew, whatever it loads. *)
LEMMA KnownStep ==
  ASSUME IInv, NEW c \in Callers, Step(c)
  PROVE  KnownInv'
  <1> DEFINE Finds(d) == \A k \in known[d] :
                /\ k.slot <= size[d]
                /\ reg[d].ptr # Unread => At(reg[d].ptr, k.slot) = k.manifest
                /\ reg[d].len # Unread => k.slot <= reg[d].len
  <1>1. TypeOK /\ LocalInv /\ KeptInv /\ KnownInv
    BY DEF IInv
  <1>2. /\ reg \in [Callers -> [Words -> Nat \cup {Unread}]]
        /\ pc \in [Callers -> {"idle"} \cup AddStages \cup ListStages]
        /\ known \in [Callers -> SUBSET Places] /\ kept \in SUBSET Places
        /\ size \in [Callers -> Nat] /\ header \in [Words -> Nat]
    BY <1>1 DEF TypeOK
  <1>3. kept \subseteq kept'
    BY KeptGrows
  <1>4. known' = known \/ (GetAll(c) /\ known' = [known EXCEPT ![c] = kept] /\ kept' = kept)
    BY DEF Step, Add, Load, Fits, Grow, StoreCap, StorePtr, StoreLen, StoreWord, StoreItem,
           GetAll, Make, MakeOfSize, Copy, CopyUpTo, Return, history
  <1>5. \A d \in Callers : known'[d] \subseteq kept'
    BY <1>1, <1>2, <1>3, <1>4 DEF KnownInv
  <1>6. ASSUME NEW d \in Callers, pc'[d] = "copy" PROVE Finds(d)'
    <2> USE DEF Goto
    <2>1. known'[d] = known[d]
      BY <1>2, <1>4, <1>6 DEF GetAll
    <2>2. ASSUME NEW k \in known[d], NEW p \in Int, At(p, k.slot) = k.manifest
          PROVE  At(p, k.slot)' = k.manifest
      BY <1>1, <2>2, KeptStays DEF KnownInv
    <2>3. \A k \in known[d] : k \in kept /\ k \in Places /\ k.slot \in Nat
      BY <1>1, <1>2 DEF KnownInv, Places
    <2>4. CASE d # c
      <3>1. pc'[d] = pc[d] /\ size'[d] = size[d] /\ reg'[d] = reg[d]
        BY <1>2, <2>4
        DEF Step, Add, Load, Fits, Grow, StoreCap, StorePtr, StoreLen, StoreWord, StoreItem,
            GetAll, Make, MakeOfSize, Copy, CopyUpTo, Return, history, Forget
      <3>2. Finds(d)
        BY <1>1, <1>6, <3>1 DEF KnownInv
      <3>3. reg[d].ptr \in Int
        BY <1>2 DEF Words, Unread
      <3>. QED
        BY <2>1, <2>2, <3>1, <3>2, <3>3
    <2>5. CASE d = c /\ Make(c)
      <3>1. size'[d] = header.len /\ reg'[d] = NothingRead
        BY <1>1, <1>2, <2>5 DEF Make, MakeOfSize, LocalInv
      <3>2. \A k \in known[d] : k.slot <= header.len
        BY <1>1, <1>2, <2>3 DEF KeptInv
      <3>. QED
        BY <2>1, <3>1, <3>2 DEF NothingRead, Words
    <2>6. ASSUME NEW w \in Words, d = c, Load(c, w) PROVE Finds(d)'
      <3>1. /\ pc[d] = "copy" /\ size' = size
            /\ reg' = [reg EXCEPT ![d][w] = header[w]]
        BY <1>6, <2>6 DEF Load
      <3>2. Finds(d)
        BY <1>1, <3>1 DEF KnownInv
      <3>3. reg[d].ptr \in Int /\ header.ptr \in Int
        BY <1>2 DEF Words, Unread
      <3>4. \A k \in known[d] : k.slot <= header.len /\ At(header.ptr, k.slot) = k.manifest
        BY <1>1, <1>2, <2>3 DEF KeptInv
      <3>5. /\ reg'[d].ptr \in {reg[d].ptr, header.ptr}
            /\ reg'[d].len \in {reg[d].len, header.len}
        BY <1>2, <3>1 DEF Words
      <3>6. ASSUME NEW k \in known[d], reg'[d].ptr # Unread
            PROVE  At(reg[d].ptr, k.slot)' = k.manifest
        <4>1. reg'[d].ptr \in Int /\ At(reg'[d].ptr, k.slot) = k.manifest
          BY <3>2, <3>3, <3>4, <3>5, <3>6
        <4>. QED
          BY <2>2, <4>1
      <3>7. ASSUME NEW k \in known[d], reg'[d].len # Unread PROVE k.slot <= reg'[d].len
        BY <3>2, <3>4, <3>5, <3>7
      <3>. QED
        BY <2>1, <3>1, <3>2, <3>6, <3>7
    <2>7. d = c => Make(c) \/ \E w \in Words : Load(c, w)
      BY <1>2, <1>6
      DEF Step, Add, Fits, Grow, StoreCap, StorePtr, StoreLen, StoreWord, StoreItem,
          GetAll, Copy, CopyUpTo, Return
    <2>. QED
      BY <2>4, <2>5, <2>6, <2>7
  <1>. QED
    BY <1>5, <1>6 DEF KnownInv

(* So it returns what it knew. *)
LEMMA ListedStep ==
  ASSUME IInv, NEW c \in Callers, Step(c)
  PROVE  EarlyRegistrationsListed'
  <1>1. TypeOK /\ KnownInv /\ EarlyRegistrationsListed
    BY DEF IInv
  <1>2. /\ pc \in [Callers -> {"idle"} \cup AddStages \cup ListStages]
        /\ known \in [Callers -> SUBSET Places] /\ kept \in SUBSET Places
        /\ size \in [Callers -> Nat] /\ listing \in [Callers -> Seq(Slots)]
    BY <1>1 DEF TypeOK
  <1>3. SUFFICES ASSUME NEW d \in Callers, pc'[d] \notin ListStages, NEW k \in known'[d]
                 PROVE  k.slot \in DOMAIN listing'[d] /\ listing'[d][k.slot] = k.manifest
    BY DEF EarlyRegistrationsListed
  <1>4. CASE d # c \/ ~Copy(c)
    <2>1. pc[d] \notin ListStages /\ known'[d] = known[d] /\ listing'[d] = listing[d]
      BY <1>2, <1>3, <1>4
      DEF Step, Add, Load, Fits, Grow, StoreCap, StorePtr, StoreLen, StoreWord, StoreItem,
          GetAll, Make, MakeOfSize, Copy, CopyUpTo, Return, history, Goto, AddStages, ListStages
    <2>. QED
      BY <1>1, <1>3, <2>1 DEF EarlyRegistrationsListed
  <1>5. CASE d = c /\ Copy(c)
    <2>1. /\ pc[d] = "copy" /\ known' = known
          /\ reg[d].ptr # Unread /\ reg[d].len # Unread
          /\ listing' = [listing EXCEPT ![d] = [i \in 1 .. size[d] |->
                            IF i <= reg[d].len THEN At(reg[d].ptr, i) ELSE Nil]]
      BY <1>5 DEF Copy, CopyUpTo, Return, Goto, history
    <2>2. k \in known[d] /\ k \in kept /\ k \in Places /\ k.slot \in Nat
      BY <1>1, <1>2, <1>3, <2>1 DEF KnownInv, Places
    <2>3. /\ k.slot <= size[d]
          /\ At(reg[d].ptr, k.slot) = k.manifest
          /\ k.slot <= reg[d].len
          /\ k.slot > 0
      BY <1>1, <2>1, <2>2 DEF KnownInv, IInv, KeptInv
    <2>4. k.slot \in 1 .. size[d]
      BY <1>2, <2>2, <2>3
    <2>. QED
      BY <1>2, <2>1, <2>3, <2>4
  <1>. QED
    BY <1>4, <1>5

-----------------------------------------------------------------------------
(* Until two Adds overlap *)

(* A listing disturbs nothing that an Add relies on. *)
LEMMA SoleReader ==
  ASSUME TypeOK, SoleInv, NEW c \in Callers, Step(c), pc[c] \notin AddStages,
         \A m \in Manifests : ~Add(c, m)
  PROVE  /\ SoleInv'
         /\ Adding' = Adding /\ header' = header /\ arrays' = arrays /\ adds' = adds
         /\ item' = item \/ (pc[c] = "copy" /\ item' = [item EXCEPT ![c] = Nil])
  <1> USE DEF AddStages, ListStages, Goto
  <1>1. /\ pc \in [Callers -> {"idle"} \cup AddStages \cup ListStages]
        /\ reg \in [Callers -> [Words -> Nat \cup {Unread}]]
    BY DEF TypeOK
  <1>2. \/ GetAll(c) \/ Make(c) \/ Copy(c)
        \/ \E w \in Words : Load(c, w) /\ pc[c] = "copy"
    BY DEF Step, Load, Fits, Grow, StoreCap, StorePtr, StoreLen, StoreWord, StoreItem
  <1>3. header' = header /\ arrays' = arrays /\ adds' = adds
    BY <1>2 DEF GetAll, Make, MakeOfSize, Copy, CopyUpTo, Return, Load, history
  <1>4. \A d \in Callers \ {c} : pc'[d] = pc[d] /\ reg'[d] = reg[d]
    BY <1>1, <1>2 DEF GetAll, Make, MakeOfSize, Copy, CopyUpTo, Return, Load, Forget
  <1>5. pc'[c] \notin AddStages
    BY <1>1, <1>2 DEF GetAll, Make, MakeOfSize, Copy, CopyUpTo, Return, Load
  <1>6. Adding' = Adding
    BY <1>4, <1>5 DEF Adding
  <1>7. item' = item \/ (pc[c] = "copy" /\ item' = [item EXCEPT ![c] = Nil])
    BY <1>2 DEF GetAll, Make, MakeOfSize, Copy, CopyUpTo, Return, Load, Forget
  <1>8. \A d \in Adding : d # c /\ d \in Callers
    BY DEF Adding
  <1>9. \A p \in Int, i \in Int : At(p, i)' = At(p, i)
    BY <1>3 DEF At
  <1>10. Whole(header)' <=> Whole(header)
    BY <1>3 DEF Whole
  <1>11. ASSUME NEW d \in Adding PROVE AddInv(d)'
    <2>1. AddInv(d) /\ pc'[d] = pc[d] /\ reg'[d] = reg[d]
      BY <1>4, <1>8 DEF SoleInv
    <2>2. Whole(reg[d])' <=> Whole(reg[d])
      BY <1>3, <2>1 DEF Whole
    <2>3. ASSUME pc[d] # "append"
          PROVE  \A i \in 1 .. adds' - 1 : At(reg[d].ptr, i)' = At(header.ptr, i)'
      BY <1>3, <2>1, <2>3 DEF AddInv, At
    <2>. QED
      BY <1>3, <1>10, <2>1, <2>2, <2>3 DEF AddInv
  <1>12. Stored' = Stored
    BY <1>3, <1>6 DEF Stored
  <1>13. \A i \in 1 .. Stored' : At(header.ptr, i)' \in Manifests
    BY <1>3, <1>12 DEF SoleInv, At
  <1>14. SoleInv'
    BY <1>3, <1>6, <1>10, <1>11, <1>13 DEF SoleInv
  <1>. QED
    BY <1>3, <1>6, <1>7, <1>14

(* An Add that is on its own leaves s.store and its registers as the next step expects. *)
LEMMA SoleAdder ==
  ASSUME TypeOK, LocalInv, SoleInv, NEW c \in Callers, c \in Adding, Step(c)
  PROVE  SoleInv'
  <1> USE DEF AddStages, ListStages, Goto
  <1>1. /\ pc \in [Callers -> {"idle"} \cup AddStages \cup ListStages]
        /\ reg \in [Callers -> [Words -> Nat \cup {Unread}]]
        /\ header \in [Words -> Nat] /\ arrays \in Seq(Seq(Slots))
        /\ header.ptr \in Nat /\ header.len \in Nat /\ header.cap \in Nat
        /\ adds \in Nat
    BY StoreAssumption DEF TypeOK, Words
  <1>2. Adding = {c} /\ AddInv(c)
    BY DEF SoleInv
  <1>3. /\ adds > 0 /\ Stored = adds - 1
        /\ header.ptr <= Len(arrays)
        /\ \A i \in 1 .. adds - 1 : At(header.ptr, i) \in Manifests
    <2>1. adds > 0
      BY <1>2 DEF AddInv
    <2>2. Stored = adds - 1
      BY <1>2 DEF Stored
    <2>3. header.ptr <= Len(arrays) /\ \A i \in 1 .. Stored : At(header.ptr, i) \in Manifests
      BY <1>1 DEF SoleInv
    <2>. QED
      BY <2>1, <2>2, <2>3
  <1>4. ASSUME ~StoreItem(c)
        PROVE  Adding' = {c} /\ adds' = adds /\ Stored' = adds - 1
    <2>1. /\ pc'[c] \in AddStages /\ adds' = adds
          /\ \A d \in Callers : d # c => pc'[d] = pc[d]
      BY <1>1, <1>4
      DEF Adding, Step, Add, Load, Fits, Grow, StoreCap, StorePtr, StoreLen, StoreWord,
          GetAll, Make, MakeOfSize, Copy, CopyUpTo, Return, history
    <2>2. Adding' = {c}
      BY <1>2, <2>1 DEF Adding
    <2>. QED
      BY <2>1, <2>2 DEF Stored
  <1>5. ASSUME ~StoreItem(c), header'.ptr \in 0 .. Len(arrays'), AddInv(c)',
               \A i \in 1 .. adds - 1 : At(header.ptr, i)' \in Manifests
        PROVE  SoleInv'
    <2>1. Adding' = {c} /\ Stored' = adds - 1
      BY <1>4, <1>5
    <2>. QED
      BY <1>5, <2>1 DEF SoleInv
  <1>6. ASSUME NEW w \in Words, Load(c, w) PROVE SoleInv'
    <2>1. /\ pc[c] = "append" /\ pc' = pc /\ header' = header /\ arrays' = arrays
          /\ adds' = adds /\ reg' = [reg EXCEPT ![c][w] = header[w]]
      BY <1>6 DEF Load, history, Adding
    <2>2. Whole(header)' /\ \A i \in 1 .. adds - 1 : At(header.ptr, i)' \in Manifests
      BY <1>2, <1>3, <2>1 DEF AddInv, Whole, At
    <2>3. \A v \in Words : reg'[c][v] \in {Unread, header[v]}
      BY <1>1, <1>2, <2>1 DEF AddInv
    <2>4. AddInv(c)'
      BY <1>2, <2>1, <2>2, <2>3 DEF AddInv
    <2>. QED
      BY <1>1, <1>3, <1>5, <2>1, <2>2, <2>4 DEF StoreItem
  <1>7. CASE Fits(c)
    <2>1. /\ pc[c] = "append" /\ pc' = [pc EXCEPT ![c] = "storeLen"]
          /\ header' = header /\ arrays' = arrays /\ adds' = adds
          /\ reg' = [reg EXCEPT ![c].len = @ + 1]
          /\ Loaded(c) /\ reg[c].len < reg[c].cap
      BY <1>7 DEF Fits, history
    <2>2. reg[c].ptr = header.ptr /\ reg[c].len = header.len /\ reg[c].cap = header.cap
      BY <1>2, <2>1 DEF AddInv, Loaded, Words
    <2>3. reg'[c].ptr = header.ptr /\ reg'[c].len = header.len + 1 /\ reg'[c].cap = header.cap
      BY <1>1, <2>1, <2>2 DEF Words
    <2>4. header.len = adds - 1 /\ Whole(header)
      BY <1>2, <2>1 DEF AddInv
    <2>5. Whole(reg[c])'
      BY <1>1, <2>1, <2>2, <2>3, <2>4 DEF Whole
    <2>6. /\ \A i \in 1 .. adds - 1 : At(header.ptr, i)' \in Manifests
          /\ \A i \in 1 .. adds' - 1 : At(reg[c].ptr, i)' = At(header.ptr, i)'
      BY <1>3, <2>1, <2>3 DEF At
    <2>7. pc'[c] = "storeLen"
      BY <1>1, <2>1
    <2>8. AddInv(c)'
      BY <1>1, <1>3, <2>1, <2>3, <2>4, <2>5, <2>6, <2>7 DEF AddInv
    <2>. QED
      BY <1>1, <1>3, <1>5, <2>1, <2>6, <2>8 DEF StoreItem
  <1>8. CASE Grow(c)
    <2> DEFINE n == Len(arrays) + 1
    <2>1. /\ pc[c] = "append" /\ pc' = [pc EXCEPT ![c] = "growCap"]
          /\ header' = header /\ adds' = adds /\ Loaded(c)
      BY <1>8 DEF Grow, history
    <2>2. /\ reg' = [reg EXCEPT ![c] = [ptr |-> n, len |-> reg[c].len + 1,
                                       cap |-> Grown(reg[c].len, reg[c].cap)]]
          /\ Grown(reg[c].len, reg[c].cap) \in Nat
          /\ reg[c].len + 1 <= Grown(reg[c].len, reg[c].cap)
          /\ Len(arrays') = n
          /\ Len(arrays'[n]) = Grown(reg[c].len, reg[c].cap)
          /\ \A p \in 0 .. Len(arrays), i \in Int : At(p, i)' = At(p, i)
          /\ \A p \in Nat, q \in Nat, i \in 1 .. reg[c].len :
                    p = n /\ q = reg[c].ptr => At(p, i)' = At(q, i)
      BY <1>8, GrowArrays
    <2>3. reg[c].ptr = header.ptr /\ reg[c].len = header.len /\ reg[c].cap = header.cap
      BY <1>2, <2>1 DEF AddInv, Loaded, Words
    <2>4. /\ reg'[c].ptr = n /\ reg'[c].len = header.len + 1
          /\ reg'[c].cap = Grown(reg[c].len, reg[c].cap)
      BY <1>1, <2>2, <2>3
    <2>5. header.len = adds - 1 /\ n \in Nat
      BY <1>1, <1>2, <2>1 DEF AddInv
    <2>6. Whole(reg[c])'
      BY <1>1, <2>2, <2>3, <2>4, <2>5 DEF Whole
    <2>7. \A i \in 1 .. adds - 1 : At(header.ptr, i)' = At(header.ptr, i)
      BY <1>1, <1>3, <2>1, <2>2
    <2>8. \A i \in 1 .. adds - 1 : At(reg[c].ptr, i)' = At(header.ptr, i)
      BY <1>1, <2>2, <2>3, <2>4, <2>5
    <2>9. pc'[c] = "growCap"
      BY <1>1, <2>1
    <2>10. AddInv(c)'
      BY <1>1, <1>3, <2>1, <2>4, <2>5, <2>6, <2>7, <2>8, <2>9 DEF AddInv
    <2>11. \A i \in 1 .. adds - 1 : At(header.ptr, i)' \in Manifests
      BY <1>3, <2>7
    <2>. QED
      BY <1>1, <1>3, <1>5, <2>1, <2>2, <2>10, <2>11 DEF StoreItem
  <1>9. CASE StoreCap(c) \/ StorePtr(c) \/ StoreLen(c)
    <2>1. /\ arrays' = arrays /\ reg' = reg /\ adds' = adds /\ pc[c] # "append"
          /\ ~StoreItem(c)
      BY <1>9 DEF StoreCap, StorePtr, StoreLen, StoreWord, history, StoreItem
    <2>2. /\ Whole(reg[c]) /\ Whole(reg[c])'
          /\ reg[c].len = adds /\ reg[c].ptr \in 0 .. Len(arrays)
      BY <1>2, <2>1 DEF AddInv, Whole
    <2>3. \A i \in 1 .. adds - 1 : At(reg[c].ptr, i)' = At(header.ptr, i)
      BY <1>2, <2>1 DEF AddInv, At
    <2>4. header'.ptr \in {header.ptr, reg[c].ptr}
      BY <1>1, <1>9 DEF StoreCap, StorePtr, StoreLen, StoreWord, Words
    <2>5. \A i \in 1 .. adds - 1 : At(header.ptr, i)' = At(header.ptr, i)
      BY <2>1, <2>3, <2>4 DEF At
    <2>6. \A i \in 1 .. adds - 1 : At(header.ptr, i)' \in Manifests
      BY <1>3, <2>5
    <2>7. \A i \in 1 .. adds' - 1 : At(reg[c].ptr, i)' = At(header.ptr, i)'
      BY <2>1, <2>3, <2>5
    <2>8. /\ pc'[c] # "append"
          /\ header'.len = IF pc'[c] = "storeItem" THEN adds ELSE adds - 1
          /\ pc'[c] = "growPtr" => header'.cap = reg[c].cap
          /\ pc'[c] \in {"storeLen", "storeItem"} =>
                header'.ptr = reg[c].ptr /\ header'.cap = reg[c].cap
      BY <1>1, <1>2, <1>9, <2>2 DEF StoreCap, StorePtr, StoreLen, StoreWord, AddInv, Words
    <2>9. AddInv(c)'
      BY <1>3, <2>1, <2>2, <2>7, <2>8 DEF AddInv
    <2>. QED
      BY <1>1, <1>3, <1>5, <2>1, <2>2, <2>4, <2>6, <2>9
  <1>10. CASE StoreItem(c)
    <2>1. /\ header.ptr = reg[c].ptr /\ header.len = reg[c].len /\ header.len = adds
          /\ header' = header /\ adds' = adds /\ Adding' = {}
          /\ At(header.ptr, header.len)' = item[c]
      BY <1>10, ItemKept
    <2>2. /\ Len(arrays') = Len(arrays) /\ item[c] \in Manifests
          /\ \A p \in 1 .. Len(arrays) : Len(arrays'[p]) = Len(arrays[p])
          /\ \A p \in Int, i \in Int : i # reg[c].len => At(p, i)' = At(p, i)
      BY <1>10, StoreItemArrays
    <2>3. Whole(reg[c]) /\ header.cap = reg[c].cap
      BY <1>2, <1>10 DEF AddInv, StoreItem
    <2>4. Whole(header)'
      BY <1>1, <2>1, <2>2, <2>3 DEF Whole
    <2>5. Stored' = adds
      BY <1>1, <2>1 DEF Stored
    <2>6. ASSUME NEW i \in 1 .. adds PROVE At(header.ptr, i)' \in Manifests
      <3>1. CASE i = adds
        BY <2>1, <2>2, <3>1
      <3>2. CASE i # adds
        <4>1. i \in 1 .. adds - 1 /\ i # reg[c].len /\ header.ptr \in Int /\ i \in Int
          BY <1>1, <2>1, <3>2
        <4>2. At(header.ptr, i)' = At(header.ptr, i)
          BY <2>1, <2>2, <4>1
        <4>. QED
          BY <1>3, <4>1, <4>2
      <3>. QED
        BY <3>1, <3>2
    <2>. QED
      BY <1>1, <1>3, <2>1, <2>2, <2>4, <2>5, <2>6 DEF SoleInv
  <1>11. ~GetAll(c) /\ ~Make(c) /\ ~Copy(c) /\ \A m \in Manifests : ~Add(c, m)
    BY DEF GetAll, Make, MakeOfSize, Copy, CopyUpTo, Return, Add, Adding
  <1>. QED
    BY <1>6, <1>7, <1>8, <1>9, <1>10, <1>11 DEF Step

(* An Add that begins while no other runs finds the slice whole. *)
LEMMA SoleBegins ==
  ASSUME TypeOK, LocalInv, SoleInv, NEW c \in Callers, NEW m \in Manifests, Add(c, m), Adding = {}
  PROVE  SoleInv'
  <1> USE DEF AddStages, ListStages, Goto
  <1>1. /\ pc \in [Callers -> {"idle"} \cup AddStages \cup ListStages]
        /\ header \in [Words -> Nat] /\ header.ptr \in Nat /\ header.len \in Nat
        /\ arrays \in Seq(Seq(Slots)) /\ adds \in Nat
    BY StoreAssumption DEF TypeOK, Words
  <1>2. /\ pc[c] = "idle" /\ pc' = [pc EXCEPT ![c] = "append"]
        /\ header' = header /\ arrays' = arrays /\ reg' = reg /\ adds' = adds + 1
    BY DEF Add
  <1>3. Adding' = {c} /\ pc'[c] = "append" /\ reg'[c] = NothingRead
    BY <1>1, <1>2 DEF Adding, LocalInv
  <1>4. Whole(header) /\ header.len = adds
    BY DEF SoleInv
  <1>5. Whole(header)'
    BY <1>2, <1>4 DEF Whole
  <1>6. Stored = adds /\ Stored' = adds
    BY <1>1, <1>2, <1>3 DEF Stored
  <1>7. \A i \in 1 .. Stored' : At(header.ptr, i)' \in Manifests
    BY <1>2, <1>6 DEF SoleInv, At
  <1>8. AddInv(c)'
    BY <1>1, <1>2, <1>3, <1>4, <1>5 DEF AddInv, NothingRead
  <1>. QED
    BY <1>2, <1>3, <1>7, <1>8 DEF SoleInv

(* Every step keeps what holds until two Adds overlap, or is the one that overlaps. *)
LEMMA SoleStep ==
  ASSUME IInv, NEW c \in Callers, Step(c), ~raced'
  PROVE  SoleInv'
  <1>1. ~raced
    BY DEF Step, Add, Load, Fits, Grow, StoreCap, StorePtr, StoreLen, StoreWord, StoreItem,
           GetAll, Make, MakeOfSize, Copy, CopyUpTo, Return, history
  <1>2. TypeOK /\ LocalInv /\ SoleInv
    BY <1>1 DEF IInv
  <1>3. ASSUME NEW m \in Manifests, Add(c, m) PROVE SoleInv'
    <2>1. Adding = {}
      BY <1>3 DEF Add
    <2>. QED
      BY <1>2, <1>3, <2>1, SoleBegins
  <1>4. CASE c \in Adding
    BY <1>2, <1>4, SoleAdder
  <1>5. CASE c \notin Adding /\ \A m \in Manifests : ~Add(c, m)
    BY <1>2, <1>5, SoleReader DEF Adding
  <1>. QED
    BY <1>3, <1>4, <1>5

-----------------------------------------------------------------------------
(* What holds whatever races *)

(* A step that changes nothing changes none of this. *)
LEMMA Stutter ==
  ASSUME IInv, UNCHANGED vars
  PROVE  IInv'
  <1> USE DEF vars
  <1>1. TypeOK' /\ LocalInv' /\ EarlyRegistrationsListed'
    BY DEF IInv, TypeOK, LocalInv, Loaded, EarlyRegistrationsListed
  <1>2. KeptInv' /\ KnownInv'
    BY DEF IInv, KeptInv, KnownInv, At, Adding
  <1>3. SoleInv' <=> SoleInv
    <2>1. Adding' = Adding /\ Stored' = Stored
      BY DEF Adding, Stored
    <2>2. \A d \in Callers : AddInv(d)' <=> AddInv(d)
      BY DEF AddInv, Whole, At
    <2>3. Whole(header)' <=> Whole(header)
      BY DEF Whole
    <2>4. (\A i \in 1 .. Stored : At(header.ptr, i) \in Manifests)'
          <=> \A i \in 1 .. Stored : At(header.ptr, i) \in Manifests
      BY <2>1 DEF At
    <2>. QED
      BY <2>1, <2>2, <2>3, <2>4 DEF SoleInv, Adding
  <1>. QED
    BY <1>1, <1>2, <1>3 DEF IInv

(* The invariant is inductive. *)
LEMMA IInvStep == IInv /\ [Next]_vars => IInv'
  <1>1. ASSUME IInv, Next PROVE IInv'
    <2>1. PICK c \in Callers : Step(c)
      BY <1>1 DEF Next, Step
    <2>2. TypeOK' /\ LocalInv'
      BY <1>1, TypeStep DEF IInv
    <2>3. KeptInv' /\ KnownInv' /\ EarlyRegistrationsListed'
      BY <1>1, <2>1, KeptStep, KnownStep, ListedStep
    <2>4. ~raced' => SoleInv'
      BY <1>1, <2>1, SoleStep
    <2>. QED
      BY <2>2, <2>3, <2>4 DEF IInv
  <1>. QED
    BY <1>1, Stutter

(* It holds in every behaviour, with as many racing callers as one likes. *)
LEMMA Invariance == Spec => []IInv
  <1>1. Init => IInv
    BY InitInv
  <1>. QED
    BY <1>1, IInvStep, PTL DEF Spec

(***************************************************************************)
(* Type correctness of the registry: a loaded word is a natural number, a  *)
(* slot a manifest, nil, or what lies past an array.                       *)
(***************************************************************************)
THEOREM TypeCorrect == Spec => []TypeOK
  <1>1. IInv => TypeOK
    BY DEF IInv
  <1>. QED
    BY <1>1, Invariance, PTL

(***************************************************************************)
(* What the races of Add and GetAll leave standing: a registration whose   *)
(* Add ended before two Adds first overlapped is in every later listing,   *)
(* at its place, however many goroutines race.                             *)
(***************************************************************************)
THEOREM EarlyListed == Spec => []EarlyRegistrationsListed
  <1>1. IInv => EarlyRegistrationsListed
    BY DEF IInv
  <1>. QED
    BY <1>1, Invariance, PTL

(***************************************************************************)
(* Overlapping Adds are all that loses a registration: until two overlap,  *)
(* the list has as many registrations as Adds were answered, whatever      *)
(* listings read meanwhile.                                                *)
(***************************************************************************)
THEOREM NothingLostBeforeRace == Spec => [](~raced => NothingLost)
  <1>1. IInv => (~raced => NothingLost)
    BY DEF IInv, SoleInv, NothingLost
  <1>. QED
    BY <1>1, Invariance, PTL

-----------------------------------------------------------------------------
(* How many registrations a listing may show *)

(* Nothing is counted before the first Add. *)
LEMMA CountInit == Init => CountInv
  <1> SUFFICES ASSUME Init PROVE CountInv
    OBVIOUS
  <1>1. Unextended = {}
    BY DEF Init, Unextended, AddStages
  <1>2. IsFiniteSet(Unextended) /\ Extended = 0
    BY <1>1, FS_EmptySet DEF Init, Extended
  <1>. QED
    BY <1>2 DEF Init, CountInv, NoListingTooLong, Words, Unextended, NothingRead, Unread, AddStages

(* An Add is counted when it stores the length. *)
LEMMA Counting ==
  ASSUME TypeOK, IsFiniteSet(Unextended), NEW c \in Callers, Step(c)
  PROVE  /\ IsFiniteSet(Unextended') /\ Extended \in Int /\ Extended' \in Int
         /\ Extended <= adds /\ Extended' <= adds'
         /\ Extended' = IF StoreLen(c) THEN Extended + 1 ELSE Extended
         /\ adds' \in Nat /\ adds \in Nat /\ adds' >= adds
  <1> USE DEF AddStages, ListStages, Goto
  <1>1. /\ pc \in [Callers -> {"idle"} \cup AddStages \cup ListStages] /\ adds \in Nat
        /\ Cardinality(Unextended) \in Nat
    BY StoreAssumption, FS_CardinalityType DEF TypeOK
  <1>2. ASSUME NEW m \in Manifests, Add(c, m)
        PROVE  /\ IsFiniteSet(Unextended') /\ Cardinality(Unextended') = Cardinality(Unextended) + 1
               /\ adds' = adds + 1
    <2>1. c \notin Unextended /\ Unextended' = Unextended \cup {c} /\ adds' = adds + 1
      BY <1>1, <1>2 DEF Unextended, Add
    <2>. QED
      BY <2>1, FS_AddElement
  <1>3. ASSUME StoreLen(c)
        PROVE  /\ IsFiniteSet(Unextended') /\ Cardinality(Unextended') = Cardinality(Unextended) - 1
               /\ adds' = adds
    <2>1. c \in Unextended /\ Unextended' = Unextended \ {c} /\ adds' = adds
      BY <1>1, <1>3 DEF Unextended, StoreLen, StoreWord, history
    <2>. QED
      BY <2>1, FS_RemoveElement
  <1>4. ASSUME ~StoreLen(c), \A m \in Manifests : ~Add(c, m)
        PROVE  Unextended' = Unextended /\ adds' = adds
    BY <1>1, <1>4
    DEF Unextended, Step, Load, Fits, Grow, StoreCap, StorePtr, StoreWord, StoreItem,
        GetAll, Make, MakeOfSize, Copy, CopyUpTo, Return, history
  <1>5. \A m \in Manifests : ~(Add(c, m) /\ StoreLen(c))
    BY DEF Add, StoreLen, StoreWord
  <1>6. Cardinality(Unextended') \in Nat
    BY <1>2, <1>3, <1>4, FS_CardinalityType
  <1>. QED
    BY <1>1, <1>2, <1>3, <1>4, <1>5, <1>6 DEF Extended

(* No length is counted twice. *)
LEMMA CountStep ==
  ASSUME TypeOK, LocalInv, CountInv, NEW c \in Callers, Step(c)
  PROVE  CountInv'
  <1> USE DEF AddStages, ListStages, Goto, Words, Unread
  <1> DEFINE More(d) == IF pc[d] = "append" THEN 0 ELSE 1
  <1>1. /\ pc \in [Callers -> {"idle"} \cup AddStages \cup ListStages]
        /\ reg \in [Callers -> [Words -> Nat \cup {Unread}]]
        /\ header \in [Words -> Nat]
        /\ size \in [Callers -> Nat] /\ listing \in [Callers -> Seq(Slots)]
    BY DEF TypeOK
  <1>2. /\ IsFiniteSet(Unextended') /\ Extended \in Int /\ Extended' \in Int
        /\ Extended <= adds /\ Extended' <= adds'
        /\ Extended' = IF StoreLen(c) THEN Extended + 1 ELSE Extended
        /\ adds \in Nat /\ adds' \in Nat /\ adds' >= adds
    BY Counting DEF CountInv
  <1>3. /\ header.len <= Extended
        /\ \A d \in Unextended : reg[d].len <= Extended + More(d)
        /\ \A d \in Callers : size[d] <= adds
        /\ \A d \in Callers : Len(listing[d]) <= adds
    BY DEF CountInv, NoListingTooLong
  <1>4. header'.len <= Extended'
    <2>1. CASE StoreLen(c)
      <3>1. c \in Unextended /\ reg[c].len <= Extended + 1 /\ header'.len = reg[c].len
        BY <1>1, <1>3, <2>1 DEF StoreLen, StoreWord, Unextended
      <3>. QED
        BY <1>2, <2>1, <3>1
    <2>2. CASE ~StoreLen(c)
      <3>1. header'.len = header.len
        BY <1>1, <2>2 DEF Step, Add, Load, Fits, Grow, StoreCap, StorePtr, StoreWord, StoreItem,
                          GetAll, Make, MakeOfSize, Copy, CopyUpTo, Return
      <3>. QED
        BY <1>2, <1>3, <2>2, <3>1
    <2>. QED
      BY <2>1, <2>2
  <1>5. ASSUME NEW d \in Unextended', d # c PROVE reg'[d].len <= Extended' + More(d)'
    <2>1. d \in Unextended /\ reg'[d] = reg[d] /\ pc'[d] = pc[d]
      BY <1>1, <1>5
      DEF Unextended, Step, Add, Load, Fits, Grow, StoreCap, StorePtr, StoreLen, StoreWord,
          StoreItem, GetAll, Make, MakeOfSize, Copy, CopyUpTo, Return, Forget
    <2>2. reg[d].len \in Int
      BY <1>1, <2>1 DEF Unextended
    <2>. QED
      BY <1>2, <1>3, <2>1, <2>2
  <1>6. ASSUME c \in Unextended' PROVE reg'[c].len <= Extended' + More(c)'
    <2>1. ASSUME NEW m \in Manifests, Add(c, m) PROVE reg'[c].len = Unread /\ 0 <= Extended'
      BY <1>1, <1>2, <1>4, <2>1 DEF Add, LocalInv, NothingRead
    <2>2. ASSUME NEW w \in Words, Load(c, w)
          PROVE  reg'[c].len <= Extended /\ Extended' = Extended
      BY <1>1, <1>2, <1>3, <1>6, <2>2 DEF Load, Unextended, StoreLen, StoreWord
    <2>3. CASE Fits(c) \/ Grow(c)
      <3>1. /\ c \in Unextended /\ pc[c] = "append" /\ pc'[c] \in {"growCap", "storeLen"}
            /\ ~StoreLen(c) /\ reg[c].len \in Int
        BY <1>1, <2>3 DEF Fits, Grow, Unextended, StoreLen, StoreWord
      <3>2. reg'[c].len = reg[c].len + 1
        BY <1>1, <2>3 DEF Fits, Grow
      <3>. QED
        BY <1>2, <1>3, <3>1, <3>2
    <2>4. CASE StoreCap(c) \/ StorePtr(c)
      <3>1. /\ c \in Unextended /\ pc[c] # "append" /\ pc'[c] # "append"
            /\ ~StoreLen(c) /\ reg' = reg
        BY <1>1, <2>4 DEF StoreCap, StorePtr, StoreLen, StoreWord, Unextended
      <3>. QED
        BY <1>2, <1>3, <3>1
    <2>5. ~StoreLen(c) /\ ~StoreItem(c) /\ ~GetAll(c) /\ ~Make(c) /\ ~Copy(c)
      BY <1>1, <1>6
      DEF Unextended, StoreLen, StoreWord, StoreItem, GetAll, Make, MakeOfSize, Copy, CopyUpTo, Return
    <2>6. reg'[c].len = Unread \/ reg'[c].len \in Int
      BY TypeStep DEF Next, Step, TypeOK
    <2>. QED
      BY <1>2, <2>1, <2>2, <2>3, <2>4, <2>5, <2>6 DEF Step
  <1>7. ASSUME NEW d \in Callers PROVE size'[d] <= adds'
    <2>1. size'[d] = size[d] \/ size'[d] = header.len \/ size'[d] = 0
      BY <1>1, <1>7
      DEF Step, Add, Load, Fits, Grow, StoreCap, StorePtr, StoreLen, StoreWord,
          StoreItem, GetAll, Make, MakeOfSize, Copy, CopyUpTo, Return
    <2>. QED
      BY <1>1, <1>2, <1>3, <2>1
  <1>8. ASSUME NEW d \in Callers PROVE Len(listing'[d]) <= adds'
    <2>1. CASE listing'[d] = listing[d]
      BY <1>1, <1>2, <1>3, <2>1
    <2>2. CASE Copy(c) /\ d = c
      <3> DEFINE copied == [i \in 1 .. size[c] |-> IF i <= reg[c].len THEN At(reg[c].ptr, i) ELSE Nil]
      <3>1. listing'[d] = copied /\ reg[c].ptr \in Nat /\ reg[c].len \in Nat /\ size[c] \in Nat
        BY <1>1, <2>2 DEF Copy, CopyUpTo, Return
      <3>2. copied \in Seq(Slots)
        BY <3>1, GrownArray, Zenon
      <3>3. Len(copied) = size[c]
        BY <3>1, <3>2
      <3>. QED
        BY <1>1, <1>2, <1>3, <3>1, <3>3
    <2>3. listing'[d] = listing[d] \/ (Copy(c) /\ d = c)
      BY <1>1
      DEF Step, Add, Load, Fits, Grow, StoreCap, StorePtr, StoreLen, StoreWord,
          StoreItem, GetAll, Make, MakeOfSize, Copy, CopyUpTo, Return, history
    <2>. QED
      BY <2>1, <2>2, <2>3
  <1>9. \A d \in Unextended' : reg'[d].len <= Extended' + More(d)'
    BY <1>5, <1>6
  <1>. QED
    BY <1>2, <1>4, <1>7, <1>8, <1>9 DEF CountInv, NoListingTooLong

(***************************************************************************)
(* A race never makes a registration count twice: a listing has at most as *)
(* many entries as Add has been called, with any number of racing callers. *)
(***************************************************************************)
THEOREM NoneInvented == Spec => []NoListingTooLong
  <1>1. Init => TypeOK /\ LocalInv /\ CountInv
    BY InitInv, CountInit DEF IInv
  <1>2. ASSUME TypeOK /\ LocalInv /\ CountInv, [Next]_vars
        PROVE  (TypeOK /\ LocalInv /\ CountInv)'
    <2>1. ASSUME Next PROVE (TypeOK /\ LocalInv /\ CountInv)'
      <3>1. PICK c \in Callers : Step(c)
        BY <2>1 DEF Next, Step
      <3>. QED
        BY <1>2, <2>1, <3>1, TypeStep, CountStep
    <2>2. CASE UNCHANGED vars
      BY <1>2, <2>2
      DEF vars, TypeOK, LocalInv, Loaded, CountInv, Unextended, Extended, NoListingTooLong
    <2>. QED
      BY <1>2, <2>1, <2>2
  <1>3. CountInv => NoListingTooLong
    BY DEF CountInv
  <1>. QED
    BY <1>1, <1>2, <1>3, PTL DEF Spec

-----------------------------------------------------------------------------
(* Until an Add overlaps a call *)

(* While an Add runs, every other caller is outside; while one lists, no Add runs. *)
LEMMA Alone ==
  ASSUME TypeOK, Exclusive, NEW c \in Callers, pc[c] # "idle"
  PROVE  Adding = {} \/ (Adding = {c} /\ \A d \in Callers : d # c => pc[d] = "idle")
  BY DEF Exclusive, Adding

(* A step that is not recorded as an overlap leaves the calls apart. *)
LEMMA StillApart ==
  ASSUME TypeOK, ~raced, Exclusive, NEW c \in Callers, Step(c), ~overlapped'
  PROVE  ~overlapped /\ ~raced' /\ Exclusive'
  <1> USE DEF AddStages, ListStages, Goto
  <1>1. pc \in [Callers -> {"idle"} \cup AddStages \cup ListStages]
    BY DEF TypeOK
  <1>2. ASSUME NEW m \in Manifests, Add(c, m) PROVE ~overlapped /\ ~raced' /\ Exclusive'
    <2>1. ~overlapped /\ \A d \in Callers : pc[d] = "idle"
      BY <1>2 DEF Add
    <2>2. Adding = {}
      BY <2>1 DEF Adding
    <2>3. \A d \in Callers : pc'[d] # "idle" => d = c
      BY <1>1, <1>2, <2>1 DEF Add
    <2>. QED
      BY <1>2, <2>1, <2>2, <2>3 DEF Add, Exclusive, Adding
  <1>3. CASE GetAll(c)
    <2>1. ~overlapped /\ Adding = {}
      BY <1>3 DEF GetAll
    <2>2. Adding' = {}
      BY <1>1, <1>3, <2>1 DEF GetAll, Adding
    <2>. QED
      BY <1>3, <2>1, <2>2 DEF GetAll, Exclusive
  <1>4. CASE ~GetAll(c) /\ \A m \in Manifests : ~Add(c, m)
    <2>1. overlapped' = overlapped /\ raced' = raced
      BY <1>4 DEF Step, Load, Fits, Grow, StoreCap, StorePtr, StoreLen, StoreWord, StoreItem,
                  Make, MakeOfSize, Copy, CopyUpTo, Return, history
    <2>2. /\ \A d \in Callers : pc'[d] # "idle" => pc[d] # "idle"
          /\ \A d \in Callers : pc'[d] \in AddStages => pc[d] \in AddStages
      BY <1>1, <1>4 DEF Step, Load, Fits, Grow, StoreCap, StorePtr, StoreLen, StoreWord,
                        StoreItem, Make, MakeOfSize, Copy, CopyUpTo, Return
    <2>. QED
      BY <2>1, <2>2 DEF Exclusive, Adding
  <1>. QED
    BY <1>2, <1>3, <1>4

(* What a listing has loaded stays what s.store is. *)
LEMMA ReaderStep ==
  ASSUME IInv, ApartInv, NEW c \in Callers, Step(c), Exclusive'
  PROVE  ReaderInv'
  <1> USE DEF AddStages, ListStages, Goto
  <1>1. TypeOK /\ LocalInv /\ SoleInv /\ ReaderInv /\ Exclusive
    BY DEF ApartInv, IInv
  <1>2. /\ pc \in [Callers -> {"idle"} \cup AddStages \cup ListStages]
        /\ reg \in [Callers -> [Words -> Nat \cup {Unread}]]
        /\ size \in [Callers -> Nat]
    BY <1>1 DEF TypeOK
  <1>3. SUFFICES ASSUME NEW d \in Callers, pc'[d] = "copy"
                 PROVE  /\ size'[d] = header'.len
                        /\ reg'[d].ptr \in {Unread, header'.ptr}
                        /\ reg'[d].len \in {Unread, header'.len}
    BY DEF ReaderInv
  <1>4. pc[d] \in ListStages
    BY <1>2, <1>3 DEF Step, Add, Load, Fits, Grow, StoreCap, StorePtr, StoreLen, StoreWord,
                      StoreItem, GetAll, Make, MakeOfSize, Copy, CopyUpTo, Return
  <1>5. c \notin Adding
    BY <1>1, <1>4 DEF Exclusive, Adding
  <1>6. \A m \in Manifests : ~Add(c, m)
    <2>1. ASSUME NEW m \in Manifests, Add(c, m) PROVE c \in Adding'
      BY <1>2, <2>1 DEF Add, Adding
    <2>2. c \in Adding' => d = c
      BY <1>3 DEF Exclusive
    <2>. QED
      BY <1>4, <2>1, <2>2 DEF Add
  <1>7. header' = header
    BY <1>1, <1>5, <1>6, SoleReader DEF Adding
  <1>8. CASE d # c
    <2>1. pc'[d] = pc[d] /\ size'[d] = size[d] /\ reg'[d] = reg[d]
      BY <1>2, <1>8
      DEF Step, Add, Load, Fits, Grow, StoreCap, StorePtr, StoreLen, StoreWord, StoreItem,
          GetAll, Make, MakeOfSize, Copy, CopyUpTo, Return, history, Forget
    <2>. QED
      BY <1>1, <1>3, <1>7, <2>1 DEF ReaderInv
  <1>9. CASE d = c
    <2>1. Make(c) \/ \E w \in Words : Load(c, w)
      BY <1>2, <1>3, <1>4, <1>9
      DEF Step, Add, Fits, Grow, StoreCap, StorePtr, StoreLen, StoreWord, StoreItem,
          GetAll, Copy, CopyUpTo, Return
    <2>2. CASE Make(c)
      BY <1>1, <1>2, <1>7, <1>9, <2>2 DEF Make, MakeOfSize, LocalInv, NothingRead, Words
    <2>3. ASSUME NEW w \in Words, Load(c, w)
          PROVE  /\ size'[d] = header'.len
                 /\ reg'[d].ptr \in {Unread, header'.ptr}
                 /\ reg'[d].len \in {Unread, header'.len}
      BY <1>1, <1>2, <1>3, <1>7, <1>9, <2>3 DEF Load, ReaderInv, Words
    <2>. QED
      BY <2>1, <2>2, <2>3
  <1>. QED
    BY <1>8, <1>9

(* The registrations that are complete, as the abstract registry has them *)
View == [i \in 1 .. Stored |-> At(header.ptr, i)]

(* A listing that no Add overlaps copies the registrations that are complete. *)
LEMMA CopyReturnsView ==
  ASSUME IInv, ApartInv, NEW c \in Callers, Copy(c)
  PROVE  listing' = [listing EXCEPT ![c] = View] /\ header' = header /\ Adding = {}
  <1>1. /\ pc[c] = "copy" /\ reg[c].ptr # Unread /\ reg[c].len # Unread
        /\ header' = header
        /\ listing' = [listing EXCEPT ![c] = [i \in 1 .. size[c] |->
                            IF i <= reg[c].len THEN At(reg[c].ptr, i) ELSE Nil]]
    BY DEF Copy, CopyUpTo, Return, Goto
  <1>2. TypeOK /\ SoleInv /\ ReaderInv /\ Exclusive
    BY DEF ApartInv, IInv
  <1>3. Adding = {}
    BY <1>1, <1>2, Alone DEF Adding, AddStages
  <1>4. header.len = adds /\ Stored = adds /\ adds \in Nat
    BY <1>2, <1>3, StoreAssumption DEF SoleInv, Stored, TypeOK
  <1>5. size[c] = Stored /\ reg[c].len = Stored /\ reg[c].ptr = header.ptr
    BY <1>1, <1>2, <1>4 DEF ReaderInv
  <1>6. [i \in 1 .. size[c] |-> IF i <= reg[c].len THEN At(reg[c].ptr, i) ELSE Nil] = View
    BY <1>4, <1>5 DEF View
  <1>. QED
    BY <1>1, <1>3, <1>6

(* What holds until calls overlap is inductive, given what holds always. *)
LEMMA FullStep == FullInv /\ [Next]_vars => FullInv'
  <1>1. ASSUME FullInv, Next PROVE FullInv'
    <2>1. PICK c \in Callers : Step(c)
      BY <1>1 DEF Next, Step
    <2>2. IInv'
      BY <1>1, IInvStep DEF FullInv
    <2>3. ASSUME ~overlapped' PROVE ApartInv'
      <3>1. ~overlapped
        BY <2>1, <2>3
        DEF Step, Add, Load, Fits, Grow, StoreCap, StorePtr, StoreLen, StoreWord, StoreItem,
            GetAll, Make, MakeOfSize, Copy, CopyUpTo, Return, history
      <3>2. IInv /\ ApartInv
        BY <1>1, <3>1 DEF FullInv
      <3>3. ~raced' /\ Exclusive'
        BY <2>1, <2>3, <3>2, StillApart DEF IInv, ApartInv
      <3>4. ReaderInv'
        BY <2>1, <3>2, <3>3, ReaderStep
      <3>. QED
        BY <3>3, <3>4 DEF ApartInv
    <2>. QED
      BY <2>2, <2>3 DEF FullInv
  <1>2. ASSUME FullInv, UNCHANGED vars PROVE FullInv'
    <2>1. IInv'
      BY <1>2, Stutter DEF FullInv
    <2>. QED
      BY <1>2, <2>1 DEF FullInv, ApartInv, vars, history, Exclusive, Adding, ReaderInv
  <1>. QED
    BY <1>1, <1>2

(* It holds in every behaviour. *)
LEMMA FullInvariance == Spec => []FullInv
  <1>1. Init => FullInv
    BY InitInv DEF FullInv
  <1>. QED
    BY <1>1, FullStep, PTL DEF Spec

-----------------------------------------------------------------------------
(* The registry *)

(* What the refinement mapping takes for the abstract store is the complete registrations. *)
LEMMA StoreIsView ==
  ASSUME TypeOK, SoleInv
  PROVE  [i \in 1 .. header.len - (IF InStore = {} THEN 0 ELSE 1) |-> At(header.ptr, i)] = View
  <1>1. header.len \in Nat /\ adds \in Nat
    BY StoreAssumption DEF TypeOK, Words
  <1>2. header.len - (IF InStore = {} THEN 0 ELSE 1) = Stored
    <2>1. CASE Adding = {}
      BY <2>1 DEF SoleInv, InStore, Stored, Adding, AddStages
    <2>2. ASSUME NEW c \in Adding
          PROVE  header.len - (IF InStore = {} THEN 0 ELSE 1) = Stored
      <3>1. Adding = {c} /\ AddInv(c)
        BY DEF SoleInv
      <3>2. InStore = IF pc[c] = "storeItem" THEN {c} ELSE {}
        BY <3>1 DEF InStore, Adding, AddStages
      <3>3. header.len = IF pc[c] = "storeItem" THEN adds ELSE adds - 1
        BY <3>1 DEF AddInv
      <3>4. Stored = adds - 1
        BY <3>1 DEF Stored
      <3>. QED
        BY <1>1, <3>2, <3>3, <3>4
    <2>. QED
      BY <2>1, <2>2
  <1>. QED
    BY <1>2 DEF View

(* Only the store of the element changes the complete registrations. *)
LEMMA ViewStays ==
  ASSUME IInv, ApartInv, NEW c \in Callers, Step(c), ~raced', ~StoreItem(c)
  PROVE  View' = View
  <1> USE DEF AddStages, ListStages, Goto
  <1>1. TypeOK /\ LocalInv /\ SoleInv /\ Exclusive
    BY DEF ApartInv, IInv
  <1>2. /\ pc \in [Callers -> {"idle"} \cup AddStages \cup ListStages]
        /\ reg \in [Callers -> [Words -> Nat \cup {Unread}]]
        /\ header \in [Words -> Nat] /\ header.ptr \in 0 .. Len(arrays)
        /\ adds \in Nat
    BY <1>1, StoreAssumption DEF TypeOK, SoleInv
  <1>3. SUFFICES /\ Stored' = Stored
                 /\ \A i \in 1 .. Stored : At(header.ptr, i)' = At(header.ptr, i)
    BY DEF View
  <1>4. ASSUME NEW m \in Manifests, Add(c, m)
        PROVE  /\ Stored' = Stored
               /\ \A i \in 1 .. Stored : At(header.ptr, i)' = At(header.ptr, i)
    <2>1. /\ pc' = [pc EXCEPT ![c] = "append"] /\ adds' = adds + 1
          /\ header' = header /\ arrays' = arrays /\ raced' = (raced \/ Adding # {})
      BY <1>4 DEF Add
    <2>2. c \in Adding'
      BY <1>2, <2>1 DEF Adding
    <2>3. Adding = {}
      BY <2>1
    <2>. QED
      BY <1>2, <2>1, <2>2, <2>3 DEF Stored, At
  <1>5. CASE c \notin Adding /\ \A m \in Manifests : ~Add(c, m)
    <2>1. header' = header /\ arrays' = arrays /\ adds' = adds /\ Adding' = Adding
      BY <1>1, <1>5, SoleReader DEF Adding
    <2>. QED
      BY <2>1 DEF Stored, At
  <1>6. CASE c \in Adding
    <2>1. Adding = {c} /\ AddInv(c)
      BY <1>1, <1>6 DEF SoleInv
    <2>2. Adding' = {c} /\ adds' = adds
      <3>1. /\ pc'[c] \in AddStages /\ adds' = adds
            /\ \A d \in Callers : d # c => pc'[d] = pc[d]
        BY <1>2, <1>6
        DEF Adding, Step, Add, Load, Fits, Grow, StoreCap, StorePtr, StoreLen, StoreWord,
            GetAll, Make, MakeOfSize, Copy, CopyUpTo, Return, history
      <3>. QED
        BY <2>1, <3>1 DEF Adding
    <2>3. Stored = adds - 1 /\ Stored' = adds - 1
      BY <2>1, <2>2 DEF Stored
    <2>4. CASE Grow(c)
      <3>1. \A p \in 0 .. Len(arrays), i \in Int : At(p, i)' = At(p, i)
        BY <1>1, <2>4, GrowArrays
      <3>2. header' = header
        BY <2>4 DEF Grow
      <3>. QED
        BY <1>2, <2>3, <3>1, <3>2
    <2>5. CASE ~Grow(c)
      <3>1. arrays' = arrays
        BY <2>5, ArraysStay
      <3>2. header'.ptr = header.ptr \/ (pc[c] # "append" /\ header'.ptr = reg[c].ptr)
        BY <1>2, <1>6, <2>5
        DEF Step, Add, Load, Fits, StoreCap, StorePtr, StoreLen, StoreWord, Words,
            GetAll, Make, MakeOfSize, Copy, CopyUpTo, Return
      <3>. QED
        BY <2>1, <2>3, <3>1, <3>2 DEF AddInv, At
    <2>. QED
      BY <2>4, <2>5
  <1>. QED
    BY <1>4, <1>5, <1>6

(* Storing the element appends it. *)
LEMMA ViewGrows ==
  ASSUME IInv, ApartInv, NEW c \in Callers, StoreItem(c)
  PROVE  View' = Append(View, item[c])
  <1>1. TypeOK /\ LocalInv /\ SoleInv
    BY DEF ApartInv, IInv
  <1>2. /\ adds \in Nat /\ adds > 0 /\ header.ptr \in Int
        /\ Adding # {}
    <2>1. c \in Adding
      BY DEF StoreItem, Goto, Adding, AddStages
    <2>. QED
      BY <1>1, <2>1, StoreAssumption DEF SoleInv, AddInv, TypeOK
  <1>3. /\ header.ptr = reg[c].ptr /\ header.len = reg[c].len /\ header.len = adds
        /\ header' = header /\ adds' = adds /\ Adding' = {}
        /\ At(header.ptr, header.len)' = item[c]
    BY <1>1, ItemKept
  <1>4. Stored = adds - 1 /\ Stored' = adds
    BY <1>2, <1>3 DEF Stored
  <1>5. \A i \in 1 .. adds - 1 : At(header.ptr, i)' = At(header.ptr, i)
    <2>1. \A p \in Int, i \in Int : i # reg[c].len => At(p, i)' = At(p, i)
      BY <1>1, StoreItemArrays
    <2>. QED
      BY <1>2, <1>3, <2>1
  <1>6. \A i \in 1 .. adds :
            At(header.ptr, i)' = IF i = adds THEN item[c] ELSE At(header.ptr, i)
    BY <1>2, <1>3, <1>5
  <1>7. View' = [i \in 1 .. adds |-> IF i = adds THEN item[c] ELSE At(header.ptr, i)]
    BY <1>4, <1>6 DEF View
  <1> DEFINE old == [i \in 1 .. adds - 1 |-> At(header.ptr, i)]
  <1>8. View = old
    BY <1>4 DEF View
  <1>9. old \in Seq(Slots) /\ Len(old) = adds - 1
    <2>1. \A i \in 1 .. adds - 1 : At(header.ptr, i) \in Slots
      BY <1>1, <1>2, AtSlots
    <2>2. old \in Seq(Slots)
      BY <1>2, <2>1
    <2>. QED
      BY <1>2, <2>2
  <1>10. Append(old, item[c]) = [i \in 1 .. adds |-> IF i = adds THEN item[c] ELSE old[i]]
    BY <1>2, <1>9
  <1>. QED
    BY <1>2, <1>7, <1>8, <1>10

(***************************************************************************)
(* The slice implements the registry of ancla.Service until an Add over-   *)
(* laps another call, which nothing in the code prevents: till then an Add *)
(* takes effect when it stores the element, a GetAll when it copies, and   *)
(* no other step is seen.                                                  *)
(***************************************************************************)
THEOREM Implements == Spec => ImplementsRegistry
  <1> DEFINE store == [i \in 1 .. header.len - (IF InStore = {} THEN 0 ELSE 1) |->
                            At(header.ptr, i)]
             avars == <<store, listing>>
  <1>1. TypeOK /\ SoleInv => store = View
    BY StoreIsView
  <1>2. (TypeOK /\ SoleInv => store = View)'
    BY <1>1, PTL
  <1>3. Init => Registry!Init
    <2> SUFFICES ASSUME Init PROVE Registry!Init
      OBVIOUS
    <2>1. TypeOK /\ SoleInv /\ Adding = {}
      BY InitInv DEF ApartInv, IInv, Init, Adding, AddStages
    <2>2. store = View
      BY <2>1, StoreIsView
    <2>3. Stored = 0
      BY <2>1 DEF Stored, Init
    <2>4. View = <<>>
      BY <2>3 DEF View
    <2>. QED
      BY <2>2, <2>4 DEF Registry!Init, Init
  <1>4. FullInv /\ FullInv' /\ [Next]_vars
        => [~overlapped' => Registry!Next \/ UNCHANGED Registry!vars]_vars
    <2> SUFFICES ASSUME FullInv, FullInv', Next, ~overlapped'
                 PROVE  Registry!Next \/ UNCHANGED avars
      BY DEF Registry!vars
    <2>1. PICK c \in Callers : Step(c)
      BY DEF Next, Step
    <2>2. ~overlapped
      BY <2>1
      DEF Step, Add, Load, Fits, Grow, StoreCap, StorePtr, StoreLen, StoreWord, StoreItem,
          GetAll, Make, MakeOfSize, Copy, CopyUpTo, Return, history
    <2>3. IInv /\ ApartInv /\ TypeOK /\ SoleInv
      BY <2>2 DEF FullInv, ApartInv, IInv
    <2>4. store = View
      BY <2>3, StoreIsView
    <2>5. TypeOK' /\ SoleInv' /\ ~raced'
      BY DEF FullInv, ApartInv, IInv
    <2>6. store' = View'
      BY <1>2, <2>5
    <2> HIDE DEF store
    <2>7. CASE StoreItem(c)
      <3>1. listing' = listing /\ item[c] \in Manifests
        BY <2>3, <2>7, StoreItemArrays DEF StoreItem, IInv
      <3>2. store' = Append(store, item[c])
        BY <2>3, <2>4, <2>6, <2>7, ViewGrows
      <3>3. Registry!Add(item[c])
        BY <3>1, <3>2 DEF Registry!Add, store
      <3>. QED
        BY <3>1, <3>3 DEF Registry!Next
    <2>8. CASE ~StoreItem(c)
      <3>1. store' = store
        BY <2>1, <2>3, <2>4, <2>5, <2>6, <2>8, ViewStays
      <3>2. CASE Copy(c)
        <4>1. listing' = [listing EXCEPT ![c] = store]
          BY <2>3, <2>4, <3>2, CopyReturnsView
        <4>2. Registry!GetAll(c)
          BY <3>1, <4>1 DEF Registry!GetAll, store
        <4>. QED
          BY <4>2 DEF Registry!Next
      <3>3. CASE ~Copy(c)
        <4>1. listing' = listing
          BY <2>1, <2>8, <3>3
          DEF Step, Add, Load, Fits, Grow, StoreCap, StorePtr, StoreLen, StoreWord,
              GetAll, Make, MakeOfSize, history
        <4>. QED
          BY <3>1, <4>1
      <3>. QED
        BY <3>2, <3>3
    <2>. QED
      BY <2>7, <2>8
  <1>. QED
    BY <1>3, <1>4, FullInvariance, PTL DEF Spec, ImplementsRegistry

=============================================================================
