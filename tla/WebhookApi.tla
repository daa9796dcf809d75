------------------------------- MODULE WebhookApi -------------------------------
(***************************************************************************)
(* POST /hook and GET /hooks over the webhook service: version 2 requests  *)
(* pass fixV2Duration, every request passes ancla's validators (external), *)
(* and what is left is added to the in-memory registry.  Here the registry *)
(* is WebhookRegistry, one step per call; WebhookStore shows when the      *)
(* program's service is that.  Time is explicit, for Duration and Until.   *)
(***************************************************************************)
EXTENDS Integers, Sequences

CONSTANTS
    Callers,   \* handlers at work at the same time
    Max,       \* validation.ttl.max
    Jitter,    \* validation.ttl.jitter
    Durations, \* the values of Duration a client sends; 0 when it sends none
    Untils,    \* the values of Until a client sends
    NoTime,    \* the zero time: no Until
    Horizon,   \* bound: the clock stops here
    MaxHooks   \* bound: no new registration is sent when as many are stored

(* fixV2Duration is not built with a negative maximum or jitter. *)
ASSUME TTLAssumption ==
    /\ Max \in Nat /\ Jitter \in Nat /\ Horizon \in Nat /\ MaxHooks \in Nat
    /\ Durations \subseteq Nat /\ Untils \subseteq Int
    /\ NoTime \notin Int

VARIABLES
    now,     \* time.Now()
    store,   \* the registry
    listing, \* what each caller's last GetAll returned
    pc,      \* where each handler is
    hook     \* the registration each handler works on

vars == <<now, store, listing, pc, hook>>

Hook(version, until, duration) ==
    [version |-> version, until |-> until, duration |-> duration, added |-> 0, warned |-> FALSE]

NoHook == Hook("v3", NoTime, 0)

Sent == {Hook(v, u, d) : v \in {"v2", "v3"}, u \in Untils \cup {NoTime}, d \in Durations}

Registry == INSTANCE WebhookRegistry WITH Manifests <- Sent

Init ==
    /\ Registry!Init
    /\ now = 0
    /\ pc = [c \in Callers |-> "idle"]
    /\ hook = [c \in Callers |-> NoHook]

-----------------------------------------------------------------------------

(* External: webhook.RegistrationV1's ValidateDuration and CheckUntil *)
DurationValid(h) == h.duration <= Max
UntilValid(h) == h.until <= now + Max + Jitter

(* Mutants: the until is kept; the maximum is written to the until. *)
DefaultedKeepingUntil(h) == [h EXCEPT !.duration = Max, !.warned = TRUE]
DefaultedUntil(h) == [h EXCEPT !.until = now + Max, !.duration = Max, !.warned = TRUE]

(* A registration without a usable duration or until gets the configured maximum. *)
Defaulted(h) == [h EXCEPT !.until = NoTime, !.duration = Max, !.warned = TRUE]

(* With an Until, the Duration is not looked at. *)
Fixed(h) ==
    IF \/ h.until = NoTime /\ (h.duration = 0 \/ ~DurationValid(h))
       \/ h.until # NoTime /\ ~UntilValid(h)
    THEN Defaulted(h)
    ELSE h

Goto(c, from, to) ==
    /\ pc[c] = from
    /\ pc' = [pc EXCEPT ![c] = to]

Post(c) ==
    /\ Len(store) < MaxHooks
    /\ Goto(c, "idle", "fix")
    /\ \E h \in Sent : hook' = [hook EXCEPT ![c] = h]
    /\ UNCHANGED <<now, store, listing>>

(* Version 2 is rewritten and goes to the version 2 handler, version 3 passes unchanged. *)
fixV2Duration(c) ==
    /\ Goto(c, "fix", "validate")
    /\ hook' = [hook EXCEPT ![c] = IF @.version = "v2" THEN Fixed(@) ELSE @]
    /\ UNCHANGED <<now, store, listing>>

(* External: the validators' rules about Until and Duration, with their own clock reading *)
Valid(h) ==
    /\ h.until # NoTime \/ h.duration # 0
    /\ DurationValid(h)
    /\ h.until # NoTime => UntilValid(h)

(* Mutant: the handler is built without validators. *)
AcceptUnvalidated(c) ==
    /\ Goto(c, "validate", "add")
    /\ UNCHANGED <<now, store, listing, hook>>

Accept(c) ==
    /\ Valid(hook[c])
    /\ Goto(c, "validate", "add")
    /\ UNCHANGED <<now, store, listing, hook>>

(***************************************************************************)
(* Unreadable or undecodable body (v2ErrEncode), or refused by a validator.*)
(* After a failed re-marshal the middleware does not return: the handler   *)
(* then gets an empty body, and refuses it.                                *)
(***************************************************************************)
Refuse(c) ==
    /\ \/ Goto(c, "fix", "idle")
       \/ ~Valid(hook[c]) /\ Goto(c, "validate", "idle")
    /\ hook' = [hook EXCEPT ![c] = NoHook]
    /\ UNCHANGED <<now, store, listing>>

(* The service appends the registration, and nothing removes it later. *)
Add(c) ==
    /\ Goto(c, "add", "idle")
    /\ LET h == [hook[c] EXCEPT !.added = now]
       IN  Registry!Add(h)
    /\ hook' = [hook EXCEPT ![c] = NoHook]
    /\ UNCHANGED now

GetAll(c) ==
    /\ pc[c] = "idle"
    /\ Registry!GetAll(c)
    /\ UNCHANGED <<now, pc, hook>>

(* The process stops and starts again: the registry was in its memory. *)
Restart ==
    /\ store' = <<>>
    /\ listing' = [c \in Callers |-> <<>>]
    /\ pc' = [c \in Callers |-> "idle"]
    /\ hook' = [c \in Callers |-> NoHook]
    /\ UNCHANGED <<now>>

Tick ==
    /\ now < Horizon
    /\ now' = now + 1
    /\ UNCHANGED <<store, listing, pc, hook>>

Next ==
    \/ \E c \in Callers :
        \/ Post(c)
        \/ fixV2Duration(c)
        \/ Accept(c)
        \/ Refuse(c)
        \/ Add(c)
        \/ GetAll(c)
    \/ Restart
    \/ Tick

Spec == Init /\ [][Next]_vars

-----------------------------------------------------------------------------

Hooks ==
    [version : {"v2", "v3"}, until : Untils \cup {NoTime}, duration : Durations \cup {0, Max},
     added : 0 .. Horizon, warned : BOOLEAN]

TypeOK ==
    /\ now \in 0 .. Horizon
    /\ store \in Seq(Hooks)
    /\ listing \in [Callers -> Seq(Hooks)]
    /\ pc \in [Callers -> {"idle", "fix", "validate", "add"}]
    /\ hook \in [Callers -> Hooks]

(* The end of a registration as it is recorded *)
Ends(h) == IF h.until = NoTime THEN h.added + h.duration ELSE h.until

(***************************************************************************)
(* The end that is recorded in a registration is within the configured     *)
(* maximum (and jitter) of the moment it was added, whichever version and  *)
(* whatever time passes between the middleware's clock reading, the        *)
(* validators' and the Add.  It is a promise about the record only: nothing*)
(* removes a registration at its end, and GetAll still lists it.           *)
(***************************************************************************)
RecordedEndWithinMax ==
    \A i \in DOMAIN store : Ends(store[i]) <= store[i].added + Max + Jitter

(***************************************************************************)
(* "allow for invalid duration or until fields": a version 2 request is not*)
(* refused for its Duration alone or its Until alone; the middleware and   *)
(* the validators read the clock at different moments and still agree.     *)
(***************************************************************************)
V2TimesAccepted ==
    \A c \in Callers :
        pc[c] = "validate" /\ hook[c].version = "v2" /\ Max > 0 =>
            Valid(hook[c]) \/ (hook[c].until # NoTime /\ hook[c].duration > Max)

(***************************************************************************)
(* "When they are invalid, the duration of the webhook is set to the       *)
(* configured maximum": after the middleware no version 2 request has a    *)
(* duration above it.                                                      *)
(***************************************************************************)
V2DurationFixed ==
    \A c \in Callers : pc[c] = "validate" /\ hook[c].version = "v2" => DurationValid(hook[c])

=============================================================================
