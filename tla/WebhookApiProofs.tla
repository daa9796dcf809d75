---------------------------- MODULE WebhookApiProofs ----------------------------
(***************************************************************************)
(* Theorems about WebhookApi, for any number of handlers, any maximum and  *)
(* jitter, and any durations and untils that clients send.                 *)
(***************************************************************************)
EXTENDS WebhookApi, TLAPS

(* A registration on its way to the registry keeps to the maximum, as the time is now. *)
AcceptedInv ==
    \A c \in Callers : pc[c] = "add" =>
        /\ hook[c].duration <= Max
        /\ hook[c].until # NoTime => hook[c].until <= now + Max + Jitter

IInv == TypeOK /\ AcceptedInv /\ RecordedEndWithinMax /\ V2TimesAccepted

-----------------------------------------------------------------------------

(* What a registration consists of. *)
LEMMA HookFields ==
  ASSUME NEW h \in Hooks
  PROVE  /\ h.duration \in Nat
         /\ h.until # NoTime => h.until \in Int
         /\ h.added \in Nat
  <1>1. /\ h.until \in Untils \cup {NoTime}
        /\ h.duration \in Durations \cup {0, Max}
        /\ h.added \in 0 .. Horizon
    BY DEF Hooks
  <1>2. h.duration \in Nat
    <2>1. Durations \cup {0, Max} \subseteq Nat
      BY TTLAssumption
    <2>. QED
      BY <1>1, <2>1, Zenon
  <1>3. h.until # NoTime => h.until \in Int
    BY <1>1, TTLAssumption
  <1>4. h.added \in Nat
    BY <1>1, TTLAssumption
  <1>. QED
    BY <1>2, <1>3, <1>4

(* What a client sends is a registration. *)
LEMMA SentHooks == Sent \subseteq Hooks /\ NoHook \in Hooks
  <1>1. 0 \in 0 .. Horizon
    BY TTLAssumption
  <1>2. NoHook \in Hooks
    BY <1>1 DEF Hooks, Hook, NoHook
  <1>3. ASSUME NEW v \in {"v2", "v3"}, NEW u \in Untils \cup {NoTime}, NEW d \in Durations
        PROVE  Hook(v, u, d) \in Hooks
    BY <1>1 DEF Hooks, Hook
  <1>. QED
    BY <1>2, <1>3 DEF Sent

(* The middleware changes neither the version nor the kind of what it is given. *)
LEMMA FixedHooks == ASSUME NEW h \in Hooks PROVE Fixed(h) \in Hooks /\ Fixed(h).version = h.version
  BY DEF Fixed, Defaulted, Hooks

(* In the initial state the registry is empty and no handler is at work. *)
LEMMA InitInv == Init => IInv
  <1> SUFFICES ASSUME Init PROVE IInv
    OBVIOUS
  <1>1. TypeOK
    BY SentHooks, TTLAssumption DEF Init, Registry!Init, TypeOK
  <1>2. AcceptedInv /\ RecordedEndWithinMax /\ V2TimesAccepted
    BY DEF Init, Registry!Init, AcceptedInv, RecordedEndWithinMax, V2TimesAccepted
  <1>. QED
    BY <1>1, <1>2 DEF IInv

(* A request arrives: the others are untouched. *)
LEMMA PostStep == ASSUME IInv, NEW c \in Callers, Post(c) PROVE IInv'
  <1> USE DEF IInv, Post, Goto
  <1>1. PICK h \in Sent : hook' = [hook EXCEPT ![c] = h]
    OBVIOUS
  <1>2. TypeOK'
    BY <1>1, SentHooks DEF TypeOK
  <1>3. AcceptedInv' /\ V2TimesAccepted'
    BY <1>1 DEF TypeOK, AcceptedInv, V2TimesAccepted, Valid, DurationValid, UntilValid
  <1>4. RecordedEndWithinMax'
    BY DEF RecordedEndWithinMax, Ends
  <1>. QED
    BY <1>2, <1>3, <1>4

(***************************************************************************)
(* What the middleware makes of a request the validators accept now, unless*)
(* an until hides a duration that is too long.                             *)
(***************************************************************************)
LEMMA FixedIsValid ==
  ASSUME TypeOK, NEW h \in Hooks, Max > 0
  PROVE  Valid(Fixed(h)) \/ (Fixed(h).until # NoTime /\ Fixed(h).duration > Max)
  <1>1. h.duration \in Nat /\ Max \in Nat
    BY HookFields, TTLAssumption
  <1>2. CASE \/ h.until = NoTime /\ (h.duration = 0 \/ ~DurationValid(h))
             \/ h.until # NoTime /\ ~UntilValid(h)
    <2>1. Fixed(h) = Defaulted(h)
      BY <1>2 DEF Fixed
    <2>2. Fixed(h).until = NoTime /\ Fixed(h).duration = Max
      BY <2>1 DEF Defaulted, Hooks
    <2>. QED
      BY <2>2, <1>1 DEF Valid, DurationValid
  <1>3. CASE ~(\/ h.until = NoTime /\ (h.duration = 0 \/ ~DurationValid(h))
               \/ h.until # NoTime /\ ~UntilValid(h))
    <2>1. Fixed(h) = h
      BY <1>3 DEF Fixed
    <2>. QED
      BY <2>1, <1>3, <1>1 DEF Valid, DurationValid
  <1>. QED
    BY <1>2, <1>3

(* The validators will accept what the middleware leaves. *)
LEMMA FixStep == ASSUME IInv, NEW c \in Callers, fixV2Duration(c) PROVE IInv'
  <1> USE DEF IInv, fixV2Duration, Goto
  <1>1. hook[c] \in Hooks
    BY DEF TypeOK
  <1>2. hook' = [hook EXCEPT ![c] = IF hook[c].version = "v2" THEN Fixed(hook[c]) ELSE hook[c]]
    OBVIOUS
  <1>3. TypeOK'
    BY <1>1, <1>2, FixedHooks DEF TypeOK
  <1>4. AcceptedInv'
    BY <1>2 DEF TypeOK, AcceptedInv
  <1>5. RecordedEndWithinMax'
    BY DEF RecordedEndWithinMax, Ends
  <1>6. V2TimesAccepted'
    <2> SUFFICES ASSUME NEW d \in Callers, pc'[d] = "validate", hook'[d].version = "v2", Max > 0
                 PROVE  (Valid(hook[d]) \/ (hook[d].until # NoTime /\ hook[d].duration > Max))'
      BY DEF V2TimesAccepted
    <2>1. now' = now
      OBVIOUS
    <2>2. CASE d = c
      <3>1. hook'[d] = Fixed(hook[c])
        BY <1>1, <1>2, <2>2, FixedHooks DEF TypeOK
      <3>. QED
        BY <1>1, <2>1, <3>1, FixedIsValid DEF Valid, DurationValid, UntilValid
    <2>3. CASE d # c
      <3>1. hook'[d] = hook[d] /\ pc[d] = "validate"
        BY <1>2, <2>3 DEF TypeOK
      <3>. QED
        BY <2>1, <3>1 DEF V2TimesAccepted, Valid, DurationValid, UntilValid
    <2>. QED
      BY <2>2, <2>3
  <1>. QED
    BY <1>3, <1>4, <1>5, <1>6

(* What the validators accept keeps to the maximum. *)
LEMMA AcceptStep == ASSUME IInv, NEW c \in Callers, Accept(c) PROVE IInv'
  <1> USE DEF IInv, Accept, Goto
  <1>1. TypeOK'
    BY DEF TypeOK
  <1>2. AcceptedInv'
    BY DEF TypeOK, AcceptedInv, Valid, DurationValid, UntilValid
  <1>3. RecordedEndWithinMax' /\ V2TimesAccepted'
    BY DEF TypeOK, RecordedEndWithinMax, Ends, V2TimesAccepted, Valid, DurationValid, UntilValid
  <1>. QED
    BY <1>1, <1>2, <1>3

(* A refused request leaves nothing behind. *)
LEMMA RefuseStep == ASSUME IInv, NEW c \in Callers, Refuse(c) PROVE IInv'
  <1> USE DEF IInv, Refuse, Goto
  <1>1. TypeOK'
    BY SentHooks DEF TypeOK
  <1>2. AcceptedInv' /\ V2TimesAccepted'
    BY DEF TypeOK, AcceptedInv, V2TimesAccepted, Valid, DurationValid, UntilValid
  <1>3. RecordedEndWithinMax'
    BY DEF RecordedEndWithinMax, Ends
  <1>. QED
    BY <1>1, <1>2, <1>3

(* The registration that is added counts from now, and the older ones are not changed. *)
LEMMA AddStep == ASSUME IInv, NEW c \in Callers, Add(c) PROVE IInv'
  <1> USE DEF IInv, Add, Goto
  <1> DEFINE h == [hook[c] EXCEPT !.added = now]
  <1>1. store' = Append(store, h) /\ listing' = listing
    BY DEF Registry!Add
  <1>2. hook[c] \in Hooks /\ now \in 0 .. Horizon
    BY DEF TypeOK
  <1>3. /\ h \in Hooks
        /\ h.added = now
        /\ h.until = hook[c].until
        /\ h.duration = hook[c].duration
    BY <1>2 DEF Hooks
  <1>4. TypeOK'
    BY <1>1, <1>3, SentHooks DEF TypeOK
  <1>5. AcceptedInv' /\ V2TimesAccepted'
    BY DEF TypeOK, AcceptedInv, V2TimesAccepted, Valid, DurationValid, UntilValid
  <1>6. RecordedEndWithinMax'
    <2>1. Ends(h) <= h.added + Max + Jitter
      BY <1>2, <1>3, HookFields, TTLAssumption DEF AcceptedInv, Ends
    <2>2. store \in Seq(Hooks)
      BY DEF TypeOK
    <2>3. \A i \in DOMAIN store' :
              store'[i] = h \/ (i \in DOMAIN store /\ store'[i] = store[i])
      BY <1>1, <1>3, <2>2
    <2>. QED
      BY <2>1, <2>3 DEF RecordedEndWithinMax, Ends
  <1>. QED
    BY <1>4, <1>5, <1>6

(* Listing changes nothing but the listing. *)
LEMMA GetAllStep == ASSUME IInv, NEW c \in Callers, GetAll(c) PROVE IInv'
  BY DEF IInv, GetAll, Registry!GetAll, TypeOK, AcceptedInv, RecordedEndWithinMax, Ends,
     V2TimesAccepted, Valid, DurationValid, UntilValid

(* After a restart the registry is empty. *)
LEMMA RestartStep == ASSUME IInv, Restart PROVE IInv'
  <1>1. TypeOK'
    BY SentHooks DEF IInv, Restart, TypeOK
  <1>2. AcceptedInv' /\ RecordedEndWithinMax' /\ V2TimesAccepted'
    BY DEF Restart, AcceptedInv, RecordedEndWithinMax, V2TimesAccepted
  <1>. QED
    BY <1>1, <1>2 DEF IInv

(* An until that was near enough only gets nearer. *)
LEMMA TickStep == ASSUME IInv, Tick PROVE IInv'
  <1> USE DEF IInv, Tick
  <1>1. TypeOK'
    BY TTLAssumption DEF TypeOK
  <1>2. now \in Nat /\ \A c \in Callers : hook[c].until # NoTime => hook[c].until \in Int
    BY HookFields DEF TypeOK
  <1>3. AcceptedInv'
    BY <1>2, TTLAssumption DEF AcceptedInv
  <1>4. RecordedEndWithinMax'
    BY DEF RecordedEndWithinMax, Ends
  <1>5. \A c \in Callers : Valid(hook[c]) => Valid(hook[c])'
    BY <1>2, TTLAssumption DEF Valid, DurationValid, UntilValid
  <1>6. V2TimesAccepted'
    BY <1>5 DEF V2TimesAccepted
  <1>. QED
    BY <1>1, <1>3, <1>4, <1>6

(* Every step keeps the inductive invariant. *)
LEMMA NextInv == IInv /\ [Next]_vars => IInv'
  <1> SUFFICES ASSUME IInv, [Next]_vars PROVE IInv'
    OBVIOUS
  <1>1. CASE UNCHANGED vars
    BY <1>1 DEF vars, IInv, TypeOK, AcceptedInv, RecordedEndWithinMax, Ends, V2TimesAccepted, Valid,
       DurationValid, UntilValid
  <1>. QED
    BY <1>1, PostStep, FixStep, AcceptStep, RefuseStep, AddStep, GetAllStep, RestartStep, TickStep
    DEF Next

(* The invariant holds in every reachable state. *)
LEMMA Inductive == Spec => []IInv
  BY InitInv, NextInv, PTL DEF Spec

-----------------------------------------------------------------------------

(* The registry, the listings and the handlers' registrations keep their types: TypeOK. *)
THEOREM TypeCorrect == Spec => []TypeOK
  <1>1. IInv => TypeOK
    BY DEF IInv
  <1>. QED
    BY <1>1, Inductive, PTL

(***************************************************************************)
(* No registration is stored with an end beyond the configured maximum,    *)
(* whatever time passes between the middleware, the validators and Add:    *)
(* RecordedEndWithinMax.                                                   *)
(***************************************************************************)
THEOREM EndsInTime == Spec => []RecordedEndWithinMax
  <1>1. IInv => RecordedEndWithinMax
    BY DEF IInv
  <1>. QED
    BY <1>1, Inductive, PTL

(***************************************************************************)
(* The middleware's repair of a version 2 request is still good when the   *)
(* validators look at it, however much later that is: V2TimesAccepted.     *)
(***************************************************************************)
THEOREM RepairLasts == Spec => []V2TimesAccepted
  <1>1. IInv => V2TimesAccepted
    BY DEF IInv
  <1>. QED
    BY <1>1, Inductive, PTL

=============================================================================
