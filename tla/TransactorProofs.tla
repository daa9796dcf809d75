---------------------------- MODULE TransactorProofs ----------------------------
(***************************************************************************)
(* Theorems about Transactor, for any timeouts, number of retries and set  *)
(* of status codes.                                                        *)
(***************************************************************************)
EXTENDS Transactor, FiniteSetTheorems, TLAPS

(* How long the sleeps after n attempts can take, all of them together *)
Slept(n) == n * Interval

(* The context is done RequestTimeout after the call began, or sooner. *)
DeadlineInv == pc # "idle" => started <= now /\ deadline <= started + RequestTimeout

(* Which attempt is under way; a sleep follows every attempt but the last. *)
AttemptInv ==
    /\ pc \in {"do", "body"} => 1 <= attempt
    /\ pc = "sleep" => 1 <= attempt /\ attempt <= Retries

(* Every attempt and every sleep ends in time, counted from the start of the call. *)
TimeInv ==
    /\ pc \in {"do", "body"} =>
        now <= due /\ due <= started + RequestTimeout + Slept(attempt - 1)
    /\ pc = "sleep" => now <= due /\ due <= started + RequestTimeout + Slept(attempt)
    /\ pc = "returned" => now <= started + RequestTimeout + Slept(Retries)

(* An attempt whose headers arrived has been answered; nothing is returned before the end. *)
ReplyInv ==
    /\ pc = "body" => reply[attempt] # NoCode
    /\ pc # "returned" => result = NoResult

IInv == TypeOK /\ DeadlineInv /\ AttemptInv /\ TimeInv /\ ReplyInv

-----------------------------------------------------------------------------

(* The time slept grows by one Interval per attempt, and no more than Retries count. *)
LEMMA SleptFacts ==
  /\ Slept(0) = 0
  /\ \A n \in Nat : Slept(n) \in Nat
  /\ \A n \in Nat : Slept(n + 1) = Slept(n) + Interval
  /\ \A n \in Nat : n <= Retries => Slept(n) <= Slept(Retries)
  <1>1. Slept(0) = 0 /\ \A n \in Nat : Slept(n) \in Nat /\ Slept(n + 1) = Slept(n) + Interval
    BY TransactorAssumption DEF Slept
  <1>2. ASSUME NEW n \in Nat, n <= Retries PROVE Slept(n) <= Slept(Retries)
    <2>1. PICK k \in Nat : Retries = n + k
      BY <1>2, TransactorAssumption
    <2>2. Retries * Interval = n * Interval + k * Interval /\ k * Interval \in Nat
      BY <2>1, TransactorAssumption
    <2>. QED
      BY <2>2, TransactorAssumption DEF Slept
  <1>. QED
    BY <1>1, <1>2

(* Before the call nothing was sent and nothing returned. *)
LEMMA InitInv == Init => IInv
  BY TransactorAssumption
  DEF Init, IInv, TypeOK, DeadlineInv, AttemptInv, TimeInv, ReplyInv, Attempts, NoResult, Result

(* The first attempt ends with the context or with the client's own timeout. *)
LEMMA BeginStep == ASSUME IInv, Transact PROVE IInv'
  <1> USE TransactorAssumption DEF IInv, Transact
  <1>1. PICK left \in BOOLEAN :
          /\ deadline' = IF left THEN now ELSE now + RequestTimeout
          /\ due' = IF left THEN now ELSE now + Earlier(RequestTimeout, ClientTimeout)
          /\ sent' = IF left THEN {} ELSE {1}
    OBVIOUS
  <1>2. /\ Earlier(RequestTimeout, ClientTimeout) \in Nat
        /\ Earlier(RequestTimeout, ClientTimeout) <= RequestTimeout
    BY DEF Earlier
  <1>3. TypeOK'
    BY <1>1, <1>2 DEF TypeOK, Attempts
  <1>4. DeadlineInv' /\ AttemptInv' /\ ReplyInv'
    BY <1>1 DEF TypeOK, DeadlineInv, AttemptInv, ReplyInv
  <1>5. TimeInv'
    BY <1>1, <1>2, SleptFacts DEF TypeOK, TimeInv
  <1>. QED
    BY <1>3, <1>4, <1>5

(* XMiDT's action changes nothing that the call has looked at. *)
LEMMA HandleStep == ASSUME IInv, NEW a \in Attempts, Handle(a) PROVE IInv'
  BY DEF IInv, Handle, TypeOK, DeadlineInv, AttemptInv, TimeInv, ReplyInv, Attempts

(* A sleep begins no later than its attempt ends. *)
LEMMA BackoffStep == ASSUME IInv, Backoff PROVE IInv'
  <1> USE TransactorAssumption DEF IInv, Backoff
  <1>1. TypeOK' /\ DeadlineInv' /\ AttemptInv' /\ ReplyInv'
    BY DEF TypeOK, DeadlineInv, AttemptInv, ReplyInv
  <1>2. attempt - 1 \in Nat /\ attempt = (attempt - 1) + 1
    BY DEF TypeOK, AttemptInv
  <1>3. Slept(attempt) = Slept(attempt - 1) + Interval /\ Slept(attempt - 1) \in Nat
    BY <1>2, SleptFacts
  <1>4. TimeInv'
    BY <1>3 DEF TypeOK, DeadlineInv, TimeInv
  <1>. QED
    BY <1>1, <1>4

(* A later attempt ends with the context, at once when that is done already. *)
LEMMA AgainStep == ASSUME IInv, Again PROVE IInv'
  <1> USE TransactorAssumption DEF IInv, Again
  <1>1. /\ attempt \in Nat
        /\ attempt + 1 \in Attempts
        /\ (attempt + 1) - 1 = attempt
    BY DEF TypeOK, AttemptInv, Attempts
  <1>2. now < deadline =>
          /\ Earlier(deadline, now + ClientTimeout) \in Nat
          /\ now <= Earlier(deadline, now + ClientTimeout)
          /\ Earlier(deadline, now + ClientTimeout) <= deadline
    BY DEF Earlier, TypeOK
  <1>3. TypeOK'
    BY <1>1, <1>2 DEF TypeOK, Attempts
  <1>4. DeadlineInv' /\ AttemptInv' /\ ReplyInv'
    BY DEF TypeOK, DeadlineInv, AttemptInv, ReplyInv
  <1>5. Slept(attempt) \in Nat
    BY <1>1, SleptFacts
  <1>6. TimeInv'
    BY <1>1, <1>2, <1>5 DEF TypeOK, DeadlineInv, TimeInv
  <1>. QED
    BY <1>3, <1>4, <1>6

(* The headers of the attempt under way arrive. *)
LEMMA HeadersStep == ASSUME IInv, Headers PROVE IInv'
  BY DEF IInv, Headers, TypeOK, DeadlineInv, AttemptInv, TimeInv, ReplyInv

(* The call returns while an attempt is under way, hence in time. *)
LEMMA ReturnStep ==
  ASSUME IInv, pc \in {"do", "body"},
         NEW kind \in {"response", "unavailable", "unread"}, NEW code \in Codes \cup {NoCode},
         Return(Result(kind, code))
  PROVE  IInv'
  <1> USE TransactorAssumption DEF IInv, Return
  <1>1. TypeOK'
    BY DEF TypeOK, Result
  <1>2. DeadlineInv' /\ AttemptInv' /\ ReplyInv'
    BY DEF TypeOK, DeadlineInv, AttemptInv, ReplyInv
  <1>3. attempt - 1 \in Nat /\ attempt - 1 <= Retries
    BY DEF TypeOK, AttemptInv
  <1>4. Slept(attempt - 1) <= Slept(Retries) /\ Slept(attempt - 1) \in Nat /\ Slept(Retries) \in Nat
    BY <1>3, SleptFacts
  <1>5. TimeInv'
    BY <1>4 DEF TypeOK, DeadlineInv, TimeInv
  <1>. QED
    BY <1>1, <1>2, <1>5

(* The inbound client leaves: the attempt ends at once, a sleep does not. *)
LEMMA DisconnectStep == ASSUME IInv, Disconnect PROVE IInv'
  <1> USE TransactorAssumption DEF IInv, Disconnect
  <1>1. TypeOK' /\ DeadlineInv' /\ AttemptInv' /\ ReplyInv'
    BY DEF TypeOK, DeadlineInv, AttemptInv, ReplyInv
  <1>2. pc \in {"do", "body"} => Slept(attempt - 1) \in Nat
    BY SleptFacts DEF TypeOK, AttemptInv
  <1>3. TimeInv'
    BY <1>2 DEF TypeOK, DeadlineInv, TimeInv
  <1>. QED
    BY <1>1, <1>3

(* Time does not pass the end of an attempt or of a sleep. *)
LEMMA TickStep == ASSUME IInv, Tick PROVE IInv'
  <1> USE TransactorAssumption DEF IInv, Tick
  <1>1. TypeOK' /\ DeadlineInv' /\ AttemptInv' /\ ReplyInv'
    BY DEF TypeOK, DeadlineInv, AttemptInv, ReplyInv
  <1>2. TimeInv'
    BY DEF TypeOK, TimeInv
  <1>. QED
    BY <1>1, <1>2

(* Every step keeps the inductive invariant. *)
LEMMA NextInv == IInv /\ [Next]_vars => IInv'
  <1> SUFFICES ASSUME IInv, [Next]_vars PROVE IInv'
    OBVIOUS
  <1>1. CASE Transact
    BY <1>1, BeginStep
  <1>2. ASSUME NEW a \in Attempts, Handle(a) PROVE IInv'
    BY <1>2, HandleStep
  <1>3. ASSUME AttemptFails \/ AttemptTimesOut PROVE IInv'
    BY <1>3, BackoffStep, ReturnStep DEF AttemptFails, AttemptTimesOut, GiveUp
  <1>4. CASE Again
    BY <1>4, AgainStep
  <1>5. CASE Headers
    BY <1>5, HeadersStep
  <1>6. CASE ReadBody
    <2>1. reply[attempt] \in Codes \cup {NoCode}
      BY <1>6 DEF ReadBody, IInv, TypeOK, AttemptInv, Attempts
    <2>. QED
      BY <1>6, <2>1, ReturnStep DEF ReadBody
  <1>7. ASSUME BodyFails \/ BodyTimesOut PROVE IInv'
    BY <1>7, ReturnStep DEF BodyFails, BodyTimesOut
  <1>8. CASE Disconnect
    BY <1>8, DisconnectStep
  <1>9. CASE Tick
    BY <1>9, TickStep
  <1>10. CASE UNCHANGED vars
    BY <1>10 DEF vars, IInv, TypeOK, DeadlineInv, AttemptInv, TimeInv, ReplyInv
  <1>. QED
    BY <1>1, <1>2, <1>3, <1>4, <1>5, <1>6, <1>7, <1>8, <1>9, <1>10 DEF Next, Rest

(* The invariant holds in every reachable state. *)
LEMMA Inductive == Spec => []IInv
  BY InitInv, NextInv, PTL DEF Spec

-----------------------------------------------------------------------------

(* The variables of a call keep their types: TypeOK. *)
THEOREM TypeCorrect == Spec => []TypeOK
  <1>1. IInv => TypeOK
    BY DEF IInv
  <1>. QED
    BY <1>1, Inductive, PTL

(* No call outlasts RequestTimeout by more than its sleeps: ReturnsInTime. *)
THEOREM InTime == Spec => []ReturnsInTime
  <1>1. IInv => ReturnsInTime
    <2> SUFFICES ASSUME IInv, pc # "idle"
                 PROVE  now <= started + RequestTimeout + Slept(Retries)
      BY DEF ReturnsInTime, Slept
    <2> USE TransactorAssumption DEF IInv
    <2>1. CASE pc \in {"do", "body"}
      <3>1. attempt - 1 \in Nat /\ attempt - 1 <= Retries
        BY <2>1 DEF TypeOK, AttemptInv
      <3>2. Slept(attempt - 1) <= Slept(Retries) /\ Slept(attempt - 1) \in Nat /\ Slept(Retries) \in Nat
        BY <3>1, SleptFacts
      <3>. QED
        BY <2>1, <3>2 DEF TypeOK, TimeInv
    <2>2. CASE pc = "sleep"
      <3>1. Slept(attempt) <= Slept(Retries) /\ Slept(attempt) \in Nat /\ Slept(Retries) \in Nat
        BY <2>2, SleptFacts DEF TypeOK, AttemptInv
      <3>. QED
        BY <2>2, <3>1 DEF TypeOK, TimeInv
    <2>3. CASE pc = "returned"
      BY <2>3 DEF TimeInv
    <2>. QED
      BY <2>1, <2>2, <2>3 DEF TypeOK
  <1>. QED
    BY <1>1, Inductive, PTL

-----------------------------------------------------------------------------

(* The attempts XMiDT has acted on, and what it answered *)
Handled == {a \in Attempts : reply[a] # NoCode}
Answers == {reply[a] : a \in Attempts} \ {NoCode}

(* XMiDT acts on an attempt it has not acted on: the count grows and stays within Retries + 1. *)
LEMMA HandledCount ==
  ASSUME TypeOK, NEW a \in Attempts, Handle(a)
  PROVE  /\ Cardinality(Handled) < Retries + 1
         /\ Cardinality(Handled)' = Cardinality(Handled) + 1
  <1>1. IsFiniteSet(Attempts) /\ Cardinality(Attempts) = Retries + 1
    BY FS_Interval, TransactorAssumption DEF Attempts
  <1>2. Handled' = Handled \cup {a} /\ a \notin Handled
    BY TransactorAssumption DEF Handle, Handled, TypeOK
  <1>3. /\ IsFiniteSet(Attempts \ {a})
        /\ Cardinality(Attempts \ {a}) = Retries
    BY <1>1, FS_RemoveElement, TransactorAssumption
  <1>4. Handled \subseteq Attempts \ {a}
    BY <1>2 DEF Handled
  <1>5. IsFiniteSet(Handled) /\ Cardinality(Handled) <= Retries
    BY <1>3, <1>4, FS_Subset
  <1>6. Cardinality(Handled \cup {a}) = Cardinality(Handled) + 1
    BY <1>2, <1>5, FS_AddElement
  <1>7. Cardinality(Handled) \in Nat
    BY <1>5, FS_CardinalityType
  <1>. QED
    BY <1>2, <1>5, <1>6, <1>7, TransactorAssumption

(* What XMiDT answers is one of the codes, and joins the earlier answers. *)
LEMMA AnswerAdded ==
  ASSUME TypeOK, NEW a \in Attempts, Handle(a)
  PROVE  \E k \in Codes : Answers' = Answers \cup {k}
  <1>1. PICK k \in Codes : reply' = [reply EXCEPT ![a] = k]
    BY DEF Handle
  <1>2. reply[a] = NoCode /\ k # NoCode
    BY TransactorAssumption DEF Handle
  <1>3. Answers' = Answers \cup {k}
    BY <1>1, <1>2 DEF Answers, TypeOK
  <1>. QED
    BY <1>3

(***************************************************************************)
(* A call implements XmidtCall for any number of retries: XMiDT acts on it *)
(* at most Retries + 1 times, and a code or a body comes from an answer to *)
(* this call: ImplementsXmidtCall.                                         *)
(***************************************************************************)
THEOREM Implements == Spec => ImplementsXmidtCall
  <1> DEFINE avars == <<Cardinality(Handled), Answers, result>>
  <1>1. Init => Call!Init
    <2> SUFFICES ASSUME Init PROVE Call!Init
      OBVIOUS
    <2>1. Handled = {} /\ Answers = {}
      BY DEF Init, Handled, Answers
    <2>. QED
      BY <2>1, FS_EmptySet
      DEF Init, Call!Init, Handled, Answers, NoResult, Result, Call!NoResult, Call!Result
  <1>2. IInv /\ [Next]_vars => [Call!Next]_avars
    <2> SUFFICES ASSUME IInv, [Next]_vars
                 PROVE  Call!Next \/ UNCHANGED avars
      OBVIOUS
    <2> USE DEF IInv
    <2>1. ASSUME NEW a \in Attempts, Handle(a) PROVE Call!Next
      <3>1. PICK k \in Codes : Answers' = Answers \cup {k}
        BY <2>1, AnswerAdded
      <3>2. Call!Handle(k)
        BY <2>1, <3>1, HandledCount DEF Call!Handle, Handle, Handled, Answers
      <3>. QED
        BY <3>2 DEF Call!Next
    <2>2. ASSUME NEW r, Return(r), pc # "returned" PROVE Call!Return(r)
      BY <2>2 DEF Return, Call!Return, ReplyInv, NoResult, Result, Call!NoResult, Call!Result
    <2>3. pc = "body" => reply[attempt] \in Answers
      BY DEF TypeOK, AttemptInv, ReplyInv, Answers, Attempts
    <2>4. CASE GiveUp
      BY <2>2, <2>4 DEF GiveUp, Call!Next, Result, Call!Result
    <2>5. CASE ReadBody
      BY <2>2, <2>3, <2>5 DEF ReadBody, Call!Next, Result, Call!Result, Answers
    <2>6. CASE BodyFails
      BY <2>2, <2>3, <2>6 DEF BodyFails, Call!Next, Result, Call!Result, Answers
    <2>7. ASSUME Transact \/ Backoff \/ Again \/ Headers \/ Disconnect \/ Tick \/ UNCHANGED vars
          PROVE  UNCHANGED <<reply, result>>
      BY <2>7 DEF Transact, Backoff, Again, Headers, Disconnect, Tick, vars
    <2>8. ASSUME UNCHANGED <<reply, result>> PROVE UNCHANGED avars
      BY <2>8 DEF Handled, Answers
    <2>. QED
      BY <2>1, <2>4, <2>5, <2>6, <2>7, <2>8
      DEF Next, Rest, AttemptFails, AttemptTimesOut, BodyTimesOut
  <1>. QED
    BY <1>1, <1>2, Inductive, PTL DEF Spec, ImplementsXmidtCall, Call!Spec, Call!vars, Handled, Answers

=============================================================================
