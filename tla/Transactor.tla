------------------------------- MODULE Transactor -------------------------------
(***************************************************************************)
(* transaction.Transact as provideServiceOptions wires it: a context with  *)
(* RequestTimeout around xhttp.RetryTransactor around http.Client.Do.      *)
(*                                                                         *)
(* One call is modelled: calls share nothing but the retry counter.  The   *)
(* retry loop and the HTTP client are external; what src/ relies on is that*)
(* an attempt ends when the context is done or when ClientTimeout is over, *)
(* and that an error which the loop takes for ephemeral is tried again     *)
(* after Interval, at most Retries times.  Which errors it takes for       *)
(* ephemeral is left open.  The loop sleeps without looking at the context.*)
(***************************************************************************)
EXTENDS Integers, FiniteSets

CONSTANTS
    RequestTimeout, \* Options.RequestTimeout
    ClientTimeout,  \* http.Client.Timeout, per attempt, the body included
    Interval,       \* RetryOptions.Interval
    Retries,        \* RetryOptions.Retries
    Codes,          \* status codes XMiDT may answer
    NoCode,         \* no answer yet, or a result without a code
    LastCall        \* bound: a call starts no later than this

ASSUME TransactorAssumption ==
    /\ RequestTimeout \in Nat \ {0}
    /\ ClientTimeout \in Nat \ {0}
    /\ Interval \in Nat
    /\ Retries \in Nat
    /\ LastCall \in Nat
    /\ NoCode \notin Codes

VARIABLES
    now,      \* time.Now()
    pc,       \* where the call is
    started,  \* when Transact was called
    deadline, \* when the context is done: RequestTimeout, or the client that left
    attempt,  \* attempts begun so far
    due,      \* when the present attempt or sleep is over
    sent,     \* attempts that may have reached XMiDT
    reply,    \* the code XMiDT answered each attempt with, once it has acted on it
    result    \* what Transact returned: kind and code

vars == <<now, pc, started, deadline, attempt, due, sent, reply, result>>

Attempts == 1 .. Retries + 1

(* "response": nil error; "unavailable": a coded 503; "unread": an error without a code *)
Result(kind, code) == [kind |-> kind, code |-> code]
NoResult == Result("none", NoCode)

Earlier(s, t) == IF s < t THEN s ELSE t

Init ==
    /\ now = 0
    /\ pc = "idle"
    /\ started = 0
    /\ deadline = 0
    /\ attempt = 0
    /\ due = 0
    /\ sent = {}
    /\ reply = [a \in Attempts |-> NoCode]
    /\ result = NoResult

-----------------------------------------------------------------------------

(***************************************************************************)
(* ctx, cancel := context.WithTimeout(...), then the first attempt of t.Do.*)
(* The inbound client may have left already.                               *)
(***************************************************************************)
Transact ==
    /\ pc = "idle"
    /\ pc' = "do"
    /\ started' = now
    /\ attempt' = 1
    /\ \E left \in BOOLEAN :
        /\ deadline' = IF left THEN now ELSE now + RequestTimeout
        /\ due' = IF left THEN now ELSE now + Earlier(RequestTimeout, ClientTimeout)
        /\ sent' = IF left THEN {} ELSE {1}
    /\ UNCHANGED <<now, reply, result>>

(* External: XMiDT acts on an attempt that reached it, perhaps long after. *)
Handle(a) ==
    /\ a \in sent
    /\ reply[a] = NoCode
    /\ \E k \in Codes : reply' = [reply EXCEPT ![a] = k]
    /\ UNCHANGED <<now, pc, started, deadline, attempt, due, sent, result>>

(* Mutant: one retry too many. *)
BackoffOnceMore ==
    /\ pc = "do"
    /\ attempt <= Retries + 1
    /\ pc' = "sleep"
    /\ due' = now + Interval
    /\ UNCHANGED <<now, started, deadline, attempt, sent, reply, result>>

(* External: the attempt failed with an ephemeral error; time.Sleep(Interval). *)
Backoff ==
    /\ pc = "do"
    /\ attempt <= Retries
    /\ pc' = "sleep"
    /\ due' = now + Interval
    /\ UNCHANGED <<now, started, deadline, attempt, sent, reply, result>>

(* Mutant: the retried request does not carry the context. *)
AgainWithoutContext ==
    /\ pc = "sleep"
    /\ now >= due
    /\ pc' = "do"
    /\ attempt' = attempt + 1
    /\ sent' = sent \cup {attempt + 1}
    /\ due' = now + ClientTimeout
    /\ UNCHANGED <<now, started, deadline, reply, result>>

(* External: the client sends the request again, unless the context is done. *)
Again ==
    /\ pc = "sleep"
    /\ now >= due
    /\ pc' = "do"
    /\ attempt' = attempt + 1
    /\ sent' = IF now < deadline THEN sent \cup {attempt + 1} ELSE sent
    /\ due' = IF now < deadline THEN Earlier(deadline, now + ClientTimeout) ELSE now
    /\ UNCHANGED <<now, started, deadline, reply, result>>

Return(r) ==
    /\ pc' = "returned"
    /\ result' = r
    /\ UNCHANGED <<now, started, deadline, attempt, due, sent, reply>>

(* Mutant: the error of t.Do is dropped. *)
GiveUpSilently == pc = "do" /\ Return(Result("response", reply[attempt]))

(* "Timeout, network errors, etc.": the last error is coded 503. *)
GiveUp == pc = "do" /\ Return(Result("unavailable", NoCode))

AttemptFails == Backoff \/ GiveUp

(* Mutant: the context has no deadline. *)
AttemptWithoutDeadline == FALSE

AttemptTimesOut == now >= due /\ AttemptFails

(* t.Do returns the response of the present attempt; its body is still open. *)
Headers ==
    /\ pc = "do"
    /\ attempt \in sent
    /\ reply[attempt] # NoCode
    /\ pc' = "body"
    /\ UNCHANGED <<now, started, deadline, attempt, due, sent, reply, result>>

(* ioutil.ReadAll(resp.Body) *)
ReadBody == pc = "body" /\ Return(Result("response", reply[attempt]))

(* The error of ReadAll is returned as it is, next to the partial result. *)
BodyFails == pc = "body" /\ Return(Result("unread", NoCode))

(* Mutant: nothing ends the reading of the body. *)
BodyWithoutDeadline == FALSE

BodyTimesOut == now >= due /\ BodyFails

(* The inbound client leaves: the request's context, and ctx, are cancelled. *)
Disconnect ==
    /\ pc \in {"do", "sleep", "body"}
    /\ now < deadline
    /\ deadline' = now
    /\ due' = IF pc = "sleep" THEN due ELSE now
    /\ UNCHANGED <<now, pc, started, attempt, sent, reply, result>>

(* Time passes, but not beyond the end of an attempt or of a sleep. *)
Tick ==
    /\ \/ pc = "idle" /\ now < LastCall
       \/ pc \in {"do", "sleep", "body"} /\ now < due
    /\ now' = now + 1
    /\ UNCHANGED <<pc, started, deadline, attempt, due, sent, reply, result>>

(* The call is over; XMiDT may still act on what was sent. *)
Rest == pc = "returned" /\ UNCHANGED vars

Next ==
    \/ Transact
    \/ \E a \in Attempts : Handle(a)
    \/ AttemptFails
    \/ AttemptTimesOut
    \/ Again
    \/ Headers
    \/ ReadBody
    \/ BodyFails
    \/ BodyTimesOut
    \/ Disconnect
    \/ Tick
    \/ Rest

(***************************************************************************)
(* Time passes, timers fire and sleepers wake.  Nothing is assumed of      *)
(* XMiDT, of the network or of the inbound client.                         *)
(***************************************************************************)
Fairness ==
    /\ WF_vars(Tick)
    /\ WF_vars(AttemptTimesOut)
    /\ WF_vars(Again)
    /\ WF_vars(BodyTimesOut)

Spec == Init /\ [][Next]_vars

FairSpec == Spec /\ Fairness

-----------------------------------------------------------------------------

TypeOK ==
    /\ now \in Nat
    /\ pc \in {"idle", "do", "sleep", "body", "returned"}
    /\ started \in Nat
    /\ deadline \in Nat
    /\ attempt \in 0 .. Retries + 1
    /\ due \in Nat
    /\ sent \subseteq Attempts
    /\ reply \in [Attempts -> Codes \cup {NoCode}]
    /\ result \in [kind : {"none", "response", "unavailable", "unread"},
                   code : Codes \cup {NoCode}]

(***************************************************************************)
(* How long a handler is kept: RequestTimeout ends the attempts but not the*)
(* sleeps between them, so the call may last Retries intervals longer.     *)
(***************************************************************************)
ReturnsInTime ==
    pc # "idle" => now <= started + RequestTimeout + Retries * Interval

(***************************************************************************)
(* "Timeout, network errors, etc." are answered 503: a call that timed out *)
(* or lost the connection does not end in an error without a code, which   *)
(* encodeError masks as 500.                                               *)
(***************************************************************************)
FailuresAreCoded == result.kind # "unread"

(***************************************************************************)
(* Every call returns, though XMiDT may never answer.                      *)
(***************************************************************************)
TransactReturns == pc = "do" ~> pc = "returned"

(***************************************************************************)
(* The call implements XmidtCall: at most Retries + 1 actions of XMiDT, and*)
(* a code or a body only from an answer to this request.                   *)
(***************************************************************************)
Call == INSTANCE XmidtCall WITH
    MaxHandled <- Retries + 1,
    handled <- Cardinality({a \in Attempts : reply[a] # NoCode}),
    answers <- {reply[a] : a \in Attempts} \ {NoCode}

ImplementsXmidtCall == Call!Spec

=============================================================================
