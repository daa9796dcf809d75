------------------------------- MODULE XmidtCall -------------------------------
(***************************************************************************)
(* What a service may rely on when it calls Transact: XMiDT acts on the    *)
(* request at most MaxHandled times, possibly after the call returned; the *)
(* call returns once; a status code it returns, or an error about the body *)
(* of a response, comes from an answer XMiDT gave to this very request.    *)
(***************************************************************************)
EXTENDS Naturals

CONSTANTS
    Codes,      \* status codes XMiDT may answer
    NoCode,     \* a result that carries no status code
    MaxHandled  \* how many times the request may be acted on

VARIABLES
    handled, \* how often XMiDT has acted on the request
    answers, \* the codes it answered
    result   \* what Transact returned: kind and code

vars == <<handled, answers, result>>

Result(kind, code) == [kind |-> kind, code |-> code]
NoResult == Result("none", NoCode)

Init ==
    /\ handled = 0
    /\ answers = {}
    /\ result = NoResult

Handle(k) ==
    /\ handled < MaxHandled
    /\ handled' = handled + 1
    /\ answers' = answers \cup {k}
    /\ UNCHANGED result

Return(r) ==
    /\ result = NoResult
    /\ result' = r
    /\ UNCHANGED <<handled, answers>>

Next ==
    \/ \E k \in Codes : Handle(k)
    \/ \E k \in answers : Return(Result("response", k))
    \/ answers # {} /\ Return(Result("unread", NoCode))
    \/ Return(Result("unavailable", NoCode))

Spec == Init /\ [][Next]_vars

=============================================================================
