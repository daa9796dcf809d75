----------------------------- MODULE GatewayProofs -----------------------------
(***************************************************************************)
(* Theorems about the whole: the start of the process, one request through *)
(* the routers, the authentication chain and a handler, and the call to    *)
(* XMiDT; for any configurations, requests, timeouts and status codes.     *)
(***************************************************************************)
EXTENDS Gateway, TransactorProofs, IngressProofs

HandlerStages == {"decode", "acquire", "transact", "late", "log"}

(* A response that Transact returned is XMiDT's answer to the last attempt. *)
AnswerInv ==
    /\ pc = "body" => attempt \in sent
    /\ result.kind = "response" =>
            /\ pc = "returned"
            /\ attempt \in sent
            /\ reply[attempt] # NoCode
            /\ result.code = reply[attempt]

(* Nothing is called or written before its stage, and the handlers serve two services. *)
HandlerInv ==
    /\ stage \in IngressStages \cup HandlerStages
    /\ stage \in (IngressStages \ {"done"}) \cup {"decode", "acquire"} => pc = "idle"
    /\ stage \in {"decode", "acquire", "transact"} => status = Pending
    /\ stage \in HandlerStages => service \in {"stat", "config"}

(* The JWT acquirer returned the credential of the call when the call began. *)
CredentialInv ==
    pc # "idle" /\ acquirers[service] = "jwt" => credential \in Source!Offered(started)

ValuesInv ==
    /\ arrival \in BOOLEAN
    /\ complaint \in BOOLEAN
    /\ credential \in [at : 0 .. Horizon, life : ExpiresIn] \cup {Pending, ClientHeader, BasicHeader}
    /\ status \in Codes \cup DeviceCodes \cup Unmatched \cup
        {Pending, Unauthorized, BadRequest, Internal, Unavailable}
    /\ tids \in Seq({"own", "xmidt"})

GatewayInv ==
    /\ IInv
    /\ AnswerInv
    /\ StartupInv
    /\ RequestInv
    /\ HandlerInv
    /\ CredentialInv
    /\ ValuesInv
    /\ SuccessIsGenuine
    /\ ConfigAnswersOwnTID

-----------------------------------------------------------------------------
(* Steps of the call to XMiDT *)

(* A code that was returned is not changed any more: XMiDT answers an attempt once. *)
LEMMA CallKeepsAnswer ==
  ASSUME IInv, AnswerInv, [Next]_vars
  PROVE  /\ AnswerInv'
         /\ result.kind = "response" =>
                UNCHANGED <<result, attempt, sent>> /\ reply'[attempt] = reply[attempt]
  <1> USE TransactorAssumption DEF AnswerInv, IInv, ReplyInv
  <1>1. ASSUME NEW kind \in {"unavailable", "unread"}, pc \in {"do", "body"},
               Return(Result(kind, NoCode))
        PROVE  AnswerInv' /\ result.kind # "response"
    BY <1>1 DEF Return, Result
  <1>2. ASSUME Transact \/ Backoff \/ Again \/ Headers \/ Disconnect \/ Tick,
               pc = "returned" => result.kind # "response"
        PROVE  AnswerInv' /\ result.kind # "response"
    BY <1>2 DEF Transact, Backoff, Again, Headers, Disconnect, Tick, NoResult, Result
  <1>3. ASSUME Transact \/ Backoff \/ Again \/ Headers \/ Disconnect \/ Tick
        PROVE  pc # "returned"
    BY <1>3 DEF Transact, Backoff, Again, Headers, Disconnect, Tick
  <1>4. ASSUME NEW a \in Attempts, Handle(a)
        PROVE  /\ AnswerInv'
               /\ result.kind = "response" =>
                    UNCHANGED <<result, attempt, sent>> /\ reply'[attempt] = reply[attempt]
    BY <1>4 DEF Handle, TypeOK, Attempts
  <1>5. CASE ReadBody
    BY <1>5 DEF ReadBody, Return, Result, NoResult
  <1>6. CASE UNCHANGED vars
    BY <1>6 DEF vars
  <1>. QED
    BY <1>1, <1>2, <1>3, <1>4, <1>5, <1>6
    DEF Next, Rest, AttemptFails, AttemptTimesOut, BodyTimesOut, GiveUp, BodyFails

(* The steps that Gateway takes of the call, and those that leave it alone *)
LEMMA CallSteps ==
  ASSUME TransactStep \/ Transact \/ UNCHANGED vars
  PROVE  [Next]_vars
  BY DEF TransactStep, Next

(* The call runs in its own stage, and moves nothing of the handler. *)
LEMMA TransactStepInv ==
  ASSUME GatewayInv, TransactStep
  PROVE  GatewayInv'
  <1>1. IInv' /\ AnswerInv'
    BY CallSteps, NextInv, CallKeepsAnswer DEF GatewayInv
  <1>2. UNCHANGED <<config, phase, exitCode, api, alternate, acquirers, request, stage, service,
                    admitted, status, arrival, credential, tids, complaint>>
    BY DEF TransactStep, gateway, startup, ingress, handler
  <1>3. StartupInv'
    BY <1>2 DEF GatewayInv, StartupInv, Registered, createAuthAcquirer
  <1>4. RequestInv'
    BY <1>2 DEF GatewayInv, RequestInv, Reached, Routed, RouteIn, URLPrefix, Version, Outcomes, Unmatched
  <1>5. (pc = "idle" <=> pc' = "idle") /\ started' = started
    BY DEF TransactStep, Handle, AttemptFails, Backoff, GiveUp, Again, Headers, ReadBody, BodyFails,
           Return, Disconnect, Tick
  <1>6. HandlerInv' /\ ValuesInv' /\ ConfigAnswersOwnTID'
    BY <1>2, <1>5 DEF GatewayInv, HandlerInv, ValuesInv, ConfigAnswersOwnTID, IngressStages,
       HandlerStages, Unmatched
  <1>7. CredentialInv'
    BY <1>2, <1>5 DEF GatewayInv, CredentialInv, Source!Offered, Source!JustFetched,
       Source!StillCached, Source!ExpiryAt
  <1>8. SuccessIsGenuine'
    <2>1. SuccessIsGenuine /\ (result = Result("response", OK) => result.kind = "response")
      BY DEF GatewayInv, Result
    <2>2. result.kind = "response" =>
            UNCHANGED <<result, attempt, sent>> /\ reply'[attempt] = reply[attempt]
      BY CallSteps, CallKeepsAnswer DEF GatewayInv
    <2>. QED
      BY <1>2, <2>1, <2>2 DEF SuccessIsGenuine
  <1>. QED
    BY <1>1, <1>3, <1>4, <1>6, <1>7, <1>8 DEF GatewayInv

-----------------------------------------------------------------------------
(* Steps of the handlers *)

(* The tables, the route and the principal stay what they were. *)
LEMMA ServedStep ==
  ASSUME GatewayInv, stage \in HandlerStages \cup {"arrive"},
         UNCHANGED served, request' \in {request, NoRequest},
         stage' \in HandlerStages \cup {"done"}
  PROVE  StartupInv' /\ RequestInv' /\ service' \in {"stat", "config"}
  <1>1. UNCHANGED <<config, phase, exitCode, api, alternate, acquirers, service, admitted>>
    BY DEF served, startup
  <1>2. StartupInv'
    BY <1>1 DEF GatewayInv, StartupInv, Registered, createAuthAcquirer
  <1>3. phase = "running"
    BY DEF GatewayInv, RequestInv, HandlerStages
  <1>4. service \in {"stat", "config"}
    <2>1. CASE stage = "arrive"
      BY <2>1 DEF GatewayInv, RequestInv, Reached
    <2>2. CASE stage \in HandlerStages
      BY <2>2 DEF GatewayInv, HandlerInv
    <2>. QED
      BY <2>1, <2>2
  <1>5. RequestInv'
    BY <1>1, <1>3 DEF GatewayInv, RequestInv, HandlerStages
  <1>. QED
    BY <1>1, <1>2, <1>4, <1>5

(* A step that leaves the call alone *)
LEMMA CallUnchanged ==
  ASSUME GatewayInv, UNCHANGED vars, UNCHANGED served, UNCHANGED credential
  PROVE  /\ IInv' /\ AnswerInv' /\ CredentialInv'
         /\ UNCHANGED <<pc, result, attempt, sent, reply>>
  <1>1. IInv' /\ AnswerInv'
    BY CallSteps, NextInv, CallKeepsAnswer DEF GatewayInv
  <1>2. UNCHANGED <<now, pc, started, deadline, attempt, due, sent, reply, result, acquirers, service>>
    BY DEF vars, served, startup
  <1>3. CredentialInv'
    BY <1>2 DEF GatewayInv, CredentialInv, Source!Offered, Source!JustFetched,
       Source!StillCached, Source!ExpiryAt
  <1>. QED
    BY <1>1, <1>2, <1>3

(* Welcome writes nothing and the call has not begun. *)
LEMMA WelcomeStep ==
  ASSUME GatewayInv, Welcome
  PROVE  GatewayInv'
  <1>1. /\ stage = "arrive" /\ stage' = "decode"
        /\ arrival' = TRUE /\ request' = NoRequest
        /\ UNCHANGED <<status, credential, tids, complaint>>
        /\ UNCHANGED served /\ UNCHANGED vars
    BY DEF Welcome, Stage
  <1>2. StartupInv' /\ RequestInv' /\ service' \in {"stat", "config"}
    BY <1>1, ServedStep DEF HandlerStages
  <1>3. IInv' /\ AnswerInv' /\ CredentialInv' /\ UNCHANGED <<pc, result, attempt, sent, reply>>
    BY <1>1, CallUnchanged
  <1>4. status = Pending /\ pc = "idle"
    BY <1>1 DEF GatewayInv, RequestInv, HandlerInv, IngressStages
  <1>5. HandlerInv'
    BY <1>1, <1>2, <1>3, <1>4 DEF HandlerInv, HandlerStages, IngressStages
  <1>6. ValuesInv'
    BY <1>1 DEF GatewayInv, ValuesInv, Unmatched
  <1>7. SuccessIsGenuine' /\ ConfigAnswersOwnTID'
    BY <1>1, <1>4, GatewayAssumption DEF SuccessIsGenuine, ConfigAnswersOwnTID
  <1>. QED
    BY <1>2, <1>3, <1>5, <1>6, <1>7 DEF GatewayInv

(* Nor has it when the request was decoded. *)
LEMMA DecodeStep ==
  ASSUME GatewayInv, Decode
  PROVE  GatewayInv'
  <1>1. /\ stage = "decode" /\ stage' = "acquire"
        /\ UNCHANGED <<request, status, arrival, credential, tids, complaint>>
        /\ UNCHANGED served /\ UNCHANGED vars
    BY DEF Decode, Stage, handler
  <1>2. StartupInv' /\ RequestInv' /\ service' \in {"stat", "config"}
    BY <1>1, ServedStep DEF HandlerStages
  <1>3. IInv' /\ AnswerInv' /\ CredentialInv' /\ UNCHANGED <<pc, result, attempt, sent, reply>>
    BY <1>1, CallUnchanged
  <1>4. status = Pending /\ pc = "idle"
    BY <1>1 DEF GatewayInv, HandlerInv
  <1>5. HandlerInv'
    BY <1>1, <1>2, <1>3, <1>4 DEF HandlerInv, HandlerStages, IngressStages
  <1>6. ValuesInv'
    BY <1>1 DEF GatewayInv, ValuesInv, Unmatched
  <1>7. SuccessIsGenuine' /\ ConfigAnswersOwnTID'
    BY <1>1, <1>4, GatewayAssumption DEF SuccessIsGenuine, ConfigAnswersOwnTID
  <1>. QED
    BY <1>2, <1>3, <1>5, <1>6, <1>7 DEF GatewayInv

(* The error encoder never writes 200, and does not write over what is written. *)
LEMMA EncodeErrorStep ==
  ASSUME GatewayInv, stage \in HandlerStages,
         NEW code \in {BadRequest, Internal, Unavailable}, EncodeError(code)
  PROVE  GatewayInv'
  <1>1. /\ tids' = IF status = Pending THEN <<"own">> ELSE tids
        /\ status' = IF status = Pending THEN code ELSE status
        /\ stage' = "log"
        /\ UNCHANGED <<request, arrival, credential, complaint>>
        /\ UNCHANGED served /\ UNCHANGED vars
    BY DEF EncodeError, Write
  <1>2. StartupInv' /\ RequestInv' /\ service' \in {"stat", "config"}
    BY <1>1, ServedStep DEF HandlerStages
  <1>3. IInv' /\ AnswerInv' /\ CredentialInv' /\ UNCHANGED <<pc, result, attempt, sent, reply>>
    BY <1>1, CallUnchanged
  <1>4. HandlerInv'
    BY <1>1, <1>2, <1>3 DEF HandlerInv, HandlerStages, IngressStages
  <1>5. ValuesInv'
    <2>1. tids' \in Seq({"own", "xmidt"})
      <3>1. tids \in Seq({"own", "xmidt"}) /\ <<"own">> \in Seq({"own", "xmidt"})
        BY DEF GatewayInv, ValuesInv
      <3>2. tids' = tids \/ tids' = <<"own">>
        BY <1>1
      <3>. QED
        BY <3>1, <3>2, Zenon
    <2>2. status' \in Codes \cup DeviceCodes \cup Unmatched \cup
            {Pending, Unauthorized, BadRequest, Internal, Unavailable}
      BY <1>1 DEF GatewayInv, ValuesInv
    <2>. QED
      BY <1>1, <2>1, <2>2 DEF GatewayInv, ValuesInv, Unmatched
  <1>6. UNCHANGED service /\ OK \notin {BadRequest, Internal, Unavailable}
    BY <1>1 DEF served, OK, BadRequest, Internal, Unavailable
  <1>7. SuccessIsGenuine' /\ ConfigAnswersOwnTID'
    BY <1>1, <1>3, <1>6 DEF GatewayInv, SuccessIsGenuine, ConfigAnswersOwnTID
  <1>. QED
    BY <1>2, <1>3, <1>4, <1>5, <1>7 DEF GatewayInv

(* The credential is acquired at the moment the call begins. *)
LEMMA SendStep ==
  ASSUME GatewayInv, SendPassedThrough \/ SendBasic \/ SendJwt
  PROVE  GatewayInv'
  <1>1. PICK header :
          /\ Send(header)
          /\ header \in [at : 0 .. Horizon, life : ExpiresIn] \cup {ClientHeader, BasicHeader}
          /\ acquirers[service] = "jwt" => header \in Source!Offered(now)
    BY DEF SendPassedThrough, SendBasic, SendJwt, Source!Offered
  <1>2. /\ stage = "acquire" /\ stage' = "transact"
        /\ credential' = header
        /\ Transact
        /\ UNCHANGED <<request, status, arrival, tids, complaint>>
        /\ UNCHANGED served
    BY <1>1 DEF Send, Stage
  <1>3. StartupInv' /\ RequestInv' /\ service' \in {"stat", "config"}
    BY <1>2, ServedStep DEF HandlerStages
  <1>4. IInv' /\ AnswerInv'
    BY <1>2, CallSteps, NextInv, CallKeepsAnswer DEF GatewayInv
  <1>5. status = Pending
    BY <1>2 DEF GatewayInv, HandlerInv
  <1>6. HandlerInv'
    BY <1>2, <1>3, <1>5 DEF HandlerInv, HandlerStages, IngressStages
  <1>7. CredentialInv'
    <2>1. UNCHANGED <<acquirers, service>> /\ started' = now
      BY <1>2 DEF served, startup, Transact
    <2>. QED
      BY <1>1, <1>2, <2>1 DEF CredentialInv, Source!Offered, Source!JustFetched,
         Source!StillCached, Source!ExpiryAt
  <1>8. ValuesInv'
    BY <1>1, <1>2 DEF GatewayInv, ValuesInv, Unmatched
  <1>9. SuccessIsGenuine' /\ ConfigAnswersOwnTID'
    BY <1>2, <1>5, GatewayAssumption DEF SuccessIsGenuine, ConfigAnswersOwnTID
  <1>. QED
    BY <1>3, <1>4, <1>6, <1>7, <1>8, <1>9 DEF GatewayInv

(* 200 is written only when the result's code is 200. *)
LEMMA EncodeResponseStep ==
  ASSUME GatewayInv, EncodeResponse
  PROVE  GatewayInv'
  <1>1. /\ stage = "transact" /\ result.kind = "response"
        /\ EncodeStat \/ EncodeConfig
        /\ UNCHANGED <<request, arrival, credential, complaint>>
        /\ UNCHANGED served /\ UNCHANGED vars
    BY DEF EncodeResponse
  <1>2. status = Pending
    BY <1>1 DEF GatewayInv, HandlerInv
  <1>3. /\ stage' \in {"log", "late"}
        /\ status' = result.code \/ (status' \in DeviceCodes /\ result.code = OK)
        /\ tids' \in Seq({"own", "xmidt"})
        /\ service = "config" => tids' = <<"own">>
    <2>1. CASE EncodeStat
      <3>1. PICK ids \in Forwarded : Written(result.code, <<"own">> \o ids)
        BY <2>1 DEF EncodeStat
      <3>2. ids \in Seq({"own", "xmidt"})
        <4>1. <<>> \in Seq({"own", "xmidt"}) /\ <<"xmidt">> \in Seq({"own", "xmidt"})
          OBVIOUS
        <4>. QED
          BY <4>1, Zenon DEF Forwarded
      <3>3. <<"own">> \o ids \in Seq({"own", "xmidt"})
        <4>1. <<"own">> \in Seq({"own", "xmidt"})
          OBVIOUS
        <4>. QED
          BY <3>2, <4>1
      <3>. QED
        BY <1>2, <2>1, <3>1, <3>3 DEF Written, Write, EncodeStat
    <2>2. CASE EncodeConfig
      <3>1. <<"own">> \in Seq({"own", "xmidt"})
        OBVIOUS
      <3>. QED
        BY <1>2, <2>2, <3>1 DEF EncodeConfig, Written, Write
    <2>. QED
      BY <1>1, <2>1, <2>2
  <1>4. StartupInv' /\ RequestInv' /\ service' \in {"stat", "config"} /\ UNCHANGED service
    BY <1>1, <1>3, ServedStep DEF HandlerStages, served
  <1>5. IInv' /\ AnswerInv' /\ CredentialInv' /\ UNCHANGED <<pc, result, attempt, sent, reply>>
    BY <1>1, CallUnchanged
  <1>6. /\ attempt \in sent /\ result.code = reply[attempt] /\ result.code \in Codes
        /\ result = Result("response", result.code)
    <2>1. attempt \in sent /\ result.code = reply[attempt] /\ reply[attempt] # NoCode
      BY <1>1 DEF GatewayInv, AnswerInv
    <2>2. TypeOK
      BY DEF GatewayInv, IInv
    <2>3. result.code \in Codes /\ result = [kind |-> result.kind, code |-> result.code]
      BY <2>1, <2>2 DEF TypeOK
    <2>. QED
      BY <1>1, <2>1, <2>3 DEF Result
  <1>7. HandlerInv'
    BY <1>3, <1>4 DEF HandlerInv, HandlerStages, IngressStages
  <1>8. ValuesInv'
    BY <1>1, <1>3, <1>6 DEF GatewayInv, ValuesInv, Unmatched
  <1>9. SuccessIsGenuine'
    BY <1>3, <1>5, <1>6 DEF SuccessIsGenuine
  <1>10. ConfigAnswersOwnTID'
    BY <1>3, <1>4 DEF ConfigAnswersOwnTID
  <1>. QED
    BY <1>4, <1>5, <1>7, <1>8, <1>9, <1>10 DEF GatewayInv

(* The finalizer changes no answer. *)
LEMMA LogStep ==
  ASSUME GatewayInv, Log
  PROVE  GatewayInv'
  <1>1. /\ stage = "log" /\ stage' = "done" /\ complaint' = arrival
        /\ UNCHANGED <<request, status, arrival, credential, tids>>
        /\ UNCHANGED served /\ UNCHANGED vars
    BY DEF Log, Stage
  <1>2. StartupInv' /\ RequestInv' /\ UNCHANGED service
    BY <1>1, ServedStep DEF HandlerStages, served
  <1>3. IInv' /\ AnswerInv' /\ CredentialInv' /\ UNCHANGED <<pc, result, attempt, sent, reply>>
    BY <1>1, CallUnchanged
  <1>4. HandlerInv'
    BY <1>1 DEF HandlerInv, HandlerStages, IngressStages
  <1>5. ValuesInv'
    BY <1>1 DEF GatewayInv, ValuesInv, Unmatched
  <1>6. SuccessIsGenuine' /\ ConfigAnswersOwnTID'
    BY <1>1, <1>2, <1>3 DEF GatewayInv, SuccessIsGenuine, ConfigAnswersOwnTID
  <1>. QED
    BY <1>2, <1>3, <1>4, <1>5, <1>6 DEF GatewayInv

-----------------------------------------------------------------------------
(* Steps before the handler *)

(* A request that has not reached a handler has no call and no answer of a handler. *)
LEMMA IngressStep ==
  ASSUME GatewayInv, IngressNext, UNCHANGED <<vars, handler>>
  PROVE  GatewayInv'
  <1>1. StartupInv' /\ RequestInv'
    BY IngressStepInv DEF GatewayInv
  <1>2. IInv' /\ AnswerInv' /\ UNCHANGED <<pc, result, attempt, sent, reply>>
    BY CallSteps, NextInv, CallKeepsAnswer DEF GatewayInv, vars
  <1>3. UNCHANGED <<arrival, credential, tids, complaint>>
    BY DEF handler
  <1>4. stage \notin HandlerStages \/ UNCHANGED <<stage, service, status>>
    BY DEF IngressNext, ingress, Arrive, NotRouted, MatchRoute, Authenticate, Deny, HooksAnswer,
       Stage, HandlerStages
  <1>5. CASE StartupNext /\ UNCHANGED ingress
    <2>1. stage = "idle" /\ UNCHANGED <<stage, service, status>>
      BY <1>5, StartupStepInv DEF GatewayInv, RequestInv, Building, ingress
    <2>2. pc = "idle" /\ service = "none" /\ status = Pending
      BY <2>1 DEF GatewayInv, HandlerInv, RequestInv, IngressStages
    <2>3. HandlerInv' /\ CredentialInv'
      BY <1>2, <2>1, <2>2 DEF HandlerInv, CredentialInv, IngressStages, HandlerStages
    <2>4. ValuesInv'
      BY <1>3, <2>1 DEF GatewayInv, ValuesInv, Unmatched
    <2>5. SuccessIsGenuine' /\ ConfigAnswersOwnTID'
      BY <2>1, <2>2 DEF SuccessIsGenuine, ConfigAnswersOwnTID
    <2>. QED
      BY <1>1, <1>2, <2>3, <2>4, <2>5 DEF GatewayInv
  <1>6. ASSUME stage' \in {"route", "authenticate", "arrive", "hooks"}, UNCHANGED status,
               stage \in {"idle", "route", "authenticate"}
        PROVE  GatewayInv'
    <2>1. pc = "idle" /\ status = Pending
      BY <1>6 DEF GatewayInv, HandlerInv, RequestInv, IngressStages
    <2>2. HandlerInv' /\ CredentialInv'
      BY <1>2, <1>6, <2>1 DEF HandlerInv, CredentialInv, IngressStages, HandlerStages
    <2>3. ValuesInv'
      BY <1>3, <1>6 DEF GatewayInv, ValuesInv, Unmatched
    <2>4. SuccessIsGenuine' /\ ConfigAnswersOwnTID'
      BY <1>6, <2>1, GatewayAssumption DEF SuccessIsGenuine, ConfigAnswersOwnTID
    <2>. QED
      BY <1>1, <1>2, <2>2, <2>3, <2>4 DEF GatewayInv
  <1>7. ASSUME stage' = "done", service' \notin {"stat", "config"},
               stage \in {"route", "authenticate", "hooks"},
               status' \in Unmatched \cup {OK, Unauthorized, BadRequest, Internal}
        PROVE  GatewayInv'
    <2>1. pc = "idle"
      BY <1>7 DEF GatewayInv, HandlerInv, IngressStages
    <2>2. HandlerInv' /\ CredentialInv'
      BY <1>2, <1>7, <2>1 DEF HandlerInv, CredentialInv, IngressStages, HandlerStages
    <2>3. ValuesInv'
      BY <1>3, <1>7, GatewayAssumption DEF GatewayInv, ValuesInv, Unmatched
    <2>4. SuccessIsGenuine' /\ ConfigAnswersOwnTID'
      BY <1>7 DEF SuccessIsGenuine, ConfigAnswersOwnTID
    <2>. QED
      BY <1>1, <1>2, <2>2, <2>3, <2>4 DEF GatewayInv
  <1>8. CASE Arrive
    BY <1>6, <1>8 DEF Arrive, Stage
  <1>9. CASE NotRouted
    BY <1>7, <1>9 DEF NotRouted, Stage, GatewayInv, RequestInv
  <1>10. CASE MatchRoute
    BY <1>6, <1>10 DEF MatchRoute, Stage
  <1>11. CASE Authenticate
    BY <1>6, <1>11 DEF Authenticate
  <1>12. CASE Deny
    <2>1. PICK outcome \in Outcomes(request) \ {"token"} : status' = StatusOf(outcome)
      BY <1>12 DEF Deny
    <2>2. outcome \in {"missing", "bad", "invalid", "error"}
      BY <2>1 DEF Outcomes, Parse
    <2>3. status' \in {Unauthorized, BadRequest, Internal}
      BY <2>1, <2>2 DEF StatusOf
    <2>. QED
      BY <1>7, <1>12, <2>3 DEF Deny, Stage, GatewayInv, RequestInv
  <1>13. CASE HooksAnswer
    <2>1. Reached /\ stage = "hooks"
      BY <1>13 DEF HooksAnswer, Stage, GatewayInv, RequestInv
    <2>2. service \notin {"stat", "config"}
      BY <2>1 DEF Reached
    <2>. QED
      BY <1>7, <1>13, <2>2 DEF HooksAnswer, Stage
  <1>. QED
    BY <1>5, <1>8, <1>9, <1>10, <1>11, <1>12, <1>13 DEF IngressNext

-----------------------------------------------------------------------------

(* Before the process starts nothing is served, called or written. *)
LEMMA GatewayInitInv == GatewayInit => GatewayInv
  <1> SUFFICES ASSUME GatewayInit PROVE GatewayInv
    OBVIOUS
  <1>1. IInv /\ StartupInv /\ RequestInv
    BY InitInv, RequestInitInv DEF GatewayInit
  <1>2. AnswerInv /\ HandlerInv /\ CredentialInv
    BY DEF GatewayInit, Init, IngressInit, AnswerInv, HandlerInv, CredentialInv, IngressStages,
       HandlerStages, NoResult, Result
  <1>3. ValuesInv /\ SuccessIsGenuine /\ ConfigAnswersOwnTID
    <2>1. <<>> \in Seq({"own", "xmidt"})
      OBVIOUS
    <2>. QED
      BY <2>1 DEF GatewayInit, IngressInit, ValuesInv, SuccessIsGenuine, ConfigAnswersOwnTID
  <1>. QED
    BY <1>1, <1>2, <1>3 DEF GatewayInv

(* Every step keeps the inductive invariant. *)
LEMMA GatewayStepInv == GatewayInv /\ [GatewayNext]_allVars => GatewayInv'
  <1> SUFFICES ASSUME GatewayInv, [GatewayNext]_allVars PROVE GatewayInv'
    OBVIOUS
  <1>1. CASE IngressNext /\ UNCHANGED <<vars, handler>>
    BY <1>1, IngressStep
  <1>2. CASE Welcome
    BY <1>2, WelcomeStep
  <1>3. CASE Decode
    BY <1>3, DecodeStep
  <1>4. CASE DecodeFails \/ SendFails \/ TransactFails \/ UndecodableBody \/ WriteFailed
    BY <1>4, EncodeErrorStep
    DEF DecodeFails, SendFails, TransactFails, UndecodableBody, WriteFailed, HandlerStages
  <1>5. CASE SendPassedThrough \/ SendBasic \/ SendJwt
    BY <1>5, SendStep
  <1>6. CASE TransactStep
    BY <1>6, TransactStepInv
  <1>7. CASE EncodeResponse
    BY <1>7, EncodeResponseStep
  <1>8. CASE Log
    BY <1>8, LogStep
  <1>9. CASE Done \/ UNCHANGED allVars
    <2>1. UNCHANGED <<vars, gateway>>
      BY <1>9 DEF Done, allVars
    <2>2. UNCHANGED <<now, pc, started, deadline, attempt, due, sent, reply, result>>
      BY <2>1 DEF vars
    <2>3. UNCHANGED <<config, phase, exitCode, api, alternate, acquirers, request, stage, service,
                      admitted, status, arrival, credential, tids, complaint>>
      BY <2>1 DEF gateway, startup, ingress, handler
    <2>4. IInv' /\ AnswerInv'
      BY <2>1, CallSteps, NextInv, CallKeepsAnswer DEF GatewayInv
    <2>5. StartupInv' /\ RequestInv'
      BY <2>3 DEF GatewayInv, StartupInv, Registered, createAuthAcquirer, RequestInv, Reached,
         Routed, RouteIn, URLPrefix, Version, Outcomes, Unmatched
    <2>6. HandlerInv' /\ ValuesInv' /\ CredentialInv'
      BY <2>2, <2>3 DEF GatewayInv, HandlerInv, ValuesInv, IngressStages, HandlerStages, Unmatched,
         CredentialInv, Source!Offered, Source!JustFetched, Source!StillCached, Source!ExpiryAt
    <2>7. SuccessIsGenuine' /\ ConfigAnswersOwnTID'
      BY <2>2, <2>3 DEF GatewayInv, SuccessIsGenuine, ConfigAnswersOwnTID
    <2>. QED
      BY <2>4, <2>5, <2>6, <2>7 DEF GatewayInv
  <1>. QED
    BY <1>1, <1>2, <1>3, <1>4, <1>5, <1>6, <1>7, <1>8, <1>9 DEF GatewayNext

(* The invariant holds in every reachable state. *)
LEMMA GatewayInvHolds == GatewaySpec => []GatewayInv
  BY GatewayInitInv, GatewayStepInv, PTL DEF GatewaySpec

-----------------------------------------------------------------------------

(* The variables of the whole keep their types. *)
THEOREM GatewayTypeCorrect == GatewaySpec => []GatewayTypeOK
  <1>1. GatewayInv => GatewayTypeOK
    <2> SUFFICES ASSUME GatewayInv PROVE GatewayTypeOK
      OBVIOUS
    <2>1. TypeOK /\ IngressTypeOK
      BY DEF GatewayInv, IInv, StartupInv, RequestInv, IngressTypeOK, StartupTypeOK
    <2>. QED
      BY <2>1 DEF GatewayInv, HandlerInv, HandlerStages, ValuesInv, GatewayTypeOK
  <1>. QED
    BY <1>1, GatewayInvHolds, PTL

(* NewService copies the acquirer that createAuthAcquirer made, and every table is registered. *)
THEOREM Served == GatewaySpec => []ServesAsConfigured
  <1>1. GatewayInv => ServesAsConfigured
    BY Configured DEF GatewayInv
  <1>. QED
    BY <1>1, GatewayInvHolds, PTL

(* The alternate router changes nothing for any path, method or version. *)
THEOREM SameOnBothServers == GatewaySpec => []ServersAgree
  <1>1. GatewayInv => ServersAgree
    BY Agreement DEF GatewayInv
  <1>. QED
    BY <1>1, GatewayInvHolds, PTL

(* The stat route is registered before the config routes, for every path they share. *)
THEOREM StatIsServed == GatewaySpec => []StatServesStat
  <1>1. GatewayInv => StatServesStat
    BY StatIsFirst DEF GatewayInv
  <1>. QED
    BY <1>1, GatewayInvHolds, PTL

(* Authenticate wraps every handler that is registered, and Parse checks the Bearer tokens. *)
THEOREM Authenticated == GatewaySpec => []BearerTokensAreVerified
  <1>1. GatewayInv => BearerTokensAreVerified
    BY Admission DEF GatewayInv
  <1>. QED
    BY <1>1, GatewayInvHolds, PTL

(* fixV2Duration is applied to the registrations of version 2 and to no others. *)
THEOREM V2Fixed == GatewaySpec => []V2HooksAreFixed
  <1>1. GatewayInv => V2HooksAreFixed
    BY V2Recognised DEF GatewayInv
  <1>. QED
    BY <1>1, GatewayInvHolds, PTL

(* No way through the handlers, Transact and the encoders makes a success of a failure. *)
THEOREM GenuineSuccess == GatewaySpec => []SuccessIsGenuine
  <1>1. GatewayInv => SuccessIsGenuine
    BY DEF GatewayInv
  <1>. QED
    BY <1>1, GatewayInvHolds, PTL

(* translation's encoders Set the transaction id last. *)
THEOREM OwnTransactionID == GatewaySpec => []ConfigAnswersOwnTID
  <1>1. GatewayInv => ConfigAnswersOwnTID
    BY DEF GatewayInv
  <1>. QED
    BY <1>1, GatewayInvHolds, PTL

-----------------------------------------------------------------------------

(* The tokens an attempt at time t may carry *)
Recent(k, t) ==
    LET delay == Timeout + Lag + RequestTimeout
        cached == IF k.life > 0 THEN k.life - Buffer ELSE Buffer
    IN  t < k.at + delay \/ t < k.at + cached + delay

(* How old a token is when the context of the call that it was acquired for is over *)
LEMMA TokenAge ==
  ASSUME NEW s \in Nat, NEW t \in Nat, t < s + RequestTimeout, NEW k \in Source!Offered(s)
  PROVE  Recent(k, t)
  <1>1. k.at \in Nat /\ k.life \in Int
    <2>1. k \in [at : 0 .. Horizon, life : ExpiresIn]
      BY Zenon DEF Source!Offered
    <2>2. Horizon \in Nat /\ \A e \in ExpiresIn : e \in Int
      BY Zenon, GatewayAssumption
    <2>3. k.at \in 0 .. Horizon /\ k.life \in ExpiresIn
      BY <2>1
    <2>. QED
      BY <2>2, <2>3
  <1>2. CASE Source!JustFetched(k, s)
    BY <1>1, <1>2, GatewayAssumption, TransactorAssumption DEF Source!JustFetched, Recent
  <1>3. CASE Source!StillCached(k, s)
    BY <1>1, <1>3, GatewayAssumption, TransactorAssumption
    DEF Source!StillCached, Source!ExpiryAt, Recent
  <1>. QED
    BY <1>2, <1>3 DEF Source!Offered

(***************************************************************************)
(* Whatever the handlers do around it, the call of the stat and the config *)
(* services is one call of Transactor: begun at most once, in its own      *)
(* stage, and disturbed by nothing else.                                   *)
(***************************************************************************)
THEOREM CallIsTransact == GatewaySpec => Spec
  <1>1. GatewayInit => Init
    BY DEF GatewayInit
  <1>2. [GatewayNext]_allVars => [Next]_vars
    BY CallSteps
    DEF GatewayNext, Welcome, Decode, DecodeFails, SendPassedThrough, SendBasic, SendJwt, Send,
        SendFails, TransactFails, EncodeResponse, UndecodableBody, WriteFailed, EncodeError, Log,
        Done, allVars
  <1>. QED
    BY <1>1, <1>2, PTL DEF GatewaySpec, Spec

(***************************************************************************)
(* So a request that the process serves is acted on at most Retries + 1    *)
(* times by XMiDT, ...                                                     *)
(***************************************************************************)
THEOREM CallKeepsPromise == GatewaySpec => ImplementsXmidtCall
  BY CallIsTransact, Implements, PTL

(***************************************************************************)
(* ... and its handler waits no longer than RequestTimeout and the sleeps. *)
(***************************************************************************)
THEOREM CallInTime == GatewaySpec => []ReturnsInTime
  BY CallIsTransact, InTime, PTL

(***************************************************************************)
(* For any buffer and any number of retries: the attempts end with         *)
(* RequestTimeout, and what is left of the call after that sends nothing,  *)
(* so a token goes stale by one fetch and one RequestTimeout at most.      *)
(***************************************************************************)
THEOREM RecentAttempts == GatewaySpec => AttemptsCarryRecentTokens
  <1> DEFINE Carried == sent' # sent /\ acquirers[service] = "jwt" => Recent(credential', now)
  <1>1. ASSUME GatewayInv, [GatewayNext]_allVars PROVE [Carried]_allVars
    <2>1. SUFFICES ASSUME GatewayNext, sent' # sent, acquirers[service] = "jwt"
                   PROVE  Recent(credential', now)
      BY <1>1 DEF allVars
    <2>2. TypeOK /\ DeadlineInv
      BY <1>1 DEF GatewayInv, IInv
    <2>3. CASE SendJwt
      <3>1. PICK k \in Source!Offered(now) : Send(k)
        BY <2>3 DEF SendJwt
      <3>2. credential' = k /\ now \in Nat /\ now < now + RequestTimeout
        BY <2>2, <3>1, TransactorAssumption DEF Send, TypeOK
      <3>. QED
        BY <3>2, TokenAge
    <2>4. CASE TransactStep
      <3>1. pc = "sleep" /\ now < deadline
        BY <2>1, <2>4 DEF TransactStep, Handle, AttemptFails, Backoff, GiveUp, Again, Headers,
           ReadBody, BodyFails, Return, Disconnect, Tick
      <3>2. credential' = credential
        BY <2>4 DEF TransactStep, gateway, handler
      <3>3. now \in Nat /\ started \in Nat /\ now < started + RequestTimeout
        BY <2>2, <3>1, TransactorAssumption DEF TypeOK, DeadlineInv
      <3>4. credential \in Source!Offered(started)
        BY <1>1, <2>1, <3>1 DEF GatewayInv, CredentialInv
      <3>. QED
        BY <3>2, <3>3, <3>4, TokenAge
    <2>5. CASE SendPassedThrough \/ SendBasic
      BY <2>1, <2>5 DEF SendPassedThrough, SendBasic
    <2>6. ASSUME UNCHANGED vars PROVE FALSE
      BY <2>1, <2>6 DEF vars
    <2>. QED
      BY <2>1, <2>3, <2>4, <2>5, <2>6
      DEF GatewayNext, Welcome, Decode, DecodeFails, SendFails, TransactFails, EncodeResponse,
          UndecodableBody, WriteFailed, EncodeError, Log, Done, allVars
  <1>. QED
    BY <1>1, GatewayInvHolds, PTL DEF GatewaySpec, AttemptsCarryRecentTokens, Recent

=============================================================================
