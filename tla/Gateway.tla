-------------------------------- MODULE Gateway --------------------------------
(***************************************************************************)
(* The process from its start to one request and its answer.  Ingress takes*)
(* the request to a handler; here is the stat or the config ("translation")*)
(* handler: Welcome, decoding, the service call (acquire a credential,     *)
(* Transact), the response or error encoder, and the log at the end.  The  *)
(* order of the stages is kithttp.Server's (external).  Transact is        *)
(* Transactor; the JWT acquirer is its promise TokenSource, on the same    *)
(* clock.                                                                  *)
(***************************************************************************)
EXTENDS Transactor, Ingress

CONSTANTS
    DeviceCodes,  \* statusCode values in a device's payload that are taken over: 403, 520..599
    Timeout, Buffer, ExpiresIn, Lag, Horizon, \* of the acquirer, see TokenSource
    ClientHeader, \* the Authorization header the client sent
    BasicHeader,  \* the BasicAcquirer's header
    Failed        \* Acquire returned an error

(* "Timeout, network errors, etc." of the call to XMiDT *)
Unavailable == "503"

ASSUME GatewayAssumption ==
    /\ OK \in Codes
    /\ Pending # OK
    /\ Timeout \in Nat /\ Buffer \in Nat /\ Lag \in Nat /\ Horizon \in Nat
    /\ ExpiresIn \subseteq Int
    /\ LastCall + RequestTimeout + Retries * Interval <= Horizon

VARIABLES
    arrival,    \* Welcome has put the arrival time into the context
    credential, \* the Authorization header of the request to XMiDT
    tids,       \* who set the values of the X-Webpa-Transaction-Id header of the response
    complaint   \* Log wrote "Request arrival not capture for logger"

handler == <<arrival, credential, tids, complaint>>
gateway == <<startup, ingress, handler>>
allVars == <<vars, gateway>>

Source == INSTANCE TokenSource WITH
    Callers <- {"request"}, NoToken <- Pending,
    calling <- IF stage = "acquire" THEN {"request"} ELSE {},
    result <- [c \in {"request"} |-> credential]

GatewayInit ==
    /\ Init
    /\ IngressInit
    /\ arrival = FALSE
    /\ credential = Pending
    /\ tids = <<>>
    /\ complaint = FALSE

-----------------------------------------------------------------------------

(* What the handlers leave alone *)
served == <<startup, service, admitted>>

(***************************************************************************)
(* Welcome: the transaction id and the arrival time go into the context.   *)
(* From here on the request is its handler, an abstraction.                *)
(***************************************************************************)
Welcome ==
    /\ Stage("arrive", "decode")
    /\ arrival' = TRUE
    /\ request' = NoRequest
    /\ UNCHANGED <<status, credential, tids, complaint>>
    /\ UNCHANGED served
    /\ UNCHANGED vars

(* WriteHeader: only the first status counts. *)
Write(code) == status' = IF status = Pending THEN code ELSE status

(* Mutant: WriteHeader is not called before the body is written. *)
EncodeErrorImplicitly(code) ==
    /\ tids' = IF status = Pending THEN <<"own">> ELSE tids
    /\ Write(OK)
    /\ stage' = "log"
    /\ UNCHANGED <<request, arrival, credential, complaint>>
    /\ UNCHANGED served
    /\ UNCHANGED vars

(* encodeError: the id is Set, the code is the error's, or 500 for an error without one. *)
EncodeError(code) ==
    /\ tids' = IF status = Pending THEN <<"own">> ELSE tids
    /\ Write(code)
    /\ stage' = "log"
    /\ UNCHANGED <<request, arrival, credential, complaint>>
    /\ UNCHANGED served
    /\ UNCHANGED vars

(* decodeRequest returns a request, a bad-request error or (REPLACE_ROWS) a bare read error. *)
Decode ==
    /\ Stage("decode", "acquire")
    /\ UNCHANGED <<request, status, handler>>
    /\ UNCHANGED served
    /\ UNCHANGED vars

DecodeFails ==
    /\ stage = "decode"
    /\ EncodeError(BadRequest) \/ (service = "config" /\ EncodeError(Internal))

(* RequestStat, SendWRP: the acquirer's credential replaces the client's, then Transact. *)
Send(header) ==
    /\ Stage("acquire", "transact")
    /\ credential' = header
    /\ Transact
    /\ UNCHANGED <<request, status, arrival, tids, complaint>>
    /\ UNCHANGED served

(* Each service uses the acquirer it was built with. *)
SendPassedThrough == stage = "acquire" /\ acquirers[service] = "none" /\ Send(ClientHeader)

SendBasic == stage = "acquire" /\ acquirers[service] = "basic" /\ Send(BasicHeader)

SendJwt ==
    /\ stage = "acquire"
    /\ acquirers[service] = "jwt"
    /\ \E k \in Source!Offered(now) : Send(k)

(* NewRequest, the WRP encoder or Acquire failed: the error has no code. *)
SendFails == stage = "acquire" /\ EncodeError(Internal)

(* The steps of Transact, and the clock *)
TransactStep ==
    /\ \/ \E a \in Attempts : Handle(a)
       \/ AttemptFails
       \/ Again
       \/ Headers
       \/ ReadBody
       \/ BodyFails
       \/ Disconnect
       \/ Tick
    /\ UNCHANGED gateway

(* Mutant: the code is taken from the result, not from the error. *)
TransactFailsWithResult ==
    /\ stage = "transact"
    /\ result.kind \in {"unavailable", "unread"}
    /\ EncodeError(result.code)

(* An error of Transact goes to encodeError. *)
TransactFails ==
    /\ stage = "transact"
    /\ \/ result.kind = "unavailable" /\ EncodeError(Unavailable)
       \/ result.kind = "unread" /\ EncodeError(Internal)

(* X- headers of XMiDT's response; it may carry a transaction id of its own. *)
Forwarded == {<<>>, <<"xmidt">>}

(* The body is written; a client that has left makes Write fail, and encodeError runs too late. *)
Written(code, ids) ==
    /\ Write(code)
    /\ tids' = ids
    /\ stage' \in {"log", "late"}

(* stat.encodeResponse: Set the id, then Add the forwarded headers. *)
EncodeStat ==
    /\ service = "stat"
    /\ \E ids \in Forwarded : Written(result.code, <<"own">> \o ids)

(* Mutant: the id is Set before the headers are forwarded. *)
EncodeConfigLikeStat ==
    /\ service = "config"
    /\ \E ids \in Forwarded : Written(result.code, <<"own">> \o ids)

(* translation.encodeResponse: forward all headers, then Set the id. *)
EncodeConfig ==
    /\ service = "config"
    /\ \/ Written(result.code, <<"own">>)
       \/ result.code = OK /\ \E d \in DeviceCodes : Written(d, <<"own">>)

EncodeResponse ==
    /\ stage = "transact"
    /\ result.kind = "response"
    /\ EncodeStat \/ EncodeConfig
    /\ UNCHANGED <<request, arrival, credential, complaint>>
    /\ UNCHANGED served
    /\ UNCHANGED vars

(* A 200 whose body is not a WRP message; nothing has been written yet. *)
UndecodableBody ==
    /\ stage = "transact"
    /\ service = "config"
    /\ result.kind = "response"
    /\ result.code = OK
    /\ EncodeError(Internal)

WriteFailed == stage = "late" /\ EncodeError(Internal)

(* Log, the finalizer *)
Log ==
    /\ Stage("log", "done")
    /\ complaint' = arrival
    /\ UNCHANGED <<request, status, arrival, credential, tids>>
    /\ UNCHANGED served
    /\ UNCHANGED vars

(* The process has exited, or the one request is over. *)
Done ==
    /\ phase = "exited" \/ stage = "done"
    /\ UNCHANGED allVars

GatewayNext ==
    \/ IngressNext /\ UNCHANGED <<vars, handler>>
    \/ Welcome
    \/ Decode
    \/ DecodeFails
    \/ SendPassedThrough
    \/ SendBasic
    \/ SendJwt
    \/ SendFails
    \/ TransactStep
    \/ TransactFails
    \/ EncodeResponse
    \/ UndecodableBody
    \/ WriteFailed
    \/ Log
    \/ Done

(***************************************************************************)
(* The request's goroutine runs, and Acquire returns (JwtAcquirer).  That  *)
(* the key resolver answers is assumed: auth.go sets no timeout for it.    *)
(* The webhook handlers answer.  Nothing makes a client send a request.    *)
(***************************************************************************)
GatewayFairness ==
    /\ Fairness
    /\ WF_allVars((NotRouted \/ MatchRoute) /\ UNCHANGED <<vars, handler>>)
    /\ WF_allVars((Authenticate \/ Deny) /\ UNCHANGED <<vars, handler>>)
    /\ WF_allVars(HooksAnswer /\ UNCHANGED <<vars, handler>>)
    /\ WF_allVars(Welcome)
    /\ WF_allVars(Decode \/ DecodeFails)
    /\ WF_allVars(SendPassedThrough \/ SendBasic \/ SendJwt \/ SendFails)
    /\ WF_allVars(TransactFails \/ EncodeResponse \/ UndecodableBody)
    /\ WF_allVars(WriteFailed)
    /\ WF_allVars(Log)

GatewaySpec == GatewayInit /\ [][GatewayNext]_allVars

FairGatewaySpec == GatewaySpec /\ GatewayFairness

-----------------------------------------------------------------------------

GatewayTypeOK ==
    /\ TypeOK
    /\ IngressTypeOK
    /\ stage \in IngressStages \cup {"decode", "acquire", "transact", "late", "log"}
    /\ arrival \in BOOLEAN
    /\ credential \in [at : 0 .. Horizon, life : ExpiresIn] \cup {Pending, ClientHeader, BasicHeader}
    /\ status \in Codes \cup DeviceCodes \cup Unmatched \cup
        {Pending, Unauthorized, BadRequest, Internal, Unavailable}
    /\ tids \in Seq({"own", "xmidt"})
    /\ complaint \in BOOLEAN

(***************************************************************************)
(* A stat or config client that is told 200 got XMiDT's 200 to this        *)
(* request, from the last attempt, with its body: no timeout, lost body,   *)
(* undecodable answer or failed Acquire ends as a success, and no answer to*)
(* an attempt that was given up.                                           *)
(***************************************************************************)
SuccessIsGenuine ==
    status = OK /\ service \in {"stat", "config"} =>
        /\ result = Result("response", OK)
        /\ attempt \in sent
        /\ reply[attempt] = OK

(***************************************************************************)
(* The config service's answers carry one transaction id, the request's    *)
(* own, whatever headers XMiDT sent: the id is Set after the forwarded     *)
(* headers.  (The stat service does it the other way round.)               *)
(***************************************************************************)
ConfigAnswersOwnTID ==
    service = "config" /\ status # Pending => tids = <<"own">>

(***************************************************************************)
(* The credential is acquired once and sent with every retry.  Whatever    *)
(* the buffer, no attempt carries a token that was fetched longer than     *)
(* delay before it and that the cache stopped serving longer than delay    *)
(* ago: one that expired did so less than delay - Buffer ago, or is itself *)
(* not as old as delay.  Buffer >= delay would exclude expired tokens (of  *)
(* longer lifetimes); createAuthAcquirer asks only for a buffer that is    *)
(* not 0, and the 2m of tr1d1um.yaml are less than 1m + 129s.              *)
(***************************************************************************)
AttemptsCarryRecentTokens ==
    [][sent' # sent /\ acquirers[service] = "jwt" =>
        LET k == credential'
            delay == Timeout + Lag + RequestTimeout
            cached == IF k.life > 0 THEN k.life - Buffer ELSE Buffer
        IN  now < k.at + delay \/ now < k.at + cached + delay]_allVars

(***************************************************************************)
(* Log reports that the arrival time is missing only when it is missing.   *)
(***************************************************************************)
ComplainsOnlyWithoutArrival == complaint => ~arrival

(***************************************************************************)
(* Every request that arrives is answered, whether it is routed, denied, or*)
(* served, and one that is served is logged.                               *)
(***************************************************************************)
RequestAnswered == stage = "route" ~> (stage = "done" /\ status # Pending)

=============================================================================
