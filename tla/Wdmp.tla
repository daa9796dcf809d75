---------------------------------- MODULE Wdmp ----------------------------------
(***************************************************************************)
(* The config service's decoder: an HTTP request becomes a WDMP command in *)
(* the payload of a WRP message, or is refused.  A PATCH body is read by   *)
(* captureWDMPParameters, for the log, and put back for decodeRequest; the *)
(* other methods' bodies are read by decodeRequest alone.                  *)
(*                                                                         *)
(* Texts are abstracted to what the code tells apart: absent (null), empty,*)
(* given.  One state machine runs per request.                             *)
(***************************************************************************)
EXTENDS Routes

CONSTANTS
    MaxParams \* bound: parameters in a SET body

ASSUME WdmpAssumption == MaxParams \in Nat

VARIABLES
    request, \* the HTTP request; its headers, path and body do not change
    stage,   \* "capture", "decode", "sent", "refused"
    body,    \* what the next reader of r.Body gets, "error" for a read error
    logged,  \* the command captureWDMPParameters put into the logger, "" if none
    payload, \* the WDMP message that is sent
    error    \* why the request was refused

vars == <<request, stage, body, logged, payload, error>>

Text == {"absent", "empty", "given"}

(* One element of "parameters"; dataType is an int8. *)
Param == [name : Text, dataType : {"absent", "negative", "given"}, value : BOOLEAN,
          attributes : Text]

Params == UNION {[1 .. n -> Param] : n \in 0 .. MaxParams}

Bytes(kind) == [kind |-> kind]
SetBody(ps, cid) == [kind |-> "set", params |-> ps, cid |-> cid]

(* The body a client sends; "json" is an object (of objects) of strings. *)
RowBodies == {Bytes(k) : k \in {"empty", "malformed", "null", "json"}}
SetBodies == {Bytes("empty"), Bytes("malformed"), Bytes("null")}
             \cup {SetBody(ps, cid) : ps \in Params, cid \in BOOLEAN}

Headers == [newCid : BOOLEAN, oldCid : BOOLEAN, cmc : BOOLEAN]
NoHeaders == [newCid |-> FALSE, oldCid |-> FALSE, cmc |-> FALSE]

Message(command) == [command |-> command, params |-> <<>>, cid |-> NoHeaders,
                     bodyCid |-> FALSE, object |-> "none"]
NoMessage == Message("none")

(* Path and query: {parameter} is given, blank or (no such variable) absent; names= of a GET *)
Request(m, hs, bs) ==
    [method : {m}, headers : hs, body : bs, parameter : {"absent", "blank", "given"},
     names : Text, attributes : BOOLEAN, served : BOOLEAN, device : BOOLEAN]

(* What is not looked at for a method is fixed. *)
Sent ==
    Request("GET", {NoHeaders}, {Bytes("empty")})
    \cup {r \in Request("PATCH", Headers, SetBodies) : r.names = "absent" /\ ~r.attributes}
    \cup UNION {{r \in Request(m, {NoHeaders}, RowBodies) : r.names = "absent" /\ ~r.attributes} :
            m \in Methods \ {"GET", "PATCH"}}

PathOf(r) ==
    <<"device", "mac", "config">> \o IF r.parameter = "absent" THEN <<>> ELSE <<"name">>

(* What the routes let through to the decoder *)
Requests == {r \in Sent : Match(configRoutes, r.method, PathOf(r)).handler = "config"}

Init ==
    /\ request \in Requests
    /\ stage = IF request.method = "PATCH" THEN "capture" ELSE "decode"
    /\ body = request.body
    /\ logged = ""
    /\ payload = NoMessage
    /\ error = "none"

-----------------------------------------------------------------------------
(* SET: each operator returns a message, or refuses with an error text *)

Refuse(text) == [refused |-> TRUE, text |-> text, message |-> NoMessage]
Accept(m) == [refused |-> FALSE, text |-> "none", message |-> m]

AttributesOnly(p) == p.attributes # "absent" /\ p.dataType = "absent" /\ ~p.value

getCommandForParams(ps) ==
    IF ps # <<>> /\ AttributesOnly(ps[1]) /\ ps[1].name # "absent"
    THEN "SET_ATTRIBUTES"
    ELSE "SET"

(* Mutants: the command is not set; the identifiers of the body are kept. *)
deduceTestAndSetOnly(wdmp, h) ==
    CASE ~h.newCid /\ h.oldCid -> Refuse("ErrNewCIDRequired")
      [] h = NoHeaders -> Accept(wdmp)
      [] OTHER -> Accept([wdmp EXCEPT !.command = "TEST_AND_SET", !.cid = h, !.bodyCid = FALSE])

deduceSETMerging(wdmp, h) ==
    CASE ~h.newCid /\ h.oldCid -> Refuse("ErrNewCIDRequired")
      [] h = NoHeaders -> Accept([wdmp EXCEPT !.command = getCommandForParams(wdmp.params)])
      [] OTHER -> Accept([wdmp EXCEPT !.command = "TEST_AND_SET", !.cid = h])

(* The identifiers in the headers make it a TEST_AND_SET. *)
deduceSET(wdmp, h) ==
    CASE ~h.newCid /\ h.oldCid -> Refuse("ErrNewCIDRequired")
      [] h = NoHeaders ->
            Accept([wdmp EXCEPT !.command = getCommandForParams(wdmp.params)])
      [] OTHER ->
            Accept([wdmp EXCEPT !.command = "TEST_AND_SET", !.cid = h, !.bodyCid = FALSE])

EachParameterValid(wdmp) ==
    \A i \in DOMAIN wdmp.params :
        LET p == wdmp.params[i]
        IN  /\ p.name = "given"
            /\ p.value => p.dataType = "given"
            /\ wdmp.command = "SET_ATTRIBUTES" => p.attributes # "absent"

(* Mutant: attributes and values may be mixed. *)
isValidEachWDMP(wdmp) ==
    IF wdmp.params = <<>> THEN wdmp.command = "TEST_AND_SET" ELSE EachParameterValid(wdmp)

isValidSetWDMP(wdmp) ==
    IF wdmp.params = <<>>
    THEN wdmp.command = "TEST_AND_SET"
    ELSE /\ EachParameterValid(wdmp)
         /\ \A i, j \in DOMAIN wdmp.params :
                AttributesOnly(wdmp.params[i]) = AttributesOnly(wdmp.params[j])

Unmarshalled(bytes) ==
    IF bytes.kind = "set"
    THEN [Message("") EXCEPT !.params = bytes.params, !.bodyCid = bytes.cid]
    ELSE Message("")

(* No bytes at all are as good as {}: they are used for TEST_AND_SET. *)
loadWDMP(bytes, h) ==
    LET deduced == deduceSET(Unmarshalled(bytes), h)
    IN  CASE bytes.kind = "malformed" -> Refuse("BadRequest")
          [] bytes.kind # "malformed" /\ deduced.refused -> deduced
          [] bytes.kind # "malformed" /\ ~deduced.refused ->
                IF isValidSetWDMP(deduced.message) THEN deduced ELSE Refuse("ErrInvalidSetWDMP")

(* json.Marshal leaves out an empty "attributes" (omitempty). *)
Marshal(m) ==
    [m EXCEPT !.params = [i \in DOMAIN m.params |->
        IF m.params[i].attributes = "empty"
        THEN [m.params[i] EXCEPT !.attributes = "absent"]
        ELSE m.params[i]]]

(* GET, ADD_ROW, REPLACE_ROWS, DELETE_ROW *)

requestGetPayload(r) ==
    IF r.names # "given"
    THEN Refuse("ErrEmptyNames")
    ELSE Accept(Message(IF r.attributes THEN "GET_ATTRIBUTES" ELSE "GET"))

(* The object of a row request: null is decoded without an error, into a nil map. *)
RowPayload(command, bytes, unread, missing, invalid) ==
    CASE bytes.kind = "error" -> Refuse(unread)
      [] bytes.kind = "empty" -> Refuse(missing)
      [] bytes.kind = "malformed" -> Refuse(invalid)
      [] OTHER -> Accept([Message(command) EXCEPT !.object = bytes.kind])

requestAddPayload(r, bytes) ==
    IF r.parameter = "absent"
    THEN Refuse("ErrMissingTable")
    ELSE RowPayload("ADD_ROW", bytes, "ErrInvalidPayload", "ErrMissingRow", "ErrInvalidRow")

(* The table's name is trimmed; a read error is returned as it is. *)
requestReplacePayload(r, bytes) ==
    IF r.parameter # "given"
    THEN Refuse("ErrMissingTable")
    ELSE RowPayload("REPLACE_ROWS", bytes, "read error", "ErrMissingRows", "ErrInvalidRows")

requestDeletePayload(r) ==
    IF r.parameter = "absent" THEN Refuse("ErrMissingRow") ELSE Accept(Message("DELETE_ROW"))

requestPayload(r, bytes) ==
    CASE r.method = "GET" -> requestGetPayload(r)
      [] r.method = "PATCH" /\ bytes.kind = "error" -> Refuse("read error")
      [] r.method = "PATCH" /\ bytes.kind # "error" -> loadWDMP(bytes, r.headers)
      [] r.method = "DELETE" -> requestDeletePayload(r)
      [] r.method = "PUT" -> requestReplacePayload(r, bytes)
      [] r.method = "POST" -> requestAddPayload(r, bytes)
      [] OTHER -> Refuse("ErrUnsupportedMethod")

-----------------------------------------------------------------------------

(***************************************************************************)
(* The connection breaks or the read times out before the body is complete.*)
(* The body of a PATCH is read to its end in captureWDMPParameters, which  *)
(* leaves a buffer to decodeRequest: nothing can break after it.           *)
(***************************************************************************)
BodyLost ==
    /\ stage = IF request.method = "PATCH" THEN "capture" ELSE "decode"
    /\ body = request.body
    /\ request.body.kind # "empty"
    /\ body' = Bytes("error")
    /\ UNCHANGED <<request, stage, logged, payload, error>>

(* The bytes that ReadAll returns: all of them, or with an error all, a part or none *)
Read == IF body.kind = "error"
        THEN {request.body, Bytes("malformed"), Bytes("empty")}
        ELSE {body}

CaptureWith(headers) ==
    /\ stage = "capture"
    /\ stage' = "decode"
    /\ body' \in Read
    /\ LET wdmp == loadWDMP(body', headers)
       IN  logged' = IF wdmp.refused THEN "" ELSE wdmp.message.command
    /\ UNCHANGED <<request, payload, error>>

(* Mutant: the identifiers in the headers are not looked at. *)
CaptureWithoutHeaders == CaptureWith(NoHeaders)

(* The bytes that were read are put back and the error of ReadAll is dropped. *)
captureWDMPParameters == CaptureWith(request.headers)

Refused(text) ==
    /\ stage' = "refused"
    /\ error' = text
    /\ UNCHANGED <<request, body, logged, payload>>

(* decodeValidServiceRequest: a service that is not configured is refused first. *)
InvalidService ==
    /\ stage = "decode"
    /\ ~request.served
    /\ Refused("ErrInvalidService")

(* decodeRequest: the payload, then wrap, which parses the device id. *)
decodeRequest ==
    /\ stage = "decode"
    /\ request.served
    /\ LET p == requestPayload(request, body)
       IN  CASE p.refused -> Refused(p.text)
             [] ~p.refused /\ ~request.device -> Refused("BadRequest")
             [] ~p.refused /\ request.device ->
                    /\ stage' = "sent"
                    /\ payload' = Marshal(p.message)
                    /\ UNCHANGED <<request, body, logged, error>>

(* The request has left the decoder. *)
Rest == stage \in {"sent", "refused"} /\ UNCHANGED vars

Next == BodyLost \/ captureWDMPParameters \/ InvalidService \/ decodeRequest \/ Rest

Spec == Init /\ [][Next]_vars

-----------------------------------------------------------------------------

Commands == {"GET", "GET_ATTRIBUTES", "SET", "SET_ATTRIBUTES", "TEST_AND_SET", "ADD_ROW",
             "DELETE_ROW", "REPLACE_ROWS"}

TypeOK ==
    /\ stage \in {"capture", "decode", "sent", "refused"}
    /\ logged \in {"", "SET", "SET_ATTRIBUTES", "TEST_AND_SET"}
    /\ stage = "sent" <=> payload.command \in Commands
    /\ stage = "refused" <=> error # "none"

(***************************************************************************)
(* The command is deduced from the first parameter only, yet it fits every *)
(* parameter of the request: SET_ATTRIBUTES has attributes and nothing to  *)
(* set in each, and no parameter of a SET is like that (one that has only a*)
(* name passes as SET).                                                    *)
(***************************************************************************)
CommandFitsEveryParameter ==
    stage = "sent" /\ request.body.kind = "set" /\ payload.command # "TEST_AND_SET" =>
        \A i \in DOMAIN request.body.params :
            /\ request.body.params[i].name = "given"
            /\ AttributesOnly(request.body.params[i]) <=> payload.command = "SET_ATTRIBUTES"

(***************************************************************************)
(* The body is decoded twice, from the connection for the log and from the *)
(* buffer for the device, whatever of it was read before the connection    *)
(* broke: the command in the log is the command that is sent.              *)
(***************************************************************************)
LoggedCommandIsSent ==
    stage = "sent" /\ request.method = "PATCH" => logged = payload.command

(***************************************************************************)
(* A TEST_AND_SET carries the identifiers of the headers and none of the   *)
(* body, and no other command is sent for a request that has identifiers   *)
(* in its headers.                                                         *)
(***************************************************************************)
TestAndSetUsesHeaders ==
    stage = "sent" =>
        /\ payload.cid = request.headers
        /\ payload.command = "TEST_AND_SET" => ~payload.bodyCid
        /\ payload.command = "TEST_AND_SET" <=> request.headers # NoHeaders

(***************************************************************************)
(* "Unwanted methods should be filtered at the mux level": whatever the mux*)
(* lets through to the decoder has the method and the path variable that   *)
(* its payload is made from, and a refusal is about the client's data.     *)
(***************************************************************************)
MuxFiltersRequests ==
    /\ error # "ErrUnsupportedMethod"
    /\ error = "ErrMissingTable" => request.method = "PUT" /\ request.parameter = "blank"
    /\ error = "ErrMissingRow" => request.method = "POST" /\ request.body.kind = "empty"

(***************************************************************************)
(* "Tr1d1um validates the incoming request, injects it into the payload":  *)
(* what is sent for a PATCH comes from a body that was read to its end.    *)
(***************************************************************************)
SentBodyWasRead ==
    stage = "sent" /\ request.method = "PATCH" => body = request.body

=============================================================================
