------------------------------- MODULE WdmpProofs -------------------------------
(***************************************************************************)
(* Theorems about Wdmp, for SET bodies with any number of parameters.      *)
(***************************************************************************)
EXTENDS Wdmp, TLAPS

SetCommands == {"SET", "SET_ATTRIBUTES", "TEST_AND_SET"}

(* The message of a PATCH *)
SetMessages == [command : SetCommands \cup {""}, params : Params, cid : Headers,
                bodyCid : BOOLEAN, object : {"none"}]

-----------------------------------------------------------------------------
(* Routes *)

(* A request that a handler of the table serves matches one of its routes. *)
LEMMA MatchHits ==
  ASSUME NEW table, NEW method, NEW path,
         Match(table, method, path).handler \notin {"404", "405"}
  PROVE  \E i \in DOMAIN table : PathMatches(table[i], path) /\ method \in table[i].methods
  <1> DEFINE onPath == {i \in DOMAIN table : PathMatches(table[i], path)}
             hits == {i \in onPath : method \in table[i].methods}
  <1>1. ASSUME hits = {} PROVE FALSE
    <2>1. Match(table, method, path) \in {NotFound, MethodNotAllowed}
      BY <1>1 DEF Match
    <2>2. NotFound.handler = "404" /\ MethodNotAllowed.handler = "405"
      BY DEF NotFound, MethodNotAllowed, Route
    <2>. QED
      BY <2>1, <2>2
  <1>. QED
    BY <1>1

(* The config routes let each method through with its path variables, or not at all. *)
LEMMA Delivered ==
  ASSUME NEW r \in Requests
  PROVE  \/ r.method \in {"GET", "PATCH"} /\ r.parameter = "absent"
         \/ r.method \in {"PUT", "POST", "DELETE"} /\ r.parameter # "absent"
  <1>1. PICK i \in DOMAIN configRoutes :
          /\ PathMatches(configRoutes[i], PathOf(r))
          /\ r.method \in configRoutes[i].methods
    BY MatchHits DEF Requests
  <1>2. DOMAIN configRoutes = {1, 2}
    BY DEF configRoutes
  <1>3. /\ configRoutes[1].path = ServicePath
        /\ configRoutes[1].methods = {"GET", "PATCH"}
        /\ configRoutes[2].path = ParameterPath
        /\ configRoutes[2].methods = {"DELETE", "PUT", "POST"}
    BY DEF configRoutes, Route
  <1>4. Len(ServicePath) = 3 /\ Len(ParameterPath) = 4
    BY DEF ServicePath, ParameterPath
  <1>5. Len(PathOf(r)) = IF r.parameter = "absent" THEN 3 ELSE 4
    <2> DEFINE Segments == {"device", "mac", "config", "name"}
    <2>1. \A s, t \in Seq(Segments) : Len(s \o t) = Len(s) + Len(t)
      OBVIOUS
    <2>2. /\ <<"device", "mac", "config">> \in Seq(Segments)
          /\ Len(<<"device", "mac", "config">>) = 3
      OBVIOUS
    <2>3. /\ <<"name">> \in Seq(Segments) /\ Len(<<"name">>) = 1
          /\ <<>> \in Seq(Segments) /\ Len(<<>>) = 0
      OBVIOUS
    <2>4. CASE r.parameter = "absent"
      BY <2>1, <2>2, <2>3, <2>4 DEF PathOf
    <2>5. CASE r.parameter # "absent"
      BY <2>1, <2>2, <2>3, <2>5 DEF PathOf
    <2>. QED
      BY <2>4, <2>5
  <1>6. Len(configRoutes[i].path) = Len(PathOf(r))
    BY <1>1 DEF PathMatches
  <1>7. CASE i = 1
    BY <1>1, <1>3, <1>4, <1>5, <1>6, <1>7
  <1>8. CASE i = 2
    BY <1>1, <1>3, <1>4, <1>5, <1>6, <1>8
  <1>. QED
    BY <1>2, <1>7, <1>8

-----------------------------------------------------------------------------
(* The decoder's operators *)

(* What clients send, and that only a PATCH has parameters and identifiers. *)
LEMMA RequestFacts ==
  ASSUME NEW r \in Requests
  PROVE  /\ r.method \in Methods
         /\ r.headers \in Headers
         /\ r.method # "PATCH" => r.headers = NoHeaders /\ r.body.kind # "set"
         /\ r.body.kind \in {"empty", "malformed", "null", "json", "set"}
         /\ r.body.kind = "set" => r.body.params \in Params /\ r.body.cid \in BOOLEAN
  <1>1. r \in Sent
    BY DEF Requests
  <1>2. NoHeaders \in Headers
    BY DEF NoHeaders, Headers
  <1>3. \A b \in RowBodies : b.kind \in {"empty", "malformed", "null", "json"}
    BY DEF RowBodies, Bytes
  <1>4. \A b \in SetBodies :
            /\ b.kind \in {"empty", "malformed", "null", "set"}
            /\ b.kind = "set" => b.params \in Params /\ b.cid \in BOOLEAN
    BY DEF SetBodies, SetBody, Bytes
  <1>5. CASE r \in Request("GET", {NoHeaders}, {Bytes("empty")})
    BY <1>2, <1>5 DEF Request, Bytes, Methods
  <1>6. CASE r \in Request("PATCH", Headers, SetBodies)
    BY <1>4, <1>6 DEF Request, Methods
  <1>7. CASE \E m \in Methods \ {"GET", "PATCH"} : r \in Request(m, {NoHeaders}, RowBodies)
    BY <1>2, <1>3, <1>7 DEF Request
  <1>. QED
    BY <1>1, <1>5, <1>6, <1>7 DEF Sent

(* A list of parameters that is not empty has a first one. *)
LEMMA FirstParam ==
  ASSUME NEW ps \in Params, ps # <<>>
  PROVE  1 \in DOMAIN ps
  <1>1. PICK n \in 0 .. MaxParams : ps \in [1 .. n -> Param]
    BY DEF Params
  <1>2. n \in Nat
    BY <1>1, WdmpAssumption
  <1>3. CASE n = 0
    <2>1. ps \in Seq(Param) /\ Len(ps) = 0
      BY <1>1, <1>2, <1>3
    <2>. QED
      BY <2>1
  <1>4. CASE n # 0
    BY <1>1, <1>2, <1>4
  <1>. QED
    BY <1>3, <1>4

(* What a body is unmarshalled into *)
LEMMA UnmarshalledFields ==
  ASSUME NEW bytes, bytes.kind = "set" => bytes.params \in Params /\ bytes.cid \in BOOLEAN
  PROVE  /\ Unmarshalled(bytes) \in SetMessages
         /\ Unmarshalled(bytes).params = IF bytes.kind = "set" THEN bytes.params ELSE <<>>
         /\ Unmarshalled(bytes).cid = NoHeaders
  <1>1. Message("") \in SetMessages /\ Message("").params = <<>> /\ Message("").cid = NoHeaders
    <2>1. <<>> \in Params
      <3>1. <<>> \in [1 .. 0 -> Param] /\ 0 \in 0 .. MaxParams
        BY WdmpAssumption
      <3>. QED
        BY <3>1 DEF Params
    <2>2. NoHeaders \in Headers
      BY DEF NoHeaders, Headers
    <2>. QED
      BY <2>1, <2>2 DEF Message, SetMessages
  <1>2. CASE bytes.kind = "set"
    <2>1. Unmarshalled(bytes) = [Message("") EXCEPT !.params = bytes.params, !.bodyCid = bytes.cid]
      BY <1>2, Zenon DEF Unmarshalled
    <2>2. /\ Unmarshalled(bytes) \in SetMessages
          /\ Unmarshalled(bytes).params = bytes.params
          /\ Unmarshalled(bytes).cid = Message("").cid
      BY <1>1, <1>2, <2>1 DEF SetMessages
    <2>. QED
      BY <1>1, <1>2, <2>2
  <1>3. CASE bytes.kind # "set"
    BY <1>1, <1>3 DEF Unmarshalled
  <1>. QED
    BY <1>2, <1>3

(* The command of a SET is the one for its parameters, unless the headers have identifiers. *)
LEMMA DeduceFacts ==
  ASSUME NEW h \in Headers, NEW wdmp \in SetMessages, wdmp.cid = NoHeaders,
         ~deduceSET(wdmp, h).refused
  PROVE  /\ deduceSET(wdmp, h).message \in SetMessages
         /\ deduceSET(wdmp, h).message.cid = h
         /\ deduceSET(wdmp, h).message.params = wdmp.params
         /\ deduceSET(wdmp, h).message.command =
                IF h = NoHeaders THEN getCommandForParams(wdmp.params) ELSE "TEST_AND_SET"
         /\ h # NoHeaders => ~deduceSET(wdmp, h).message.bodyCid
  <1>1. ASSUME ~h.newCid, h.oldCid PROVE FALSE
    <2>1. deduceSET(wdmp, h) = Refuse("ErrNewCIDRequired")
      BY <1>1 DEF deduceSET, NoHeaders
    <2>. QED
      BY <2>1 DEF Refuse
  <1>2. deduceSET(wdmp, h).message =
          IF h = NoHeaders
          THEN [wdmp EXCEPT !.command = getCommandForParams(wdmp.params)]
          ELSE [wdmp EXCEPT !.command = "TEST_AND_SET", !.cid = h, !.bodyCid = FALSE]
    BY <1>1 DEF deduceSET, Accept
  <1>3. getCommandForParams(wdmp.params) \in SetCommands
    BY DEF getCommandForParams, SetCommands
  <1>4. CASE h = NoHeaders
    BY <1>2, <1>3, <1>4 DEF SetMessages
  <1>5. CASE h # NoHeaders
    BY <1>2, <1>5 DEF SetMessages, SetCommands
  <1>. QED
    BY <1>4, <1>5

(* A SET that is loaded was deduced and found valid. *)
LEMMA LoadFacts ==
  ASSUME NEW h \in Headers, NEW bytes,
         bytes.kind = "set" => bytes.params \in Params /\ bytes.cid \in BOOLEAN,
         ~loadWDMP(bytes, h).refused
  PROVE  /\ loadWDMP(bytes, h).message \in SetMessages
         /\ loadWDMP(bytes, h).message.cid = h
         /\ loadWDMP(bytes, h).message.params = IF bytes.kind = "set" THEN bytes.params ELSE <<>>
         /\ loadWDMP(bytes, h).message.command =
                IF h = NoHeaders
                THEN getCommandForParams(loadWDMP(bytes, h).message.params)
                ELSE "TEST_AND_SET"
         /\ h # NoHeaders => ~loadWDMP(bytes, h).message.bodyCid
         /\ isValidSetWDMP(loadWDMP(bytes, h).message)
  <1> DEFINE deduced == deduceSET(Unmarshalled(bytes), h)
  <1>1. \A text : Refuse(text).refused
    BY DEF Refuse
  <1>2. bytes.kind # "malformed"
    BY <1>1 DEF loadWDMP
  <1>3. ~deduced.refused
    BY <1>1, <1>2 DEF loadWDMP
  <1>4. isValidSetWDMP(deduced.message) /\ loadWDMP(bytes, h) = deduced
    BY <1>1, <1>2, <1>3 DEF loadWDMP
  <1>. QED
    BY <1>3, <1>4, UnmarshalledFields, DeduceFacts

(***************************************************************************)
(* A SET or SET_ATTRIBUTES comes from a body with parameters; the first one*)
(* decides, and the validation makes the others agree with it.             *)
(***************************************************************************)
LEMMA SetIsUniform ==
  ASSUME NEW bytes, bytes.kind = "set" => bytes.params \in Params /\ bytes.cid \in BOOLEAN,
         ~loadWDMP(bytes, NoHeaders).refused
  PROVE  /\ bytes.kind = "set"
         /\ loadWDMP(bytes, NoHeaders).message.command \in {"SET", "SET_ATTRIBUTES"}
         /\ \A i \in DOMAIN bytes.params :
              /\ bytes.params[i].name = "given"
              /\ AttributesOnly(bytes.params[i])
                    <=> loadWDMP(bytes, NoHeaders).message.command = "SET_ATTRIBUTES"
  <1> DEFINE m == loadWDMP(bytes, NoHeaders).message
  <1>1. NoHeaders \in Headers
    BY DEF NoHeaders, Headers
  <1>2. /\ m.params = IF bytes.kind = "set" THEN bytes.params ELSE <<>>
        /\ m.command = getCommandForParams(m.params)
        /\ isValidSetWDMP(m)
    BY <1>1, LoadFacts
  <1> HIDE DEF m
  <1>3. m.command \in {"SET", "SET_ATTRIBUTES"}
    BY <1>2 DEF getCommandForParams
  <1>4. m.params # <<>> /\ EachParameterValid(m)
    BY <1>2, <1>3 DEF isValidSetWDMP
  <1>5. bytes.kind = "set" /\ m.params = bytes.params /\ 1 \in DOMAIN m.params
    BY <1>2, <1>4, FirstParam
  <1>6. \A i \in DOMAIN m.params : m.params[i].name = "given"
    BY <1>4 DEF EachParameterValid
  <1>7. m.command = "SET_ATTRIBUTES" <=> AttributesOnly(m.params[1])
    BY <1>2, <1>4, <1>5, <1>6 DEF getCommandForParams
  <1>8. \A i \in DOMAIN m.params : AttributesOnly(m.params[i]) = AttributesOnly(m.params[1])
    BY <1>2, <1>4, <1>5 DEF isValidSetWDMP
  <1>. QED
    BY <1>3, <1>5, <1>6, <1>7, <1>8 DEF m

(* Every message the decoder makes *)
Messages == [command : Commands \cup {""}, params : Params, cid : Headers, bodyCid : BOOLEAN,
             object : {"none", "null", "json", "set"}]

(* What is left out of the JSON is in the parameters. *)
LEMMA MarshalFields ==
  ASSUME NEW m \in Messages
  PROVE  /\ Marshal(m).command = m.command
         /\ Marshal(m).cid = m.cid
         /\ Marshal(m).bodyCid = m.bodyCid
  BY DEF Marshal, Messages

(* The messages of the other methods have no identifiers. *)
LEMMA RowFacts ==
  ASSUME NEW command \in Commands, NEW object \in {"none", "null", "json", "set"}, NEW m,
         m = Message(command) \/ m = [Message(command) EXCEPT !.object = object]
  PROVE  m \in Messages /\ m.cid = NoHeaders /\ m.command = command
  <1>1. Message(command) \in Messages
    <2>1. <<>> \in [1 .. 0 -> Param] /\ 0 \in 0 .. MaxParams
      BY WdmpAssumption
    <2>2. <<>> \in Params /\ NoHeaders \in Headers
      BY <2>1 DEF Params, NoHeaders, Headers
    <2>. QED
      BY <2>2 DEF Message, Messages
  <1>2. Message(command).cid = NoHeaders /\ Message(command).command = command
    BY DEF Message
  <1>3. CASE m = Message(command)
    BY <1>1, <1>2, <1>3
  <1>4. CASE m = [Message(command) EXCEPT !.object = object]
    BY <1>1, <1>2, <1>4 DEF Messages
  <1>. QED
    BY <1>3, <1>4

(* The bytes a request's body may turn out to be *)
BytesOf(r) == {r.body, Bytes("error"), Bytes("malformed"), Bytes("empty")}

(* A SET body is the whole body of a PATCH, never a part of one. *)
LEMMA BytesFacts ==
  ASSUME NEW r \in Requests, NEW bytes \in BytesOf(r)
  PROVE  /\ bytes.kind \in {"error", "empty", "malformed", "null", "json", "set"}
         /\ bytes.kind = "set" => bytes = r.body
         /\ bytes.kind = "set" => bytes.params \in Params /\ bytes.cid \in BOOLEAN
         /\ bytes.kind = "set" => r.method = "PATCH"
  <1>1. CASE bytes = r.body
    BY <1>1, RequestFacts
  <1>2. CASE bytes \in {Bytes("error"), Bytes("malformed"), Bytes("empty")}
    BY <1>2 DEF Bytes
  <1>. QED
    BY <1>1, <1>2 DEF BytesOf

(* What a payload has that is not refused, and how the one of a PATCH was made. *)
LEMMA AcceptedPayload ==
  ASSUME NEW r \in Requests, NEW bytes \in BytesOf(r), ~requestPayload(r, bytes).refused
  PROVE  LET m == requestPayload(r, bytes).message
         IN  /\ m \in Messages
             /\ m.command \in Commands
             /\ m.cid = r.headers
             /\ m.command = "TEST_AND_SET" => ~m.bodyCid
             /\ m.command = "TEST_AND_SET" <=> r.headers # NoHeaders
             /\ r.method = "PATCH" => /\ bytes.kind # "error"
                                     /\ ~loadWDMP(bytes, r.headers).refused
                                     /\ m = loadWDMP(bytes, r.headers).message
  <1> DEFINE p == requestPayload(r, bytes)
  <1>1. \A text : Refuse(text).refused
    BY DEF Refuse
  <1>2. CASE r.method = "PATCH"
    <2>1. bytes.kind # "error" /\ p = loadWDMP(bytes, r.headers)
      BY <1>1, <1>2 DEF requestPayload
    <2> DEFINE m == loadWDMP(bytes, r.headers).message
    <2>2. r.headers \in Headers /\ (bytes.kind = "set" => bytes.params \in Params /\ bytes.cid \in BOOLEAN)
      BY RequestFacts, BytesFacts
    <2>3. /\ m \in SetMessages
          /\ m.cid = r.headers
          /\ m.command = IF r.headers = NoHeaders THEN getCommandForParams(m.params)
                         ELSE "TEST_AND_SET"
          /\ r.headers # NoHeaders => ~m.bodyCid
      BY <2>1, <2>2, LoadFacts
    <2> HIDE DEF m
    <2>4. m \in Messages
      BY <2>3 DEF SetMessages, Messages, SetCommands, Commands
    <2>5. getCommandForParams(m.params) \in {"SET", "SET_ATTRIBUTES"}
      BY DEF getCommandForParams
    <2>6. m.command \in Commands /\ (m.command = "TEST_AND_SET" <=> r.headers # NoHeaders)
      BY <2>3, <2>5 DEF Commands
    <2>7. p.message = m /\ ~loadWDMP(bytes, r.headers).refused
      BY <2>1 DEF m
    <2>. QED
      BY <2>1, <2>3, <2>4, <2>6, <2>7 DEF m
  <1>3. CASE r.method # "PATCH"
    <2>1. r.headers = NoHeaders /\ r.method \in Methods
      BY <1>3, RequestFacts
    <2>2. \E command \in Commands \ {"TEST_AND_SET"}, object \in {"none", "null", "json", "set"} :
             \/ p.message = Message(command)
             \/ p.message = [Message(command) EXCEPT !.object = object]
      <3>1. \A m : Accept(m).message = m
        BY DEF Accept
      <3>2. CASE r.method = "GET"
        <4>1. p = requestGetPayload(r)
          BY <3>2 DEF requestPayload
        <4>2. p.message = Message("GET_ATTRIBUTES") \/ p.message = Message("GET")
          BY <1>1, <3>1, <4>1 DEF requestGetPayload
        <4>. QED
          BY <4>2 DEF Commands
      <3>3. CASE r.method = "DELETE"
        <4>1. p = requestDeletePayload(r)
          BY <3>3 DEF requestPayload
        <4>2. p.message = Message("DELETE_ROW")
          BY <1>1, <3>1, <4>1 DEF requestDeletePayload
        <4>. QED
          BY <4>2 DEF Commands
      <3>4. CASE r.method = "PUT"
        <4>1. p = requestReplacePayload(r, bytes)
          BY <3>4 DEF requestPayload
        <4>2. p = RowPayload("REPLACE_ROWS", bytes, "read error", "ErrMissingRows", "ErrInvalidRows")
          BY <1>1, <4>1 DEF requestReplacePayload
        <4>3. /\ bytes.kind \in {"null", "json", "set"}
              /\ p = Accept([Message("REPLACE_ROWS") EXCEPT !.object = bytes.kind])
          BY <1>1, <4>2, BytesFacts DEF RowPayload
        <4>. QED
          BY <3>1, <4>3 DEF Commands
      <3>5. CASE r.method = "POST"
        <4>1. p = requestAddPayload(r, bytes)
          BY <3>5 DEF requestPayload
        <4>2. p = RowPayload("ADD_ROW", bytes, "ErrInvalidPayload", "ErrMissingRow", "ErrInvalidRow")
          BY <1>1, <4>1 DEF requestAddPayload
        <4>3. /\ bytes.kind \in {"null", "json", "set"}
              /\ p = Accept([Message("ADD_ROW") EXCEPT !.object = bytes.kind])
          BY <1>1, <4>2, BytesFacts DEF RowPayload
        <4>. QED
          BY <3>1, <4>3 DEF Commands
      <3>6. CASE r.method = "HEAD"
        BY <3>6, Delivered
      <3>. QED
        BY <1>3, <2>1, <3>2, <3>3, <3>4, <3>5, <3>6 DEF Methods
    <2>3. PICK command \in Commands \ {"TEST_AND_SET"}, object \in {"none", "null", "json", "set"} :
             \/ p.message = Message(command)
             \/ p.message = [Message(command) EXCEPT !.object = object]
      BY <2>2
    <2>4. p.message \in Messages /\ p.message.cid = NoHeaders /\ p.message.command = command
      BY <2>3, RowFacts
    <2>. QED
      BY <1>3, <2>1, <2>3, <2>4
  <1>. QED
    BY <1>2, <1>3

(* What a refusal is about *)
LEMMA RefusedPayload ==
  ASSUME NEW r \in Requests, NEW bytes \in BytesOf(r), requestPayload(r, bytes).refused
  PROVE  LET text == requestPayload(r, bytes).text
         IN  /\ text # "none"
             /\ text # "ErrUnsupportedMethod"
             /\ text = "ErrMissingTable" => r.method = "PUT" /\ r.parameter = "blank"
             /\ text = "ErrMissingRow" => r.method = "POST" /\ bytes.kind = "empty"
  <1> DEFINE p == requestPayload(r, bytes)
  <1>1. \A t : Refuse(t).text = t
    BY DEF Refuse
  <1>2. \A m : ~Accept(m).refused
    BY DEF Accept
  <1>3. CASE r.method = "GET"
    <2>1. p = requestGetPayload(r)
      BY <1>3 DEF requestPayload
    <2>2. p = Refuse("ErrEmptyNames")
      BY <1>2, <2>1 DEF requestGetPayload
    <2>. QED
      BY <1>1, <2>2
  <1>4. CASE r.method = "PATCH"
    <2>1. CASE bytes.kind = "error"
      <3>1. p = Refuse("read error")
        BY <1>4, <2>1 DEF requestPayload
      <3>2. p.text = "read error"
        BY <1>1, <3>1, Zenon
      <3>. QED
        BY <3>2
    <2>2. CASE bytes.kind # "error"
      <3>1. p = loadWDMP(bytes, r.headers)
        BY <1>4, <2>2 DEF requestPayload
      <3>2. \/ p = Refuse("BadRequest")
            \/ p = deduceSET(Unmarshalled(bytes), r.headers)
            \/ p = Refuse("ErrInvalidSetWDMP")
        BY <3>1 DEF loadWDMP
      <3>3. ASSUME p = deduceSET(Unmarshalled(bytes), r.headers)
            PROVE  p = Refuse("ErrNewCIDRequired")
        BY <1>2, <3>3 DEF deduceSET
      <3>. QED
        BY <1>1, <3>2, <3>3
    <2>. QED
      BY <2>1, <2>2
  <1>5. CASE r.method = "DELETE"
    <2>1. p = requestDeletePayload(r) /\ r.parameter # "absent"
      BY <1>5, Delivered DEF requestPayload
    <2>. QED
      BY <1>2, <2>1 DEF requestDeletePayload
  <1>6. CASE r.method = "PUT"
    <2>1. p = requestReplacePayload(r, bytes) /\ r.parameter \in {"absent", "blank", "given"}
      <3>1. r.parameter \in {"absent", "blank", "given"}
        BY DEF Requests, Sent, Request
      <3>. QED
        BY <1>6, <3>1 DEF requestPayload
    <2>2. \/ p = Refuse("ErrMissingTable") /\ r.parameter # "given"
          \/ p = RowPayload("REPLACE_ROWS", bytes, "read error", "ErrMissingRows", "ErrInvalidRows")
      BY <2>1 DEF requestReplacePayload
    <2>3. p = Refuse("ErrMissingTable") => r.parameter = "blank"
      BY <1>1, <1>2, <1>6, <2>1, <2>2, Delivered DEF RowPayload
    <2>4. p.text \in {"ErrMissingTable", "read error", "ErrMissingRows", "ErrInvalidRows"}
      BY <1>1, <1>2, <2>2 DEF RowPayload
    <2>5. p.text = "ErrMissingTable" => p = Refuse("ErrMissingTable")
      BY <1>1, <1>2, <2>2 DEF RowPayload
    <2>. QED
      BY <1>6, <2>3, <2>4, <2>5
  <1>7. CASE r.method = "POST"
    <2>1. p = requestAddPayload(r, bytes) /\ r.parameter # "absent"
      BY <1>7, Delivered DEF requestPayload
    <2>2. p = RowPayload("ADD_ROW", bytes, "ErrInvalidPayload", "ErrMissingRow", "ErrInvalidRow")
      BY <2>1 DEF requestAddPayload
    <2>3. \/ p = Refuse("ErrInvalidPayload")
          \/ p = Refuse("ErrMissingRow") /\ bytes.kind = "empty"
          \/ p = Refuse("ErrInvalidRow")
      BY <1>2, <2>2 DEF RowPayload
    <2>. QED
      BY <1>1, <1>7, <2>3
  <1>. QED
    BY <1>3, <1>4, <1>5, <1>6, <1>7, Delivered

-----------------------------------------------------------------------------
(* The inductive invariant *)

LoggedCommand(bytes, h) ==
    LET wdmp == loadWDMP(bytes, h) IN IF wdmp.refused THEN "" ELSE wdmp.message.command

(* Nothing is sent or answered before its time. *)
StagesInv ==
    /\ request \in Requests
    /\ stage \in {"capture", "decode", "sent", "refused"}
    /\ stage # "sent" => payload = NoMessage
    /\ stage = "sent" => payload.command \in Commands
    /\ stage = "refused" <=> error # "none"

(***************************************************************************)
(* Only a body that is not captured can still be found cut off when it is  *)
(* decoded; a captured one has lost its error, and the logged command is   *)
(* that of the bytes that are left.                                        *)
(***************************************************************************)
BodyInv ==
    /\ body \in BytesOf(request)
    /\ stage = "capture" => request.method = "PATCH" /\ logged = ""
    /\ request.method # "PATCH" => logged = "" /\ body \in {request.body, Bytes("error")}
    /\ request.method = "PATCH" /\ stage # "capture" =>
            body.kind # "error" /\ logged = LoggedCommand(body, request.headers)

IInv ==
    /\ StagesInv
    /\ BodyInv
    /\ CommandFitsEveryParameter
    /\ LoggedCommandIsSent
    /\ TestAndSetUsesHeaders
    /\ MuxFiltersRequests

(* captureWDMPParameters logs the command of a SET or nothing. *)
LEMMA LoggedCommands ==
  ASSUME NEW r \in Requests, NEW bytes \in BytesOf(r)
  PROVE  LoggedCommand(bytes, r.headers) \in {"", "SET", "SET_ATTRIBUTES", "TEST_AND_SET"}
  <1>1. r.headers \in Headers /\ (bytes.kind = "set" => bytes.params \in Params /\ bytes.cid \in BOOLEAN)
    BY RequestFacts, BytesFacts
  <1>2. CASE loadWDMP(bytes, r.headers).refused
    BY <1>2 DEF LoggedCommand
  <1>3. CASE ~loadWDMP(bytes, r.headers).refused
    <2>1. loadWDMP(bytes, r.headers).message \in SetMessages
      BY <1>1, <1>3, LoadFacts
    <2>2. loadWDMP(bytes, r.headers).message.command \in SetCommands \cup {""}
      BY <2>1 DEF SetMessages
    <2>. QED
      BY <1>3, <2>2 DEF LoggedCommand, SetCommands
  <1>. QED
    BY <1>2, <1>3

(* The type invariant is part of the inductive one. *)
LEMMA IInvTyped == IInv => TypeOK
  <1> SUFFICES ASSUME IInv PROVE TypeOK
    OBVIOUS
  <1>1. logged \in {"", "SET", "SET_ATTRIBUTES", "TEST_AND_SET"}
    <2>1. CASE stage = "capture" \/ request.method # "PATCH"
      BY <2>1 DEF IInv, BodyInv
    <2>2. CASE stage # "capture" /\ request.method = "PATCH"
      BY <2>2, LoggedCommands DEF IInv, StagesInv, BodyInv
    <2>. QED
      BY <2>1, <2>2
  <1>2. NoMessage.command \notin Commands
    BY DEF NoMessage, Message, Commands
  <1>. QED
    BY <1>1, <1>2 DEF IInv, StagesInv, TypeOK

(* No request has been decoded or refused at first. *)
LEMMA InitInv == Init => IInv
  <1> SUFFICES ASSUME Init PROVE IInv
    OBVIOUS
  <1>1. StagesInv
    BY DEF Init, StagesInv
  <1>2. BodyInv
    BY DEF Init, BodyInv, BytesOf
  <1>3. MuxFiltersRequests /\ stage # "sent"
    BY DEF Init, MuxFiltersRequests
  <1>. QED
    BY <1>1, <1>2, <1>3 DEF IInv, CommandFitsEveryParameter, LoggedCommandIsSent, TestAndSetUsesHeaders

(* A step that sends nothing keeps what is said of the messages. *)
LEMMA NothingSent ==
  ASSUME stage' # "sent"
  PROVE  CommandFitsEveryParameter' /\ LoggedCommandIsSent' /\ TestAndSetUsesHeaders'
  BY DEF CommandFitsEveryParameter, LoggedCommandIsSent, TestAndSetUsesHeaders

(* A body can only be lost before its first reader. *)
LEMMA BodyLostInv ==
  ASSUME IInv, BodyLost
  PROVE  IInv'
  <1> USE DEF IInv, BodyLost
  <1>1. StagesInv'
    BY DEF StagesInv
  <1>2. BodyInv'
    BY DEF BodyInv, BytesOf
  <1>3. MuxFiltersRequests' /\ stage' # "sent"
    BY DEF MuxFiltersRequests
  <1>. QED
    BY <1>1, <1>2, <1>3, NothingSent

(* What is put back after the capture is what the log was made from. *)
LEMMA CaptureInv ==
  ASSUME IInv, captureWDMPParameters
  PROVE  IInv'
  <1>1. /\ stage = "capture" /\ stage' = "decode"
        /\ body' \in Read
        /\ logged' = LoggedCommand(body', request.headers)
        /\ UNCHANGED <<request, payload, error>>
    BY DEF captureWDMPParameters, CaptureWith, LoggedCommand
  <1>2. StagesInv'
    BY <1>1 DEF IInv, StagesInv
  <1>3. BodyInv'
    <2>1. request.method = "PATCH" /\ request \in Requests /\ body \in BytesOf(request)
      BY <1>1 DEF IInv, BodyInv, StagesInv
    <2>2. request.body.kind # "error"
      BY <2>1, RequestFacts
    <2>3. body' \in BytesOf(request) /\ body'.kind # "error"
      <3>1. CASE body.kind = "error"
        BY <1>1, <2>2, <3>1 DEF Read, BytesOf, Bytes
      <3>2. CASE body.kind # "error"
        BY <1>1, <2>1, <3>2 DEF Read
      <3>. QED
        BY <3>1, <3>2
    <2>. QED
      BY <1>1, <2>1, <2>3 DEF BodyInv, BytesOf
  <1>4. MuxFiltersRequests' /\ stage' # "sent"
    BY <1>1 DEF IInv, MuxFiltersRequests
  <1>. QED
    BY <1>2, <1>3, <1>4, NothingSent DEF IInv

(* A refusal leaves the body and the log as they are. *)
LEMMA RefusedInv ==
  ASSUME IInv, stage = "decode", NEW text, Refused(text), text # "none",
         text # "ErrUnsupportedMethod",
         text = "ErrMissingTable" => request.method = "PUT" /\ request.parameter = "blank",
         text = "ErrMissingRow" => request.method = "POST" /\ request.body.kind = "empty"
  PROVE  IInv'
  <1> USE DEF IInv, Refused
  <1>1. StagesInv'
    BY DEF StagesInv
  <1>2. BodyInv'
    BY DEF BodyInv, BytesOf, LoggedCommand
  <1>3. MuxFiltersRequests' /\ stage' # "sent"
    BY DEF MuxFiltersRequests
  <1>. QED
    BY <1>1, <1>2, <1>3, NothingSent

(* What decodeRequest sends or refuses is made from the body that was left to it. *)
LEMMA DecodeInv ==
  ASSUME IInv, decodeRequest
  PROVE  IInv'
  <1> DEFINE p == requestPayload(request, body)
  <1>1. stage = "decode" /\ request \in Requests /\ body \in BytesOf(request) /\ error = "none"
    BY DEF IInv, StagesInv, BodyInv, decodeRequest
  <1>2. \/ p.refused /\ Refused(p.text)
        \/ ~p.refused /\ Refused("BadRequest")
        \/ /\ ~p.refused
           /\ stage' = "sent"
           /\ payload' = Marshal(p.message)
           /\ UNCHANGED <<request, body, logged, error>>
    BY DEF decodeRequest
  <1>3. CASE p.refused /\ Refused(p.text)
    <2>1. /\ p.text # "none"
          /\ p.text # "ErrUnsupportedMethod"
          /\ p.text = "ErrMissingTable" => request.method = "PUT" /\ request.parameter = "blank"
          /\ p.text = "ErrMissingRow" => request.method = "POST" /\ body.kind = "empty"
      BY <1>1, <1>3, RefusedPayload
    <2>2. ASSUME request.method = "POST", body.kind = "empty"
          PROVE  request.body.kind = "empty"
      <3>1. body \in {request.body, Bytes("error")}
        BY <2>2 DEF IInv, BodyInv
      <3>2. Bytes("error").kind # "empty"
        BY DEF Bytes
      <3>. QED
        BY <2>2, <3>1, <3>2
    <2>. QED
      BY <1>1, <1>3, <2>1, <2>2, RefusedInv
  <1>4. CASE ~p.refused /\ Refused("BadRequest")
    BY <1>1, <1>4, RefusedInv
  <1>5. CASE /\ ~p.refused
             /\ stage' = "sent"
             /\ payload' = Marshal(p.message)
             /\ UNCHANGED <<request, body, logged, error>>
    <2> DEFINE m == p.message
    <2>1. /\ m \in Messages
          /\ m.command \in Commands
          /\ m.cid = request.headers
          /\ m.command = "TEST_AND_SET" => ~m.bodyCid
          /\ m.command = "TEST_AND_SET" <=> request.headers # NoHeaders
          /\ request.method = "PATCH" => /\ ~loadWDMP(body, request.headers).refused
                                        /\ m = loadWDMP(body, request.headers).message
      BY <1>1, <1>5, AcceptedPayload
    <2>2. /\ payload'.command = m.command
          /\ payload'.cid = m.cid
          /\ payload'.bodyCid = m.bodyCid
      BY <1>5, <2>1, MarshalFields
    <2> HIDE DEF m
    <2>3. StagesInv'
      BY <1>1, <1>5, <2>1, <2>2 DEF StagesInv
    <2>4. BodyInv'
      BY <1>1, <1>5 DEF IInv, BodyInv, BytesOf, LoggedCommand
    <2>5. MuxFiltersRequests'
      BY <1>1, <1>5 DEF MuxFiltersRequests
    <2>6. TestAndSetUsesHeaders'
      BY <1>5, <2>1, <2>2 DEF TestAndSetUsesHeaders
    <2>7. request.method = "PATCH" => logged = m.command
      BY <1>1, <2>1 DEF IInv, BodyInv, LoggedCommand
    <2>8. LoggedCommandIsSent'
      BY <1>5, <2>2, <2>7 DEF LoggedCommandIsSent
    <2>9. CommandFitsEveryParameter'
      <3>1. SUFFICES ASSUME request.body.kind = "set", m.command # "TEST_AND_SET"
                     PROVE  \A i \in DOMAIN request.body.params :
                              /\ request.body.params[i].name = "given"
                              /\ AttributesOnly(request.body.params[i])
                                    <=> m.command = "SET_ATTRIBUTES"
        BY <1>5, <2>2 DEF CommandFitsEveryParameter
      <3>2. request.method = "PATCH" /\ request.headers = NoHeaders
        BY <1>1, <2>1, <3>1, RequestFacts
      <3>3. ~loadWDMP(body, NoHeaders).refused /\ m = loadWDMP(body, NoHeaders).message
        BY <2>1, <3>2
      <3>4. /\ body.kind = "set" => body = request.body
            /\ body.kind = "set" => body.params \in Params /\ body.cid \in BOOLEAN
        BY <1>1, BytesFacts
      <3>. QED
        BY <3>3, <3>4, SetIsUniform
    <2>. QED
      BY <2>3, <2>4, <2>5, <2>6, <2>8, <2>9 DEF IInv
  <1>. QED
    BY <1>2, <1>3, <1>4, <1>5

(* Every step keeps the inductive invariant. *)
LEMMA StepInv == IInv /\ [Next]_vars => IInv'
  <1> SUFFICES ASSUME IInv, [Next]_vars PROVE IInv'
    OBVIOUS
  <1>1. CASE BodyLost
    BY <1>1, BodyLostInv
  <1>2. CASE captureWDMPParameters
    BY <1>2, CaptureInv
  <1>3. CASE InvalidService
    BY <1>3, RefusedInv DEF InvalidService
  <1>4. CASE decodeRequest
    BY <1>4, DecodeInv
  <1>5. CASE Rest \/ UNCHANGED vars
    BY <1>5 DEF Rest, vars, IInv, StagesInv, BodyInv, BytesOf, LoggedCommand,
       CommandFitsEveryParameter, LoggedCommandIsSent, TestAndSetUsesHeaders, MuxFiltersRequests
  <1>. QED
    BY <1>1, <1>2, <1>3, <1>4, <1>5 DEF Next

(* The invariant holds in every reachable state. *)
LEMMA InvHolds == Spec => []IInv
  BY InitInv, StepInv, PTL DEF Spec

-----------------------------------------------------------------------------

(* The decoder's stages, its log and its refusals are consistent, whatever the request. *)
THEOREM TypeCorrect == Spec => []TypeOK
  BY InvHolds, IInvTyped, PTL

(***************************************************************************)
(* deduceSET looks at the first parameter only, and isValidSetWDMP makes it*)
(* fit all the others, however many there are.                             *)
(***************************************************************************)
THEOREM CommandFits == Spec => []CommandFitsEveryParameter
  <1>1. IInv => CommandFitsEveryParameter
    BY DEF IInv
  <1>. QED
    BY <1>1, InvHolds, PTL

(* captureWDMPParameters logs the command that decodeRequest sends. *)
THEOREM LogAgrees == Spec => []LoggedCommandIsSent
  <1>1. IInv => LoggedCommandIsSent
    BY DEF IInv
  <1>. QED
    BY <1>1, InvHolds, PTL

(* deduceSET takes the identifiers from the headers, for TEST_AND_SET and for nothing else. *)
THEOREM IdentifiersFromHeaders == Spec => []TestAndSetUsesHeaders
  <1>1. IInv => TestAndSetUsesHeaders
    BY DEF IInv
  <1>. QED
    BY <1>1, InvHolds, PTL

(* ConfigHandler's two routes leave the decoder nothing to refuse but the client's data. *)
THEOREM RoutesFilter == Spec => []MuxFiltersRequests
  <1>1. IInv => MuxFiltersRequests
    BY DEF IInv
  <1>. QED
    BY <1>1, InvHolds, PTL

=============================================================================
