-------------------------------- MODULE Ingress --------------------------------
(***************************************************************************)
(* A request on the way to its handler: the primary or the alternate router*)
(* matches it, the authentication chain that the route carries (auth.go)   *)
(* lets it pass or answers it, and fixV2Duration tells version 2 apart.    *)
(* What happens then is Gateway's (stat, config) or WebhookApi's (hooks).  *)
(***************************************************************************)
EXTENDS Startup

CONSTANTS
    Requests,  \* requests a client may send
    NoRequest, \* none yet, or one whose path and headers are not looked at any more
    Pending    \* nothing yet

(***************************************************************************)
(* scheme: of the Authorization header; raw: a text follows the scheme.    *)
(* signed: by a method of RSA; kid: the header names a key; valid: the     *)
(* signature and the times pass the checks of the jwt library (external).  *)
(***************************************************************************)
RequestType ==
    [port : {"primary", "alternate"}, method : Methods, version : {"v1", "v2", "v3"},
     path : Seq(STRING), scheme : {"none", "Bearer", "Basic", "other"}, raw : BOOLEAN,
     signed : BOOLEAN, kid : BOOLEAN, valid : BOOLEAN]

ASSUME IngressAssumption ==
    /\ Requests \subseteq RequestType
    /\ NoRequest \notin Requests

VARIABLES
    request,   \* the inbound request
    stage,     \* where it is
    service,   \* the handler that serves it, "none" before one does
    admitted,  \* the authentication chain has put a token into the context, checked or not
    status     \* the status code written to the client

ingress == <<request, stage, service, admitted, status>>

IngressStages == {"idle", "route", "authenticate", "arrive", "hooks", "done"}
Services == {"none", "stat", "config", "addHook", "addV2Hook", "getHooks"}

IngressInit ==
    /\ StartupInit
    /\ request = NoRequest
    /\ stage = "idle"
    /\ service = "none"
    /\ admitted = FALSE
    /\ status = Pending

(* The codes this program answers with on its own account *)
OK == "200"
BadRequest == "400"
Unauthorized == "401"
Internal == "500"

Stage(from, to) == stage = from /\ stage' = to

-----------------------------------------------------------------------------

(* provideURLPrefix: both versions, as a variable of the path, or version 3 only *)
URLPrefix == IF config.previousVersionSupport THEN {"v2", "v3"} ELSE {"v3"}

(* Mutant: both versions, but not as a variable. *)
UnnamedVersion(r) == ""

(* mux.Vars(r)["version"] *)
Version(r) == IF config.previousVersionSupport THEN r.version ELSE ""

RouteIn(table, r) ==
    IF r.version \in URLPrefix THEN Match(table, r.method, r.path) ELSE NotFound

(* The alternate router has only the API router as a handler. *)
Routed(port, r) ==
    IF port = "primary" \/ RouteIn(alternate, r).handler = "api"
    THEN RouteIn(api, r)
    ELSE RouteIn(alternate, r)

Unmatched == {NotFound.handler, MethodNotAllowed.handler}

(* A client connects to one of the two servers; the bound is one request. *)
Arrive ==
    /\ phase = "running"
    /\ Stage("idle", "route")
    /\ request' \in Requests
    /\ UNCHANGED <<service, admitted, status>>
    /\ UNCHANGED startup

(* The router itself answers. *)
NotRouted ==
    /\ Stage("route", "done")
    /\ Routed(request.port, request).handler \in Unmatched
    /\ status' = Routed(request.port, request).handler
    /\ UNCHANGED <<request, service, admitted>>
    /\ UNCHANGED startup

MatchRoute ==
    /\ Stage("route", "authenticate")
    /\ Routed(request.port, request).handler \notin Unmatched
    /\ UNCHANGED <<request, service, admitted, status>>
    /\ UNCHANGED startup

(* The key function of Parse: an RSA method, a key id, and a key of RSA that it resolves to *)
KeyFound(r, key) == r.signed /\ r.kid /\ key = "RSA"

(* External: the resolver's answer for a key id *)
Keys == {"RSA", "other", "error"}

(***************************************************************************)
(* JWTTokenParser.Parse.  jwt.ParseWithClaims returns a valid token or an  *)
(* error; whatever the error was, it becomes ErrInvalidCredentials.        *)
(***************************************************************************)
Parse(r, key) ==
    CASE ~r.raw -> "missing"
      [] r.raw /\ KeyFound(r, key) /\ r.valid -> "token"
      [] OTHER -> "invalid"

(***************************************************************************)
(* External: basculehttp's parsers for the schemes it was configured with. *)
(* It may refuse a Bearer header without a text before it calls Parse.  Of *)
(* Basic credentials it looks at the form only: WithBasic has no validator *)
(* and nothing in the program compares them with anything.                 *)
(***************************************************************************)
Outcomes(r) ==
    CASE r.scheme = "none" -> {"missing"}
      [] r.scheme = "Bearer" /\ r.raw -> {Parse(r, key) : key \in Keys}
      [] r.scheme = "Bearer" /\ ~r.raw -> {Parse(r, key) : key \in Keys} \cup {"bad", "invalid"}
      [] r.scheme = "Basic" -> {"token", "bad", "invalid"}
      [] OTHER -> {"missing", "bad", "invalid", "error"}

(* The status coder of the middleware *)
StatusOf(outcome) ==
    CASE outcome \in {"missing", "bad"} -> Unauthorized
      [] outcome = "invalid" -> BadRequest
      [] outcome = "error" -> Internal

(* The chain calls the handler behind it; a route without the chain is served at once. *)
Authenticate ==
    LET route == Routed(request.port, request)
    IN  /\ stage = "authenticate"
        /\ route.authenticated => "token" \in Outcomes(request)
        /\ admitted' = route.authenticated
        /\ service' = IF route.handler = "addHook" /\ Version(request) = "v2"
                      THEN "addV2Hook" ELSE route.handler
        /\ stage' = IF route.handler \in {"stat", "config"} THEN "arrive" ELSE "hooks"
        /\ UNCHANGED <<request, status>>
        /\ UNCHANGED startup

Deny ==
    /\ Stage("authenticate", "done")
    /\ Routed(request.port, request).authenticated
    /\ \E outcome \in Outcomes(request) \ {"token"} : status' = StatusOf(outcome)
    /\ UNCHANGED <<request, service, admitted>>
    /\ UNCHANGED startup

(* The webhook handlers answer (WebhookApi). *)
HooksAnswer ==
    /\ Stage("hooks", "done")
    /\ status' \in {OK, BadRequest, Internal}
    /\ UNCHANGED <<request, service, admitted>>
    /\ UNCHANGED startup

IngressNext ==
    \/ StartupNext /\ UNCHANGED ingress
    \/ Arrive
    \/ NotRouted
    \/ MatchRoute
    \/ Authenticate
    \/ Deny
    \/ HooksAnswer

-----------------------------------------------------------------------------

IngressTypeOK ==
    /\ StartupTypeOK
    /\ request \in Requests \cup {NoRequest}
    /\ service \in Services
    /\ admitted \in BOOLEAN

(***************************************************************************)
(* The alternate server knows five paths and no methods and hands the rest *)
(* to the API router: whatever the request and the configuration, it is    *)
(* routed as on the primary server, not found and not allowed included.    *)
(***************************************************************************)
ServersAgree ==
    stage = "route" => Routed("alternate", request) = Routed("primary", request)

(***************************************************************************)
(* "Must be called before translation.ConfigHandler due to mux path        *)
(* specificity": a GET of a device's stat is served by the stat service,   *)
(* on either server and under either version, though a config route with   *)
(* the service "stat" matches it too.                                      *)
(***************************************************************************)
StatServesStat ==
    stage = "arrive" /\ request.method = "GET" =>
        (service = "stat" <=> request.path[3] = "stat")

(***************************************************************************)
(* No route is without the authentication chain: a handler runs only for a *)
(* request with Bearer or Basic credentials, and a Bearer token that gets  *)
(* there has an RSA signature that was checked with the key it names.  Of  *)
(* Basic credentials this promises nothing but that they can be parsed.    *)
(***************************************************************************)
BearerTokensAreVerified ==
    stage \in {"arrive", "hooks"} =>
        /\ admitted
        /\ request.scheme \in {"Bearer", "Basic"}
        /\ request.scheme = "Bearer" =>
            request.raw /\ request.signed /\ request.kid /\ request.valid

(***************************************************************************)
(* fixV2Duration recognises version 2 by a variable of the path, which only*)
(* the prefix for both versions has: a registration reaches the version 2  *)
(* handler exactly when it was sent to a version 2 URL, on either server.  *)
(***************************************************************************)
V2HooksAreFixed ==
    stage = "hooks" /\ request.method = "POST" /\ request.path = <<"hook">> =>
        (service = "addV2Hook" <=> request.version = "v2")

=============================================================================
