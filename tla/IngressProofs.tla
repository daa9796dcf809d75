----------------------------- MODULE IngressProofs -----------------------------
(***************************************************************************)
(* What the route tables do with every path and method, and what the steps *)
(* of Startup and Ingress keep, for any configurations and any requests.   *)
(* The theorems that follow are GatewayProofs'.                            *)
(***************************************************************************)
EXTENDS Ingress, TLAPS

Primary == statRoutes \o configRoutes

(* The API router's table once every route is registered *)
Registered == IF config.webhook = "on" THEN Primary \o webhookRoutes ELSE Primary

-----------------------------------------------------------------------------
(* The tables *)

(* A table is appended to a table. *)
LEMMA Appended ==
  ASSUME NEW S, NEW s \in Seq(S), NEW t \in Seq(S)
  PROVE  /\ s \o t \in Seq(S)
         /\ Len(s \o t) = Len(s) + Len(t)
         /\ \A i \in 1 .. Len(s) : (s \o t)[i] = s[i]
         /\ \A i \in 1 .. Len(t) : (s \o t)[Len(s) + i] = t[i]
  OBVIOUS

(* The routes of the two services, in their order *)
LEMMA PrimaryTable ==
  ASSUME NEW S, statRoutes \in Seq(S), configRoutes \in Seq(S)
  PROVE  /\ Primary \in Seq(S)
         /\ Len(Primary) = 3
         /\ Primary[1] = statRoutes[1]
         /\ Primary[2] = configRoutes[1]
         /\ Primary[3] = configRoutes[2]
  <1>1. Len(statRoutes) = 1 /\ Len(configRoutes) = 2
    BY DEF statRoutes, configRoutes
  <1>2. /\ Primary \in Seq(S)
        /\ Len(Primary) = Len(statRoutes) + Len(configRoutes)
        /\ \A i \in 1 .. Len(statRoutes) : Primary[i] = statRoutes[i]
        /\ \A i \in 1 .. Len(configRoutes) : Primary[Len(statRoutes) + i] = configRoutes[i]
    BY Appended DEF Primary
  <1>3. 1 \in 1 .. 1 /\ 1 \in 1 .. 2 /\ 2 \in 1 .. 2 /\ 1 + 1 = 2 /\ 1 + 2 = 3
    OBVIOUS
  <1>4. Primary[1] = statRoutes[1]
    BY <1>1, <1>2, <1>3
  <1>5. Primary[2] = configRoutes[1]
    BY <1>1, <1>2, <1>3
  <1>6. Primary[3] = configRoutes[2]
    BY <1>1, <1>2, <1>3
  <1>. QED
    BY <1>1, <1>2, <1>3, <1>4, <1>5, <1>6

(* The routes of the webhooks come after them. *)
LEMMA RegisteredTable ==
  /\ DOMAIN Registered = IF config.webhook = "on" THEN 1 .. 5 ELSE 1 .. 3
  /\ Registered[1] = Route(StatPath, {"GET"}, "stat", TRUE)
  /\ Registered[2] = Route(ServicePath, {"GET", "PATCH"}, "config", TRUE)
  /\ Registered[3] = Route(ParameterPath, {"DELETE", "PUT", "POST"}, "config", TRUE)
  /\ config.webhook = "on" =>
        /\ Registered[4] = Route(<<"hook">>, {"POST"}, "addHook", TRUE)
        /\ Registered[5] = Route(<<"hooks">>, Methods, "getHooks", TRUE)
  <1> DEFINE S == {statRoutes[1], configRoutes[1], configRoutes[2],
                   webhookRoutes[1], webhookRoutes[2]}
             full == Primary \o webhookRoutes
  <1>1. /\ statRoutes \in Seq(S)
        /\ configRoutes \in Seq(S)
        /\ webhookRoutes \in Seq(S) /\ Len(webhookRoutes) = 2
    BY DEF statRoutes, configRoutes, webhookRoutes
  <1> HIDE DEF S
  <1>2. /\ Primary \in Seq(S)
        /\ Len(Primary) = 3
        /\ Primary[1] = statRoutes[1]
        /\ Primary[2] = configRoutes[1]
        /\ Primary[3] = configRoutes[2]
    BY <1>1, PrimaryTable
  <1>3. /\ full \in Seq(S)
        /\ Len(full) = Len(Primary) + Len(webhookRoutes)
        /\ \A i \in 1 .. Len(Primary) : full[i] = Primary[i]
        /\ \A i \in 1 .. Len(webhookRoutes) : full[Len(Primary) + i] = webhookRoutes[i]
    <2>1. Primary \in Seq(S) /\ webhookRoutes \in Seq(S)
      BY <1>1, <1>2
    <2>. QED
      BY <2>1, Appended
  <1> HIDE DEF full
  <1>4. Len(full) = 5 /\ full[1] = Primary[1] /\ full[2] = Primary[2] /\ full[3] = Primary[3]
    BY <1>1, <1>2, <1>3
  <1>5. full[3 + 1] = webhookRoutes[1] /\ full[3 + 2] = webhookRoutes[2]
    BY <1>1, <1>2, <1>3
  <1>6. /\ statRoutes[1] = Route(StatPath, {"GET"}, "stat", TRUE)
        /\ configRoutes[1] = Route(ServicePath, {"GET", "PATCH"}, "config", TRUE)
        /\ configRoutes[2] = Route(ParameterPath, {"DELETE", "PUT", "POST"}, "config", TRUE)
        /\ webhookRoutes[1] = Route(<<"hook">>, {"POST"}, "addHook", TRUE)
        /\ webhookRoutes[2] = Route(<<"hooks">>, Methods, "getHooks", TRUE)
    BY DEF statRoutes, configRoutes, webhookRoutes
  <1>7. CASE config.webhook = "on"
    <2>1. Registered = full
      BY <1>7 DEF Registered, full
    <2>2. DOMAIN full = 1 .. 5
      <3>1. full \in Seq(S) /\ Len(full) = 5
        BY <1>3, <1>4
      <3>. QED
        BY <3>1
    <2>3. full[4] = webhookRoutes[1] /\ full[5] = webhookRoutes[2]
      BY <1>5
    <2>. QED
      BY <1>2, <1>4, <1>6, <1>7, <2>1, <2>2, <2>3, Zenon
  <1>8. CASE config.webhook # "on"
    <2>1. Registered = Primary
      BY <1>8 DEF Registered
    <2>2. DOMAIN Primary = 1 .. 3
      BY <1>2
    <2>. QED
      BY <1>2, <1>6, <1>8, <2>1, <2>2, Zenon
  <1>. QED
    BY <1>7, <1>8

(* The alternate router has each path once more, for every method. *)
LEMMA AlternateTable ==
  /\ DOMAIN alternateRoutes = 1 .. 5
  /\ \A i \in 1 .. 5 : alternateRoutes[i].methods = Methods /\ alternateRoutes[i].handler = "api"
  /\ alternateRoutes[1].path = ServicePath
  /\ alternateRoutes[2].path = ParameterPath
  /\ alternateRoutes[3].path = StatPath
  /\ alternateRoutes[4].path = <<"hook">>
  /\ alternateRoutes[5].path = <<"hooks">>
  <1>1. /\ DOMAIN alternateRoutes = 1 .. 5
        /\ alternateRoutes[1] = Route(ServicePath, Methods, "api", FALSE)
        /\ alternateRoutes[2] = Route(ParameterPath, Methods, "api", FALSE)
        /\ alternateRoutes[3] = Route(StatPath, Methods, "api", FALSE)
        /\ alternateRoutes[4] = Route(<<"hook">>, Methods, "api", FALSE)
        /\ alternateRoutes[5] = Route(<<"hooks">>, Methods, "api", FALSE)
    BY DEF alternateRoutes
  <1>. QED
    BY <1>1 DEF Route

-----------------------------------------------------------------------------
(* Matching *)

(* There is a first among some of a few. *)
LEMMA FirstOf ==
  ASSUME NEW S \in SUBSET (1 .. 5), S # {}
  PROVE  \E i \in S : \A j \in S : i <= j
  <1>1. \A j \in S : j \in 1 .. 5
    OBVIOUS
  <1>2. CASE 1 \in S
    BY <1>1, <1>2
  <1>3. CASE 1 \notin S /\ 2 \in S
    BY <1>1, <1>3
  <1>4. CASE S \cap {1, 2} = {} /\ 3 \in S
    BY <1>1, <1>4
  <1>5. CASE S \cap {1, 2, 3} = {} /\ 4 \in S
    BY <1>1, <1>5
  <1>6. CASE S \cap {1, 2, 3, 4} = {}
    <2>1. \A j \in S : j = 5
      BY <1>1, <1>6
    <2>2. PICK i \in S : TRUE
      OBVIOUS
    <2>3. i = 5 /\ \A j \in S : i <= j
      BY <2>1
    <2>. QED
      BY <2>3
  <1>. QED
    BY <1>2, <1>3, <1>4, <1>5, <1>6

(* A router answers itself, or serves the first route that path and method match. *)
LEMMA MatchPicks ==
  ASSUME NEW table, DOMAIN table \subseteq 1 .. 5, NEW method, NEW path
  PROVE  \/ /\ Match(table, method, path) = NotFound
            /\ \A i \in DOMAIN table : PathMatches(table[i], path) => method \notin table[i].methods
         \/ /\ Match(table, method, path) = MethodNotAllowed
            /\ \E i \in DOMAIN table : PathMatches(table[i], path)
            /\ \A i \in DOMAIN table : PathMatches(table[i], path) => method \notin table[i].methods
         \/ \E i \in DOMAIN table :
                /\ Match(table, method, path) = table[i]
                /\ PathMatches(table[i], path)
                /\ method \in table[i].methods
                /\ \A j \in DOMAIN table :
                      PathMatches(table[j], path) /\ method \in table[j].methods => i <= j
  <1> DEFINE onPath == {i \in DOMAIN table : PathMatches(table[i], path)}
             hits == {i \in onPath : method \in table[i].methods}
             first == CHOOSE i \in hits : \A j \in hits : i <= j
  <1>1. CASE hits # {}
    <2>1. \E i \in hits : \A j \in hits : i <= j
      <3>1. hits \in SUBSET (1 .. 5)
        OBVIOUS
      <3>. QED
        BY <1>1, <3>1, FirstOf
    <2>2. first \in hits /\ \A j \in hits : first <= j
      BY <2>1
    <2>3. Match(table, method, path) = table[first]
      BY <1>1 DEF Match
    <2>. QED
      BY <2>2, <2>3
  <1>2. CASE hits = {} /\ Len(table) \in onPath
    <2>1. Match(table, method, path) = MethodNotAllowed
      BY <1>2 DEF Match
    <2>. QED
      BY <1>2, <2>1
  <1>3. CASE hits = {} /\ Len(table) \notin onPath
    <2>1. Match(table, method, path) = NotFound
      BY <1>3 DEF Match
    <2>. QED
      BY <1>3, <2>1
  <1>. QED
    BY <1>1, <1>2, <1>3

-----------------------------------------------------------------------------
(* Routing through the two servers *)

(* A handler is reached on the first route of the API router, under a registered prefix. *)
LEMMA ServedRoute ==
  ASSUME NEW r \in Requests, NEW port, api = Registered, alternate = alternateRoutes,
         Routed(port, r).handler \notin Unmatched
  PROVE  /\ r.version \in URLPrefix
         /\ \E i \in DOMAIN Registered :
                /\ Routed(port, r) = Registered[i]
                /\ PathMatches(Registered[i], r.path)
                /\ r.method \in Registered[i].methods
                /\ \A j \in DOMAIN Registered :
                      PathMatches(Registered[j], r.path) /\ r.method \in Registered[j].methods
                          => i <= j
  <1>1. NotFound.handler \in Unmatched /\ MethodNotAllowed.handler \in Unmatched
    BY DEF Unmatched
  <1>2. RouteIn(alternate, r).handler \in Unmatched \cup {"api"}
    <2>1. DOMAIN alternateRoutes \subseteq 1 .. 5
      BY AlternateTable
    <2>2. Match(alternateRoutes, r.method, r.path).handler \in Unmatched \cup {"api"}
      BY <1>1, <2>1, AlternateTable, MatchPicks
    <2>. QED
      BY <1>1, <2>2 DEF RouteIn
  <1>3. Routed(port, r) = RouteIn(api, r)
    BY <1>2 DEF Routed
  <1>4. r.version \in URLPrefix /\ Routed(port, r) = Match(Registered, r.method, r.path)
    BY <1>1, <1>3 DEF RouteIn
  <1>5. DOMAIN Registered \subseteq 1 .. 5
    BY RegisteredTable
  <1>. QED
    BY <1>1, <1>4, <1>5, MatchPicks

(* Every path of the API router is one of the alternate router. *)
LEMMA AlternateCovers ==
  ASSUME NEW path, NEW i \in DOMAIN Registered, PathMatches(Registered[i], path)
  PROVE  \E j \in DOMAIN alternateRoutes : PathMatches(alternateRoutes[j], path)
  <1>1. \E j \in DOMAIN alternateRoutes : alternateRoutes[j].path = Registered[i].path
    <2>1. DOMAIN Registered = IF config.webhook = "on" THEN 1 .. 5 ELSE 1 .. 3
      BY RegisteredTable
    <2>2. CASE i = 1
      BY <2>2, RegisteredTable, AlternateTable DEF Route
    <2>3. CASE i = 2
      BY <2>3, RegisteredTable, AlternateTable DEF Route
    <2>4. CASE i = 3
      BY <2>4, RegisteredTable, AlternateTable DEF Route
    <2>5. CASE i = 4 /\ config.webhook = "on"
      BY <2>5, RegisteredTable, AlternateTable DEF Route
    <2>6. CASE i = 5 /\ config.webhook = "on"
      BY <2>6, RegisteredTable, AlternateTable DEF Route
    <2>. QED
      BY <2>1, <2>2, <2>3, <2>4, <2>5, <2>6
  <1>. QED
    BY <1>1 DEF PathMatches

(***************************************************************************)
(* What the alternate router does not know the API router does not know    *)
(* either, and it never finds a method wrong (r.method is one of Methods): *)
(* both servers route alike.                                               *)
(***************************************************************************)
LEMMA SameRoute ==
  ASSUME NEW r \in Requests, api = Registered, alternate = alternateRoutes
  PROVE  Routed("alternate", r) = Routed("primary", r)
  <1>1. CASE RouteIn(alternate, r).handler = "api"
    BY <1>1 DEF Routed
  <1>2. CASE RouteIn(alternate, r).handler # "api" /\ r.version \in URLPrefix
    <2>1. r.method \in Methods
      BY IngressAssumption DEF RequestType
    <2>2. DOMAIN alternateRoutes \subseteq 1 .. 5 /\ DOMAIN Registered \subseteq 1 .. 5
      BY AlternateTable, RegisteredTable
    <2>3. /\ Match(alternateRoutes, r.method, r.path) = NotFound
          /\ \A j \in DOMAIN alternateRoutes : ~PathMatches(alternateRoutes[j], r.path)
      <3>1. Match(alternateRoutes, r.method, r.path).handler # "api"
        BY <1>2 DEF RouteIn
      <3>. QED
        BY <2>1, <2>2, <3>1, AlternateTable, MatchPicks
    <2>4. \A i \in DOMAIN Registered : ~PathMatches(Registered[i], r.path)
      BY <2>3, AlternateCovers
    <2>5. Match(Registered, r.method, r.path) = NotFound
      BY <2>2, <2>4, MatchPicks
    <2>. QED
      BY <1>2, <2>3, <2>5 DEF Routed, RouteIn
  <1>3. CASE RouteIn(alternate, r).handler # "api" /\ r.version \notin URLPrefix
    BY <1>3 DEF Routed, RouteIn
  <1>. QED
    BY <1>1, <1>2, <1>3

-----------------------------------------------------------------------------
(* The invariant of Startup: how far the tables and the services are at each step *)

Building == {"setup", "version", "provide", "primary", "webhooks", "alternate", "run"}

StartupInv ==
    /\ config \in Configs
    /\ phase \in Phases
    /\ exitCode \in 0 .. 2
    /\ acquirers \in [{"stat", "config"} -> {"none", "basic", "jwt"}]
    /\ phase = "webhooks" => api = Primary
    /\ phase \in {"alternate", "run", "running"} => api = Registered
    /\ phase \in {"run", "running"} => alternate = alternateRoutes
    /\ phase \in {"webhooks", "alternate", "run", "running"} =>
            /\ acquirers.stat = createAuthAcquirer(config.auth)
            /\ acquirers.config = createAuthAcquirer(config.auth)

(* Before setup no table is registered and no acquirer built. *)
LEMMA StartupInitInv == StartupInit => StartupInv
  BY DEF StartupInit, StartupInv, Phases

(* A step of the start keeps it, and is not one of a running process. *)
LEMMA StartupStepInv ==
  ASSUME StartupInv, StartupNext
  PROVE  StartupInv' /\ phase \in Building
  <1> USE DEF StartupInv, Phases, Building, Proceed, Exit
  <1>1. CASE SetupFails
    BY <1>1 DEF SetupFails
  <1>2. CASE setup
    BY <1>2 DEF setup
  <1>3. CASE printVersion
    BY <1>3 DEF printVersion
  <1>4. CASE NewApp
    BY <1>4 DEF NewApp
  <1>5. CASE createAuthMiddleware
    BY <1>5 DEF createAuthMiddleware
  <1>6. CASE handlePrimaryEndpoint
    <2> DEFINE acquirer == createAuthAcquirer(config.auth)
    <2>1. acquirer \in {"none", "basic", "jwt"}
      BY DEF createAuthAcquirer
    <2>2. /\ phase = "primary" /\ phase' = "webhooks"
          /\ UNCHANGED <<config, exitCode, alternate>>
          /\ acquirers' = [stat |-> acquirer, config |-> acquirer]
          /\ api' = Primary
      BY <1>6 DEF handlePrimaryEndpoint, PrimaryWith, Primary
    <2>3. /\ acquirers' \in [{"stat", "config"} -> {"none", "basic", "jwt"}]
          /\ acquirers'.stat = acquirer /\ acquirers'.config = acquirer
      BY <2>1, <2>2
    <2>4. createAuthAcquirer(config.auth)' = acquirer /\ Primary' = Primary
      BY <2>2 DEF createAuthAcquirer, Primary
    <2>. QED
      BY <2>2, <2>3, <2>4
  <1>7. CASE handleWebhookRoutes
    <2>1. api' = Registered
      BY <1>7 DEF handleWebhookRoutes, Registered
    <2>2. Registered' = Registered
      BY <1>7 DEF handleWebhookRoutes, Registered
    <2>. QED
      BY <1>7, <2>1, <2>2 DEF handleWebhookRoutes, createAuthAcquirer
  <1>8. CASE buildAPIAltRouter
    BY <1>8 DEF buildAPIAltRouter, Registered, createAuthAcquirer
  <1>9. CASE AppFails
    BY <1>9 DEF AppFails
  <1>10. CASE RunFails
    BY <1>10 DEF RunFails
  <1>11. CASE Run
    BY <1>11 DEF Run, Registered, createAuthAcquirer
  <1>. QED
    BY <1>1, <1>2, <1>3, <1>4, <1>5, <1>6, <1>7, <1>8, <1>9, <1>10, <1>11 DEF StartupNext

(* A process that serves was configured as it says. *)
LEMMA Configured == StartupInv => ServesAsConfigured
  <1> SUFFICES ASSUME StartupInv, phase = "running" PROVE ServesAsConfigured
    BY DEF ServesAsConfigured
  <1>1. acquirers.stat = acquirers.config /\ acquirers.stat = createAuthAcquirer(config.auth)
    BY DEF StartupInv
  <1>2. alternate # <<>>
    <2>1. 1 \in DOMAIN alternate
      BY AlternateTable DEF StartupInv
    <2>. QED
      BY <2>1
  <1>3. (\E i \in DOMAIN api : api[i].handler = "addHook") <=> config.webhook = "on"
    <2>1. api = Registered
      BY DEF StartupInv
    <2>2. CASE config.webhook = "on"
      BY <2>1, <2>2, RegisteredTable DEF Route
    <2>3. CASE config.webhook # "on"
      <3>1. DOMAIN Registered = 1 .. 3
        BY <2>3, RegisteredTable
      <3>2. \A i \in 1 .. 3 : Registered[i].handler # "addHook"
        BY RegisteredTable DEF Route
      <3>. QED
        BY <2>1, <2>3, <3>1, <3>2
    <2>. QED
      BY <2>2, <2>3
  <1>. QED
    BY <1>1, <1>2, <1>3 DEF ServesAsConfigured

-----------------------------------------------------------------------------
(* The invariant of Ingress: where the request is, and what let it get there *)

(* The handler of the route was called, behind the chain if the route carries it. *)
Reached ==
    LET route == Routed(request.port, request)
    IN  /\ admitted = route.authenticated
        /\ route.authenticated => "token" \in Outcomes(request)
        /\ service = IF route.handler = "addHook" /\ Version(request) = "v2"
                     THEN "addV2Hook" ELSE route.handler
        /\ stage = "arrive" <=> route.handler \in {"stat", "config"}

RequestInv ==
    /\ request \in Requests \cup {NoRequest}
    /\ service \in Services
    /\ admitted \in BOOLEAN
    /\ stage # "idle" => phase = "running"
    /\ stage \in {"idle", "route", "authenticate"} => service = "none"
    /\ stage \in {"idle", "route", "authenticate", "arrive", "hooks"} => status = Pending
    /\ stage \in {"route", "authenticate", "arrive", "hooks"} => request \in Requests
    /\ stage \in {"authenticate", "arrive", "hooks"} =>
            Routed(request.port, request).handler \notin Unmatched
    /\ stage \in {"arrive", "hooks"} => Reached

(* Nor has a client sent a request. *)
LEMMA RequestInitInv == IngressInit => StartupInv /\ RequestInv
  BY StartupInitInv DEF IngressInit, RequestInv, Services

(* What serves a request is one of the handlers, which one depends on the route. *)
LEMMA HandlerOfRoute ==
  ASSUME NEW i \in DOMAIN Registered
  PROVE  /\ Registered[i].handler \in {"stat", "config", "addHook", "getHooks"}
         /\ Registered[i].authenticated
  <1>1. DOMAIN Registered = IF config.webhook = "on" THEN 1 .. 5 ELSE 1 .. 3
    BY RegisteredTable
  <1>2. CASE i \in 1 .. 3
    BY <1>2, RegisteredTable DEF Route
  <1>3. CASE i \in 4 .. 5 /\ config.webhook = "on"
    BY <1>3, RegisteredTable DEF Route
  <1>. QED
    BY <1>1, <1>2, <1>3

(* Only the first steps of a request look at the tables, and those do not change any more. *)
LEMMA IngressStepInv ==
  ASSUME StartupInv, RequestInv, IngressNext
  PROVE  StartupInv' /\ RequestInv'
  <1>1. CASE StartupNext /\ UNCHANGED ingress
    <2>1. StartupInv' /\ stage = "idle"
      BY <1>1, StartupStepInv DEF RequestInv, Building
    <2>. QED
      BY <1>1, <2>1 DEF RequestInv, ingress
  <1>2. ASSUME UNCHANGED startup
        PROVE  StartupInv'
    BY <1>2 DEF startup, StartupInv, Registered, createAuthAcquirer
  <1>3. ASSUME UNCHANGED startup, UNCHANGED request
        PROVE  Routed(request.port, request)' = Routed(request.port, request)
    BY <1>3 DEF startup, Routed, RouteIn, URLPrefix
  <1>4. CASE Arrive
    BY <1>2, <1>4 DEF Arrive, Stage, RequestInv, startup
  <1>5. CASE NotRouted
    BY <1>2, <1>5 DEF NotRouted, Stage, RequestInv, startup
  <1>6. CASE MatchRoute
    <2>1. UNCHANGED startup /\ UNCHANGED request /\ UNCHANGED <<service, admitted, status>>
      BY <1>6 DEF MatchRoute
    <2>2. Unmatched' = Unmatched
      BY DEF Unmatched
    <2>. QED
      BY <1>2, <1>3, <1>6, <2>1, <2>2 DEF MatchRoute, Stage, RequestInv, startup
  <1>7. CASE Authenticate
    <2> DEFINE route == Routed(request.port, request)
    <2>1. /\ UNCHANGED startup /\ UNCHANGED request /\ UNCHANGED status
          /\ stage = "authenticate"
          /\ route.authenticated => "token" \in Outcomes(request)
          /\ admitted' = route.authenticated
          /\ service' = IF route.handler = "addHook" /\ Version(request) = "v2"
                        THEN "addV2Hook" ELSE route.handler
          /\ stage' = IF route.handler \in {"stat", "config"} THEN "arrive" ELSE "hooks"
      BY <1>7 DEF Authenticate
    <2>2. /\ route' = route
          /\ Outcomes(request)' = Outcomes(request)
          /\ Version(request)' = Version(request)
      BY <1>3, <2>1 DEF Version, startup, Outcomes
    <2>3. request \in Requests /\ phase = "running" /\ status = Pending /\ route.handler \notin Unmatched
      BY <2>1 DEF RequestInv
    <2>4. \E i \in DOMAIN Registered : route = Registered[i]
      BY <2>3, ServedRoute DEF StartupInv
    <2>5. route.handler \in {"stat", "config", "addHook", "getHooks"} /\ route.authenticated
      BY <2>4, HandlerOfRoute
    <2> HIDE DEF route
    <2>6. Reached'
      <3>1. \/ stage' = "arrive" /\ route.handler \in {"stat", "config"}
            \/ stage' = "hooks" /\ route.handler \notin {"stat", "config"}
        BY <2>1
      <3>. QED
        BY <2>1, <2>2, <3>1 DEF Reached, route
    <2>7. service' \in Services /\ admitted' \in BOOLEAN /\ stage' \in {"arrive", "hooks"}
      BY <2>1, <2>5 DEF Services
    <2>8. Unmatched' = Unmatched /\ phase' = phase
      BY <2>1 DEF Unmatched, startup
    <2>9. RequestInv'
      BY <2>1, <2>2, <2>3, <2>6, <2>7, <2>8 DEF RequestInv, route
    <2>. QED
      BY <1>2, <2>1, <2>9
  <1>8. CASE Deny
    BY <1>2, <1>8 DEF Deny, Stage, RequestInv, startup
  <1>9. CASE HooksAnswer
    BY <1>2, <1>9 DEF HooksAnswer, Stage, RequestInv, startup
  <1>. QED
    BY <1>1, <1>4, <1>5, <1>6, <1>7, <1>8, <1>9 DEF IngressNext

(* Both servers route a request alike. *)
LEMMA Agreement == StartupInv /\ RequestInv => ServersAgree
  BY SameRoute DEF StartupInv, RequestInv, ServersAgree

(* The chain is on every route, and of Bearer tokens lets only those pass that were checked. *)
LEMMA Admission == StartupInv /\ RequestInv => BearerTokensAreVerified
  <1> SUFFICES ASSUME StartupInv, RequestInv, stage \in {"arrive", "hooks"}
               PROVE  /\ admitted
                      /\ request.scheme \in {"Bearer", "Basic"}
                      /\ request.scheme = "Bearer" =>
                            request.raw /\ request.signed /\ request.kid /\ request.valid
    BY DEF BearerTokensAreVerified
  <1>1. /\ request \in Requests /\ phase = "running" /\ Reached
        /\ Routed(request.port, request).handler \notin Unmatched
    BY DEF RequestInv
  <1>2. \E i \in DOMAIN Registered : Routed(request.port, request) = Registered[i]
    BY <1>1, ServedRoute DEF StartupInv
  <1>3. admitted /\ "token" \in Outcomes(request)
    BY <1>1, <1>2, HandlerOfRoute DEF Reached
  <1>4. request.scheme \in {"none", "Bearer", "Basic", "other"}
    BY <1>1, IngressAssumption DEF RequestType
  <1>5. CASE request.scheme = "none"
    BY <1>3, <1>5 DEF Outcomes
  <1>6. CASE request.scheme = "other"
    BY <1>3, <1>6 DEF Outcomes
  <1>7. CASE request.scheme = "Bearer"
    <2>1. \E key \in Keys : Parse(request, key) = "token"
      BY <1>3, <1>7 DEF Outcomes
    <2>2. PICK key \in Keys : Parse(request, key) = "token"
      BY <2>1
    <2>3. request.raw /\ KeyFound(request, key) /\ request.valid
      BY <2>2 DEF Parse
    <2>. QED
      BY <1>3, <1>7, <2>3 DEF KeyFound
  <1>8. CASE request.scheme = "Basic"
    BY <1>3, <1>8
  <1>. QED
    BY <1>4, <1>5, <1>6, <1>7, <1>8

(* Three segments match a route of three when its constant segments are theirs. *)
LEMMA DevicePaths ==
  ASSUME NEW S, NEW path \in Seq(S), NEW route
  PROVE  /\ route.path = StatPath =>
              (PathMatches(route, path) <=> Len(path) = 3 /\ path[1] = "device" /\ path[3] = "stat")
         /\ route.path = ServicePath =>
              (PathMatches(route, path) <=> Len(path) = 3 /\ path[1] = "device")
  <1>1. /\ Len(StatPath) = 3 /\ Len(ServicePath) = 3
        /\ StatPath[1] = "device" /\ StatPath[2] \in Variables /\ StatPath[3] = "stat"
        /\ ServicePath[1] = "device" /\ ServicePath[2] \in Variables
        /\ ServicePath[3] \in Variables
    BY DEF StatPath, ServicePath, Variables
  <1>2. "device" \notin Variables /\ "stat" \notin Variables
    BY DEF Variables
  <1>3. ASSUME Len(path) = 3
        PROVE  DOMAIN path = {1, 2, 3}
    BY <1>3
  <1>4. CASE Len(path) # 3
    BY <1>1, <1>4 DEF PathMatches
  <1>5. CASE Len(path) = 3
    <2>1. ASSUME route.path = StatPath
          PROVE  PathMatches(route, path) <=> path[1] = "device" /\ path[3] = "stat"
      BY <1>1, <1>2, <1>3, <1>5, <2>1, Zenon DEF PathMatches
    <2>2. ASSUME route.path = ServicePath
          PROVE  PathMatches(route, path) <=> path[1] = "device"
      BY <1>1, <1>2, <1>3, <1>5, <2>2, Zenon DEF PathMatches
    <2>. QED
      BY <1>5, <2>1, <2>2
  <1>. QED
    BY <1>4, <1>5

(* Where a route of any service matches a GET of stat, the stat route does, and it is first. *)
LEMMA StatIsFirst == StartupInv /\ RequestInv => StatServesStat
  <1> SUFFICES ASSUME StartupInv, RequestInv, stage = "arrive", request.method = "GET"
               PROVE  service = "stat" <=> request.path[3] = "stat"
    BY DEF StatServesStat
  <1>1. /\ request \in Requests /\ phase = "running" /\ Reached
        /\ Routed(request.port, request).handler \notin Unmatched
    BY DEF RequestInv
  <1>2. PICK i \in DOMAIN Registered :
          /\ Routed(request.port, request) = Registered[i]
          /\ PathMatches(Registered[i], request.path)
          /\ request.method \in Registered[i].methods
          /\ \A j \in DOMAIN Registered :
                PathMatches(Registered[j], request.path) /\ request.method \in Registered[j].methods
                    => i <= j
    BY <1>1, ServedRoute DEF StartupInv
  <1>3. service = Registered[i].handler /\ Registered[i].handler \in {"stat", "config"}
    BY <1>1, <1>2 DEF Reached
  <1>4. i = 1 \/ i = 2
    <2>1. DOMAIN Registered = IF config.webhook = "on" THEN 1 .. 5 ELSE 1 .. 3
      BY RegisteredTable
    <2>2. i # 3
      BY <1>2, RegisteredTable DEF Route
    <2>3. i \notin {4, 5}
      BY <1>2, <1>3, <2>1, RegisteredTable DEF Route
    <2>. QED
      BY <2>1, <2>2, <2>3
  <1>5. /\ 1 \in DOMAIN Registered
        /\ Registered[1].path = StatPath /\ Registered[1].methods = {"GET"}
        /\ Registered[1].handler = "stat"
        /\ Registered[2].path = ServicePath /\ Registered[2].handler = "config"
    BY RegisteredTable DEF Route
  <1>6. request.path \in Seq(STRING)
    BY <1>1, IngressAssumption DEF RequestType
  <1>7. /\ PathMatches(Registered[1], request.path) <=>
              Len(request.path) = 3 /\ request.path[1] = "device" /\ request.path[3] = "stat"
        /\ PathMatches(Registered[2], request.path) <=>
              Len(request.path) = 3 /\ request.path[1] = "device"
    BY <1>5, <1>6, DevicePaths
  <1>8. CASE i = 1
    BY <1>2, <1>3, <1>5, <1>7, <1>8
  <1>9. CASE i = 2
    <2>1. ASSUME request.path[3] = "stat" PROVE FALSE
      <3>1. PathMatches(Registered[1], request.path) /\ request.method \in Registered[1].methods
        BY <1>2, <1>5, <1>7, <1>9, <2>1
      <3>2. i <= 1
        BY <1>2, <1>5, <3>1
      <3>. QED
        BY <1>9, <3>2
    <2>. QED
      BY <1>3, <1>5, <1>9, <2>1
  <1>. QED
    BY <1>4, <1>8, <1>9

(* The prefix tells the versions apart wherever version 2 is served at all. *)
LEMMA V2Recognised == StartupInv /\ RequestInv => V2HooksAreFixed
  <1> SUFFICES ASSUME StartupInv, RequestInv, stage = "hooks", request.method = "POST",
                      request.path = <<"hook">>
               PROVE  service = "addV2Hook" <=> request.version = "v2"
    BY DEF V2HooksAreFixed
  <1>1. /\ request \in Requests /\ phase = "running" /\ Reached
        /\ Routed(request.port, request).handler \notin Unmatched
    BY DEF RequestInv
  <1>2. PICK i \in DOMAIN Registered :
          /\ Routed(request.port, request) = Registered[i]
          /\ PathMatches(Registered[i], request.path)
    BY <1>1, ServedRoute DEF StartupInv
  <1>3. request.version \in URLPrefix
    BY <1>1, ServedRoute DEF StartupInv
  <1>4. Registered[i].handler = "addHook"
    <2>1. Len(request.path) = 1 /\ DOMAIN request.path = {1} /\ request.path[1] = "hook"
      OBVIOUS
    <2>2. Len(Registered[i].path) = 1 /\ Registered[i].path[1] \in Variables \cup {"hook"}
      BY <1>2, <2>1 DEF PathMatches
    <2>3. DOMAIN Registered = IF config.webhook = "on" THEN 1 .. 5 ELSE 1 .. 3
      BY RegisteredTable
    <2>4. Len(StatPath) = 3 /\ Len(ServicePath) = 3 /\ Len(ParameterPath) = 4
      BY DEF StatPath, ServicePath, ParameterPath
    <2>5. i \notin 1 .. 3
      BY <2>2, <2>4, RegisteredTable DEF Route
    <2>6. i # 5
      <3>1. ASSUME i = 5 PROVE FALSE
        <4>1. Registered[i].path = <<"hooks">>
          BY <2>3, <3>1, RegisteredTable DEF Route
        <4>2. <<"hooks">>[1] \in Variables \cup {"hook"}
          BY <2>2, <4>1
        <4>. QED
          BY <4>2 DEF Variables
      <3>. QED
        BY <3>1
    <2>. QED
      BY <2>3, <2>5, <2>6, RegisteredTable DEF Route
  <1>5. service = IF Version(request) = "v2" THEN "addV2Hook" ELSE "addHook"
    BY <1>1, <1>2, <1>4 DEF Reached
  <1>. QED
    BY <1>3, <1>5 DEF Version, URLPrefix

=============================================================================
