--------------------------------- MODULE Routes ---------------------------------
(***************************************************************************)
(* The route tables that routes.go, stat.ConfigHandler and translation.-   *)
(* ConfigHandler register, and gorilla/mux's choice among them (external): *)
(* the first route whose path and method match.  Every route of a table is *)
(* also matched against the table's prefix, and that match forgets a wrong *)
(* method found before (mux 1.8.1): 405 is left only to the last route.    *)
(* A path is a sequence of segments, a table a sequence of routes.         *)
(***************************************************************************)
EXTENDS Naturals, Sequences

Methods == {"GET", "HEAD", "PATCH", "PUT", "POST", "DELETE"}

Variables == {"{deviceid}", "{service}", "{parameter}"}

(* authenticated: the handler is wrapped in the authentication chain. *)
Route(path, methods, handler, authenticated) ==
    [path |-> path, methods |-> methods, handler |-> handler, authenticated |-> authenticated]

StatPath == <<"device", "{deviceid}", "stat">>
ServicePath == <<"device", "{deviceid}", "{service}">>
ParameterPath == <<"device", "{deviceid}", "{service}", "{parameter}">>

statRoutes == <<Route(StatPath, {"GET"}, "stat", TRUE)>>

(* Mutant: the methods of the two routes are exchanged, or not restricted at all. *)
configRoutesUnrestricted == <<
    Route(ServicePath, Methods, "config", TRUE),
    Route(ParameterPath, Methods, "config", TRUE)>>

(* Mutant: one of the two routes is registered without Authenticate. *)
configRoutesOpen == <<
    Route(ServicePath, {"GET", "PATCH"}, "config", TRUE),
    Route(ParameterPath, {"DELETE", "PUT", "POST"}, "config", FALSE)>>

configRoutes == <<
    Route(ServicePath, {"GET", "PATCH"}, "config", TRUE),
    Route(ParameterPath, {"DELETE", "PUT", "POST"}, "config", TRUE)>>

(* The route of the listing is not restricted to a method. *)
webhookRoutes == <<
    Route(<<"hook">>, {"POST"}, "addHook", TRUE),
    Route(<<"hooks">>, Methods, "getHooks", TRUE)>>

(* Mutant: the route with a parameter is left out. *)
alternateRoutesShort == <<
    Route(ServicePath, Methods, "api", FALSE),
    Route(StatPath, Methods, "api", FALSE),
    Route(<<"hook">>, Methods, "api", FALSE),
    Route(<<"hooks">>, Methods, "api", FALSE)>>

(* Each hands the request to the API router, which matches it again. *)
alternateRoutes == <<
    Route(ServicePath, Methods, "api", FALSE),
    Route(ParameterPath, Methods, "api", FALSE),
    Route(StatPath, Methods, "api", FALSE),
    Route(<<"hook">>, Methods, "api", FALSE),
    Route(<<"hooks">>, Methods, "api", FALSE)>>

(* The router's own answers *)
NotFound == Route(<<>>, {}, "404", FALSE)
MethodNotAllowed == Route(<<>>, {}, "405", FALSE)

PathMatches(route, path) ==
    /\ Len(route.path) = Len(path)
    /\ \A i \in DOMAIN path : route.path[i] \in Variables \cup {path[i]}

Match(table, method, path) ==
    LET onPath == {i \in DOMAIN table : PathMatches(table[i], path)}
        hits == {i \in onPath : method \in table[i].methods}
    IN  CASE hits # {} -> table[CHOOSE i \in hits : \A j \in hits : i <= j]
          [] hits = {} /\ Len(table) \in onPath -> MethodNotAllowed
          [] OTHER -> NotFound

=============================================================================
