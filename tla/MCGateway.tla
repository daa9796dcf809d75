------------------------------- MODULE MCGateway -------------------------------
(***************************************************************************)
(* Bounded instances of Gateway for TLC.                                   *)
(***************************************************************************)
EXTENDS Gateway

\* XMiDT answers success or something else.
MCCodes == {"200", "404"}

\* The two ranges of translation.encodeResponse
MCDeviceCodes == {"403", "520"}

Configuration(previous, authAcquirer, webhook) ==
    [args |-> "serve", file |-> TRUE, keys |-> TRUE,
     previousVersionSupport |-> previous, auth |-> authAcquirer, webhook |-> webhook]

\* Every acquirer, also one that lacks a setting, with and without version 2 and webhooks
Usable == {
    Configuration(TRUE, "jwt", "on"),
    Configuration(FALSE, "basic", "on"),
    Configuration(TRUE, "incomplete", "on"),
    Configuration(TRUE, "unset", "off")}

\* Every way not to serve
Unusable == {
    [Configuration(TRUE, "jwt", "on") EXCEPT !.args = "version"],
    [Configuration(TRUE, "jwt", "on") EXCEPT !.args = "help"],
    [Configuration(TRUE, "jwt", "on") EXCEPT !.args = "unknown"],
    [Configuration(TRUE, "jwt", "on") EXCEPT !.args = "version", !.file = FALSE],
    [Configuration(TRUE, "jwt", "on") EXCEPT !.file = FALSE],
    [Configuration(TRUE, "jwt", "on") EXCEPT !.keys = FALSE],
    Configuration(FALSE, "incomplete", "refused")}

MCConfigs == Usable \cup Unusable

\* The paths that are registered, a deeper one and an unknown one
MCPaths == {
    <<"device", "mac", "stat">>, <<"device", "mac", "config">>,
    <<"device", "mac", "stat", "name">>, <<"device", "mac", "config", "name">>,
    <<"hook">>, <<"hooks">>, <<"device", "mac">>}

\* A token and what it carries: nothing, and every mixture for the schemes that are parsed
Credentials == {
    [scheme |-> sc, raw |-> ra, signed |-> si, kid |-> ki, valid |-> va] :
        sc \in {"none", "Bearer", "Basic", "other"}, ra, si, ki, va \in BOOLEAN}

Good == [scheme |-> "Bearer", raw |-> TRUE, signed |-> TRUE, kid |-> TRUE, valid |-> TRUE]

Asked(po, me, ve, pa, cr) ==
    [port |-> po, method |-> me, version |-> ve, path |-> pa, scheme |-> cr.scheme,
     raw |-> cr.raw, signed |-> cr.signed, kid |-> cr.kid, valid |-> cr.valid]

\* Every route with a good token, and every token on one route of each kind
MCRequests ==
    {Asked(po, me, ve, pa, Good) :
        po \in {"primary", "alternate"}, me \in Methods, ve \in {"v1", "v2", "v3"},
        pa \in MCPaths} \cup
    {Asked("primary", me, "v3", pa, cr) : me \in {"GET", "PUT"},
        pa \in {<<"device", "mac", "stat">>, <<"device", "mac", "config", "name">>, <<"hooks">>},
        cr \in {c \in Credentials : c.scheme # "Bearer" => c.raw /\ c.signed /\ c.kid /\ c.valid}}

\* The log line does not depend on the rest.
MCOneConfig == {Configuration(TRUE, "jwt", "off")}

MCOneRequest == {Asked("primary", "GET", "v3", <<"device", "mac", "config">>, Good)}

=============================================================================
