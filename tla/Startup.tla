-------------------------------- MODULE Startup --------------------------------
(***************************************************************************)
(* From the command line to the running servers: setup, printVersion, the  *)
(* functions that fx invokes in order, app.Run.  fx (external) runs the    *)
(* constructors an invoked function needs before it, and stops at the first*)
(* error; tr1d1um then exits and no server has listened.                   *)
(***************************************************************************)
EXTENDS Routes

CONSTANTS
    Configs \* command lines and configurations the program is started with

(***************************************************************************)
(* args: the command line; file: the configuration can be read; keys: the  *)
(* resolver for verification keys can be built; previousVersionSupport;    *)
(* auth: what authAcquirer configures; webhook: not configured, usable, or *)
(* refused (validators that cannot be built, a negative TTL).              *)
(***************************************************************************)
ConfigType ==
    [args : {"serve", "version", "help", "unknown"}, file : BOOLEAN, keys : BOOLEAN,
     previousVersionSupport : BOOLEAN, auth : {"unset", "jwt", "basic", "incomplete"},
     webhook : {"off", "on", "refused"}]

ASSUME StartupAssumption == Configs \subseteq ConfigType

VARIABLES
    config,    \* the command line and the configuration
    phase,     \* the next step of tr1d1um, "running" or "exited"
    exitCode,  \* what the process exited with
    api,       \* the table of the API router, on the primary server
    alternate, \* the table of the alternate server's router
    acquirers  \* the AuthAcquirer each service was built with

startup == <<config, phase, exitCode, api, alternate, acquirers>>

Phases == {"setup", "version", "provide", "primary", "webhooks", "alternate", "run",
           "running", "exited"}

StartupInit ==
    /\ config \in Configs
    /\ phase = "setup"
    /\ exitCode = 0
    /\ api = <<>>
    /\ alternate = <<>>
    /\ acquirers = [stat |-> "none", config |-> "none"]

Exit(code) ==
    /\ phase' = "exited"
    /\ exitCode' = code
    /\ UNCHANGED <<config, api, alternate, acquirers>>

Proceed(from, to) ==
    /\ phase = from
    /\ phase' = to
    /\ UNCHANGED <<config, exitCode>>

-----------------------------------------------------------------------------

(* The flags are parsed (-h is an error of that), then the file is read. *)
SetupFails ==
    /\ phase = "setup"
    /\ config.args \in {"help", "unknown"} \/ ~config.file
    /\ Exit(1)

setup ==
    /\ config.args \in {"serve", "version"}
    /\ config.file
    /\ Proceed("setup", "version")
    /\ UNCHANGED <<api, alternate, acquirers>>

printVersion ==
    /\ phase = "version"
    /\ config.args = "version"
    /\ Exit(0)

(* From here on fx runs constructors, before each function that needs them. *)
NewApp ==
    /\ config.args # "version"
    /\ Proceed("version", "provide")
    /\ UNCHANGED <<api, alternate, acquirers>>

createAuthMiddleware ==
    /\ config.keys
    /\ Proceed("provide", "primary")
    /\ UNCHANGED <<api, alternate, acquirers>>

(* What is not configured properly is logged, and the services go on without an acquirer. *)
createAuthAcquirer(auth) == IF auth \in {"jwt", "basic"} THEN auth ELSE "none"

PrimaryWith(acquirer, routes) ==
    /\ Proceed("primary", "webhooks")
    /\ acquirers' = acquirer
    /\ api' = routes
    /\ UNCHANGED alternate

(* Mutant: a service is built before the acquirer is put into its options. *)
handlePrimaryEarlyService ==
    PrimaryWith([stat |-> "none", config |-> createAuthAcquirer(config.auth)],
                statRoutes \o configRoutes)

(* Mutant: the config routes are registered first. *)
handlePrimaryConfigFirst ==
    LET acquirer == createAuthAcquirer(config.auth)
    IN  PrimaryWith([stat |-> acquirer, config |-> acquirer], configRoutes \o statRoutes)

(* One acquirer goes into the options of both services; the stat route is registered first. *)
handlePrimaryEndpoint ==
    LET acquirer == createAuthAcquirer(config.auth)
    IN  PrimaryWith([stat |-> acquirer, config |-> acquirer], statRoutes \o configRoutes)

handleWebhookRoutes ==
    /\ config.webhook # "refused"
    /\ Proceed("webhooks", "alternate")
    /\ api' = IF config.webhook = "on" THEN api \o webhookRoutes ELSE api
    /\ UNCHANGED <<alternate, acquirers>>

buildAPIAltRouter ==
    /\ Proceed("alternate", "run")
    /\ alternate' = alternateRoutes
    /\ UNCHANGED <<api, acquirers>>

(***************************************************************************)
(* A constructor or an invoked function returned an error, which app.Err() *)
(* prints: keys that cannot be resolved, a webhook section that is refused,*)
(* or anything else (sections that cannot be read, tracing, metrics).      *)
(***************************************************************************)
AppFails ==
    /\ phase \in {"provide", "webhooks", "alternate"}
    /\ Exit(2)

(* app.Run: a server cannot listen, and fx exits. *)
RunFails ==
    /\ phase = "run"
    /\ Exit(1)

Run ==
    /\ Proceed("run", "running")
    /\ UNCHANGED <<api, alternate, acquirers>>

StartupNext ==
    \/ SetupFails
    \/ setup
    \/ printVersion
    \/ NewApp
    \/ createAuthMiddleware
    \/ handlePrimaryEndpoint
    \/ handleWebhookRoutes
    \/ buildAPIAltRouter
    \/ AppFails
    \/ RunFails
    \/ Run

-----------------------------------------------------------------------------

StartupTypeOK ==
    /\ config \in Configs
    /\ phase \in Phases
    /\ exitCode \in 0 .. 2
    /\ acquirers \in [{"stat", "config"} -> {"none", "basic", "jwt"}]

(***************************************************************************)
(* A process that serves has both services on the one acquirer that was    *)
(* configured (NewService copies it from the options, so the options must  *)
(* be complete by then) and did not get there past a failed step: every    *)
(* table is registered.                                                    *)
(***************************************************************************)
ServesAsConfigured ==
    phase = "running" =>
        /\ acquirers.stat = acquirers.config
        /\ acquirers.stat = createAuthAcquirer(config.auth)
        /\ alternate # <<>>
        /\ (\E i \in DOMAIN api : api[i].handler = "addHook") <=> config.webhook = "on"

=============================================================================
