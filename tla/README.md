# Tr1d1um: models, checks and proofs

Tr1d1um is the HTTP gateway in front of an XMiDT cluster. A client asks it for
a device's statistics, reads or writes a device's parameters, or registers a
webhook; Tr1d1um checks the request, attaches its own credential, calls XMiDT
and translates the answer. The program is small, but its handlers run on the
goroutines of Go's HTTP server and share a token cache and a webhook list, it
retries and times out, and it decodes a command language from several places of
a request. This directory holds TLA+ modules for those parts, configurations
that check them with TLC, and proofs that TLAPS checks.

## 1. Inventory

| Component | Source | State | Operations |
|---|---|---|---|
| JWT acquirer | `transaction/auth_acquirer.go` | cached token and expiry, `j.mu` | `Acquire` |
| Basic acquirer, choice of acquirer | `transaction/auth_acquirer.go`, `primaryHandler.go`, `routes.go` | none after start | `createAuthAcquirer`, `Acquire` |
| Transactor and retry loop | `transaction/transactor.go`, `primaryHandler.go` | per call: context, attempt, timer | `Transact` |
| Pipeline of the stat and config APIs | `stat/`, `translation/transport.go`, `translation/service.go`, `transaction/` | per request: context values, response writer | `Welcome`, decoders, `RequestStat`, `SendWRP`, encoders, `Log` |
| WDMP decoder | `translation/transport.go`, `translation/transport_utils.go` | per request: the body, read twice | `captureWDMPParameters`, `decodeRequest` |
| Webhook registry | `primaryHandler.go` (`simpleWebhookService`) | the slice `s.store`, shared, no lock | `Add`, `GetAll` |
| Webhook API | `routes.go` (`fixV2Duration`), `primaryHandler.go` | per request | add, version 2 add, list |
| Inbound authentication | `auth.go`, `basculeLogging.go` | none | `createAuthMiddleware`, `JWTTokenParser.Parse` |
| Routing and servers | `routes.go`, `stat/transport.go`, `translation/transport.go` | route tables, fixed at start | `ConfigHandler` (twice), `handleWebhookRoutes`, `buildAPIAltRouter`, matching |
| Startup and configuration | `main.go`, `setup.go`, `routes.go`, `primaryHandler.go` | configuration, what is built so far | `setup`, `printVersion`, constructors, invoked functions, `Run` |
| Metrics, tracing, packaging | `metrics.go`, `main.go`, build files | counters | - |

How they interact. At start `tr1d1um` reads flags and file, and fx runs the
constructors that the invoked functions need and then those functions in order:
they create the one acquirer, build the two services, and register routes on
one API router. The alternate server has a router of its own that hands requests
to the API router. A request is matched, passes the authentication chain its
route carries, then `Welcome`, which puts
a transaction id and the arrival time into its context, then a kithttp server:
decoder, endpoint, encoder, finalizer, with an error encoder for whatever
fails. The endpoints of the stat and config APIs call a service, which calls
the *one* `AuthAcquirer` both services share and then its transactor. The
transactor wraps a retry loop, which wraps the HTTP client. The webhook
handlers (of the library ancla) all call the *one* `simpleWebhookService`.

What is hard, and what makes each part correct:

* **JWT acquirer.** Callers look under the read lock, fetch with no lock held
  and store under the write lock. Correct: no caller is given an expired token
  as long as the buffer covers a fetch; a valid cache stops new fetches;
  overlapping fetches may not throw the cache far back; nobody is kept for ever.
* **Transactor.** A deadline, a client timeout, retries with sleeps that do not
  see the deadline, a body that may not follow its headers, XMiDT acting on an
  attempt after it was given up. Correct: every call returns, within a bound
  one can state; XMiDT acts at most Retries + 1 times; results come from
  answers to this call.
* **Pipeline.** Errors with and without codes, a client that leaves, an answer
  that cannot be decoded. Correct: a 200 is genuine, every request is answered,
  the transaction id is the request's, and the credential of an attempt goes
  stale by no more than the time one fetch and one call take.
* **WDMP decoder.** The command is deduced from the first parameter and from
  headers; the body is read twice. Correct: the command fits every parameter;
  the log and the device get the same command; identifiers come from one place.
* **Startup, routing, authentication.** Options that are copied when a service
  is built; two overlapping routes; two routers that must agree; a version that
  is known only from a path variable; a chain applied route by route. Correct: a
  process that serves is configured as asked; each request gets to its handler,
  on either server, and a Bearer token only if its signature was checked. Basic
  credentials are parsed and not compared with anything (`auth.go:90`).
* **Webhook registry.** Unsynchronised use of a slice. Correct: what was
  answered 200 is in the list, and the list holds nothing else.
* **Webhook API.** Two validity rules, one of them looked at, and two readings
  of the clock. Correct: no webhook is stored with an end beyond the maximum
  (nothing removes it at its end), and version 2 requests are not refused for a
  bad duration or until.

## 2. Modules

| Module | Models | Extends / instantiates |
|---|---|---|
| `TokenSource` | abstract promise of `AuthAcquirer` | - |
| `JwtAcquirer` | `Acquire` of the JWT acquirer | refines `TokenSource` |
| `JwtAcquirerProofs` | theorems | `JwtAcquirer`, `TLAPS` |
| `XmidtCall` | abstract promise of `Transact` | - |
| `Transactor` | `Transact`, retry loop, HTTP client | refines `XmidtCall` |
| `TransactorProofs` | theorems | `Transactor`, `TLAPS` |
| `Routes` | the route tables, and mux's choice among routes | - |
| `Startup` | command line to running servers | `Routes` |
| `Ingress` | a request on the way to its handler | `Startup` |
| `IngressProofs` | lemmas about routes, start and admission | `Ingress`, `TLAPS` |
| `Gateway` | the process from its start to one answered request | `Transactor`, `Ingress`, and `TokenSource` on the same clock |
| `GatewayProofs` | theorems about the whole | `Gateway`, `TransactorProofs`, `IngressProofs` |
| `Wdmp` | the config service's decoder | `Routes` |
| `WdmpProofs` | theorems | `Wdmp`, `TLAPS` |
| `WebhookRegistry` | abstract promise of `ancla.Service` | - |
| `WebhookStore` | `simpleWebhookService` word by word | refines `WebhookRegistry` until an Add overlaps another call |
| `WebhookStoreProofs` | theorems | `WebhookStore`, `TLAPS` |
| `WebhookApi` | `fixV2Duration`, validators, registry, restart | `WebhookRegistry` |
| `WebhookApiProofs` | theorems | `WebhookApi`, `TLAPS` |
| `MC*` | bounded instances for TLC | the module of that name |

Operators named for a defect ("Mutant" in their comment) are variants of the
definition that follows them; they are used by no specification. They record
which defect each property would notice.

### JwtAcquirer

One action per stretch of `Acquire` between two points where other goroutines
can get in: `Call`, `RLock`, `CheckHit`/`CheckMiss` (the check and the read
unlock), `FetchOK`/`FetchFails`/`FetchTimesOut`, `Lock`, `StoreToken`,
`StoreExpiry`, `ReturnStored` (the read of `j.token` and the deferred unlock).
`readers` and `writer` are `j.mu`; as in `sync.RWMutex`, a waiting writer keeps
new readers out. A token is the moment it was issued (`Issue`, the external
endpoint, which may act long before its reply arrives) and its lifetime. `due`
is the end of a caller's present wait: `Timeout` for a fetch, `Lag` for a lock
or the scheduler. `Tick` does not pass it; that is the only assumption about
speed, and `Lag` is a constant of any size. `Duration` wraps around at
`MaxDuration`, as the product of `ExpiresIn` and a second does in a
`time.Duration`.

`TokenSource` says what the services see: a returned token was issued at most
`Timeout + Lag` ago, or is younger than its lifetime less `Buffer` plus
`Timeout + Lag`.

### Transactor

`Transact` starts the context and the first attempt. An attempt ends with
headers (`Headers`), with an ephemeral error (`Backoff`), or with an error that
ends the call (`GiveUp`, coded 503); which errors the loop takes for ephemeral
is left open. `Again` sends the request again after the sleep, unless the
context is done. `ReadBody`/`BodyFails` are the two ends of `ReadAll`.
`Disconnect` is the inbound client leaving. `Handle` is XMiDT acting on an
attempt, possibly after the attempt was given up.

### Routes, Startup, Ingress

`Routes` holds the tables as sequences of routes: a path of segments, the
methods, the handler, and whether the chain wraps it. `Match` is mux: the first
route whose path and method match. When only paths match the answer is 405 if the
last route of the table is among them, and 404 otherwise: matching a later route
forgets the wrong method (mux 1.8.1). `Wdmp` uses the same table of the config
service to say which requests its decoder can get.

`Startup` has one action per step of `tr1d1um`. `phase` is the next step; any
constructor or invoked function may fail, for a reason the configuration shows or
for another one, and ends the process with exit code 2 before any server listens
(`AppFails`); a server that cannot listen makes fx exit with 1 (`RunFails`).
A configuration is a record of what these steps look
at. `acquirers` is what `NewService` copied into each service.

`Ingress` takes one request from a server (`Arrive`) through the routers
(`Routed`; on the alternate server `alternate`, then `api`) and the chain
(`Authenticate`, `Deny`) to its handler. A token is what the code asks of it:
its scheme, whether text follows, an RSA method, a key id, and whether the
library finds signature and times valid. The resolver's answer for a key is open
(`Keys`), and so is the outcome for Basic credentials: the library parses them
and has no validator to ask (`Outcomes`). The handlers of `/hook` and `/hooks`
are `HooksAnswer` here; what they do is `WebhookApi`.

### Gateway

`Gateway` is `Ingress` up to a stat or config handler, then the stages of
kithttp's server with the handlers' functions at each, and `Transactor` for the
call. `Send` copies the service functions: acquire with the acquirer this service
was built with, set the header, `Transact`. `Write` keeps the first status, as
`WriteHeader` does; a failing `Write` of the body (`stage = "late"`) brings in
the error encoder after the status was sent. A successful JWT acquisition
returns a token that `TokenSource` offers at that moment: the detailed
`JwtAcquirer` implements `TokenSource` (proved, with any number of callers), so
the promise stands for it here and other requests need not be in the model. The
time spent in `Acquire` is not counted: `RequestTimeout` starts after it. After
`Welcome` the request record is given back (`NoRequest`), since nothing looks at
its path and headers any more in this model; that keeps the instance small.

### Wdmp

One request, chosen from all combinations of method, headers, body and path that
the code tells apart, as far as the routes let it through (`Requests`). Texts
are absent, empty or given; a parameter is a name, a data type, a value and
attributes. `BodyLost` is a body that breaks off: the read then returns an error
with all, a part or none of the bytes; a part of a JSON text is taken to be
malformed. The body of a PATCH breaks off during the capture or not at all, as
`captureWDMPParameters` leaves a buffer behind.

### WebhookStore

`s.store` is three words and the array it points to. `append` loads the words
in any order, then stores, in the order in which the Go compiler emits them,
capacity and pointer if the array grew, then the length, and the element last;
`GetAll` reads the length for `make` and loads pointer and length again for
`copy`. Copying an array and storing one element are single steps, so torn
interface values are not modelled. A slot nobody has stored to reads `Nil`, a
slot past the end of an array reads `Garbage`.

Everything races, as in the code. Two history variables record when calls begin
to overlap: `raced`, two Adds; `overlapped`, an Add and any other call. Before
`overlapped` the service takes the steps of `WebhookRegistry`
(`ImplementsRegistry`); afterwards it does not, and the runs say what fails
(`store_lost`, `store_listing`) and what is left (`EarlyRegistrationsListed`,
`NoListingTooLong`). Nothing in the code prevents the overlap.

### WebhookApi

A version 2 request is rewritten (`Fixed`), then everything goes through the
validators (`Valid`, external) and is added. The clock can move between the
steps. `Restart` empties the registry, which is in the memory of the process.

## 3. Runs

| Run | Instance | What it shows |
|---|---|---|
| `jwt` | 2 callers, Timeout 1, Lag 1, Buffer 2, lifetimes 0, 4, 6, durations below 5, clock to 6 | safety of the cache, refinement of `TokenSource`, also when a lifetime overflows, and that every `Acquire` returns |
| `store_races` | 2 callers, 2 manifests, 5 adds, 3 once an Add overlaps a call | the slice is a `WebhookRegistry` until then, through the capacities 1, 2, 4, 8; registrations made before the first race stay listed; no listing is longer than the number of Adds |
| `store_lost` | 2 callers, 2 adds | violation: a registration answered 200 is lost |
| `store_listing` | 2 callers, 2 adds | violation: a listing during an add holds an empty slot |
| `transact` | RequestTimeout 4, ClientTimeout 2, Interval 1, 2 retries | time bound, refinement of `XmidtCall`, every call returns |
| `transact_body` | no retries | violation: a timeout in the body has no code |
| `gateway` | 11 configurations, every acquirer and one that lacks a setting, both servers, every method, 7 paths, 3 versions, every kind of token, 1 retry, Timeout 1, Lag 1, RequestTimeout 3, Buffer 2, lifetimes 0, 3, 5 | start as configured; stat before config; servers agree; no handler for an unchecked Bearer token; version 2 recognised; genuine success, own transaction id, age of the credentials; every request is answered |
| `gateway_log` | the same, smaller | violation: `Log` complains about an arrival time that is there |
| `wdmp` | all requests the routes let through, with at most 2 parameters | command, log and payload agree; the routes filter what the decoder cannot serve |
| `wdmp_body` | at most 1 parameter | violation: a lost body is sent as an empty TEST_AND_SET |
| `hooks` | 2 handlers, versions 2 and 3, Max 2, Jitter 1, clock to 3 | the recorded end is within the maximum; version 2 times are accepted |
| `hooks_duration` | 1 handler | violation: an invalid duration next to an until is not replaced |

Why the bounds are enough to be interesting. *jwt*: two fetches overlap, are
stored in either order and with a later hit in between; a lifetime of 4 is
served for two units, 0 is cached for the buffer, 6 overflows and is never
served from the cache;
the clock allows a second round after the first has expired. *transact*: three
attempts with two sleeps exceed RequestTimeout; an attempt ends before and at
the deadline. *gateway*: every way for the start to fail and every
acquirer; the paths are those of all tables, one segment deeper and one less;
each kind of token meets a route of each table; a retry happens with a token
cached before. Buffer covers a fetch and not a fetch and a call, as with the values
in `tr1d1um.yaml`, so that attempts with expired tokens are among the states that
`AttemptsCarryRecentTokens` bounds. About
100 000 distinct states; one request, because requests share only the token
cache, which `TokenSource` stands for, and the webhook registry, which
`WebhookStore` and `WebhookApi` examine with two.
*wdmp*: one parameter decides the command and the other may not fit; more
parameters add no new kind of pair. *store_races*: one registration before the
race, two adds in it, and a listing at any point; without overlap five
adds, of which four grow the array and one fits. *hooks*: durations none,
below, and above the maximum; untils past, at the limit when the clock moves,
and beyond it.

Only `store_races` uses symmetry (callers and manifests are only compared); a
run with a liveness property uses none. No run disables the deadlock check;
`Rest` and `Done` are the states where the modelled work is over.

Fairness. *JwtAcquirer*: time passes, a runnable goroutine runs, a context's
deadline fires (weak fairness; strong for the two lock operations, since
`sync.RWMutex` starves neither side). *Transactor*: time passes, timers fire,
sleepers wake. *Gateway*: the request's goroutine runs through routing, chain,
decoder, encoders and log; `Acquire` returns, which is `AcquireReturns` of `jwt`;
the webhook handlers answer, as nothing in them waits. That the key resolver
answers is an assumption about the library: `auth.go:160` gives it the request's
context and no timeout. Nothing is assumed of XMiDT, the token
endpoint, the network or clients, and nothing makes the process start or a
client send.

## 4. Proofs

For all values of the constants, from the named assumptions of the modules
(positive timeouts, natural intervals, special values distinct from data,
configurations and requests of the types the modules give):

| Theorem | States |
|---|---|
| `JwtAcquirerProofs!TypeCorrect` | `TypeOK` |
| `JwtAcquirerProofs!Implements` | `ImplementsTokenSource` |
| `JwtAcquirerProofs!OwnToken` | `FetcherReturnsItsToken` |
| `JwtAcquirerProofs!NoLateFetch` | `NoFetchWhileCached` |
| `JwtAcquirerProofs!Regression` | `BoundedRegression` |
| `JwtAcquirerProofs!LiveTokens` | `ServedTokenIsLive`, if `Timeout + Lag <= Buffer` |
| `TransactorProofs!TypeCorrect` | `TypeOK` |
| `TransactorProofs!InTime` | `ReturnsInTime` |
| `TransactorProofs!Implements` | `ImplementsXmidtCall` |
| `WebhookStoreProofs!TypeCorrect` | `TypeOK`, any races |
| `WebhookStoreProofs!EarlyListed` | `EarlyRegistrationsListed`, any races |
| `WebhookStoreProofs!NoneInvented` | `NoListingTooLong`, any races |
| `WebhookStoreProofs!NothingLostBeforeRace` | `NothingLost`, until two Adds overlap |
| `WebhookStoreProofs!Implements` | `ImplementsRegistry`: a registry until an Add overlaps another call |
| `WebhookApiProofs!TypeCorrect` | `TypeOK` |
| `WebhookApiProofs!EndsInTime` | `RecordedEndWithinMax` |
| `WebhookApiProofs!RepairLasts` | `V2TimesAccepted` |
| `WdmpProofs!TypeCorrect` | `TypeOK` |
| `WdmpProofs!CommandFits` | `CommandFitsEveryParameter` |
| `WdmpProofs!LogAgrees` | `LoggedCommandIsSent` |
| `WdmpProofs!IdentifiersFromHeaders` | `TestAndSetUsesHeaders` |
| `WdmpProofs!RoutesFilter` | `MuxFiltersRequests` |
| `GatewayProofs!GatewayTypeCorrect` | `GatewayTypeOK` |
| `GatewayProofs!Served` | `ServesAsConfigured` |
| `GatewayProofs!SameOnBothServers` | `ServersAgree` |
| `GatewayProofs!StatIsServed` | `StatServesStat` |
| `GatewayProofs!Authenticated` | `BearerTokensAreVerified` |
| `GatewayProofs!V2Fixed` | `V2HooksAreFixed` |
| `GatewayProofs!GenuineSuccess` | `SuccessIsGenuine` |
| `GatewayProofs!OwnTransactionID` | `ConfigAnswersOwnTID` |
| `GatewayProofs!CallKeepsPromise` | `ImplementsXmidtCall`, of the call within the process |
| `GatewayProofs!CallInTime` | `ReturnsInTime`, of the call within the process |
| `GatewayProofs!RecentAttempts` | `AttemptsCarryRecentTokens`, for any `Buffer` |

*JwtAcquirer.* The inductive invariant says that the lock is one (`LockInv`:
the readers are the callers that check, the writer is the caller that stores,
and the two exclude each other once it writes), that a fetch and the token it
obtained are at most `Timeout` old (`FetchInv`), a token on its way to the
cache at most `Timeout + Lag` (`StoreInv`), and hence that the cached expiry
belongs to a store at most `Timeout + Lag` after the issue (`CacheInv`). The
last fails between the stores of `j.token` and `j.expiry` (`Torn`), when no
reader is inside: without `LockInv` it is not inductive. Everything else
follows by arithmetic. `Implements` maps `Call` to `Begin`, the ways to return
to `Return`, `Tick` to `Tick`, and the rest to stuttering.

*Transactor.* `TimeInv` gives each attempt and each sleep a bound that counts
the sleeps so far: attempt n ends by `started + RequestTimeout + (n-1) *
Interval`. `ReturnsInTime` is not inductive without it. For `Implements` the
count of handled attempts grows by one per `Handle` and is the size of a subset
of `1 .. Retries + 1`.

*WebhookStore.* Three invariants, each for any number of goroutines.

1. Whatever races. `EarlyRegistrationsListed` speaks of listings only and is not
   inductive. `KeptInv` says why it holds: a registration kept from before the
   first race is at its slot in the array `s.store` points to *and* in every
   array that an Add holds in its registers, and every length anywhere is beyond
   its slot. So no Add stores over it, and a grown array copies it (`KeptStays`).
   `KnownInv` carries this over to the words a listing has loaded, in whichever
   order and however long ago. For a registration to become kept, the slice must
   be whole when its Add ends, which needs the second invariant.
2. Until two Adds overlap. `SoleInv` gives the one Add under way (`AddInv`) what
   it finds and leaves at each step: which words of `s.store` are already the new
   ones, and that the old and the new array agree on the complete registrations.
   Listings do not disturb it (`SoleReader`), so `NothingLost` needs no
   assumption about them.
3. Until an Add overlaps any call (`ApartInv`, which `StillApart` carries over
   every step after which the calls are still apart). `ReaderInv` adds that a
   listing's length and words are those of `s.store` now. `View` is the sequence
   of complete registrations: `ViewGrows` shows that storing the element appends
   it, `ViewStays` that the other steps leave it, `CopyReturnsView` that a
   listing returns it; together they are the refinement. Once an Add overlaps a
   listing it is false: a listing that comes between the store of the length and
   that of the element has an empty slot, which no registry returns.

`NoListingTooLong` has an argument of its own (`CountInv`): a length is always
one more than a length other Adds have stored, so it is at most the number of
Adds that have stored theirs, a set whose size the proof counts.

*WebhookApi.* What the validators accepted has to stay acceptable until it is
added (`AcceptedInv`); since the clock only moves forward, a later reading of it
makes an until less far away.

*Wdmp.* `BodyInv` says what each stage may find in `r.Body`: a captured PATCH body
has lost its error, and the logged command is that of the bytes that are left.
The rest are lemmas about what `loadWDMP` and the payload functions return, for
any number of parameters.

*Ingress and Gateway.* `StartupInv` says how far tables and services are at each
phase; `RequestInv` that a request at a handler got there by the route it
matches and through its chain (`Reached`). The routing theorems then reduce to
lemmas about the tables: which rows a path can match (`Agreement` for both
servers, `StatIsFirst`, `V2Recognised`), for any path, so also for the paths no
run tries. `AnswerInv` ties a response of `Transact` to XMiDT's answer to the
last attempt, `HandlerInv` the stages to the call, `CredentialInv` the
credential to what `TokenSource` offered when the call began: with `DeadlineInv`
of the transactor this gives `RecentAttempts` for any buffer and number of
retries. `GatewayInv` is their conjunction with the invariants of `Transactor`,
used through its own lemmas. `CallIsTransact` shows that a behaviour of the
process is, seen from the call, a behaviour of `Transactor`; its theorems then
hold within the process.

Only model-checked: liveness (`AcquireReturns`, `TransactReturns`,
`RequestAnswered`), which the prover does not handle. Every other property of a
passing run is a theorem.

## 5. What the violations say

* `store_lost`: two POSTs to `/hook` at the same time, both answered 200, leave
  one registration (`primaryHandler.go:188`, no lock).
* `store_listing`: for the same reason a GET of `/hooks` that overlaps an add
  lists an empty slot (`primaryHandler.go:195`).
* `transact_body`: a timeout between headers and end of body is answered 500,
  other timeouts 503 (`transactor.go:123`).
* `gateway_log`: every request logs "Request arrival not capture for logger"
  and no request logs its duration (`transactor.go:140`, inverted condition).
* `wdmp_body`: the read error is dropped in `captureWDMPParameters`; a PATCH
  with sync headers whose body is lost becomes a TEST_AND_SET without
  parameters (`transport_utils.go:148`).
* `hooks_duration`: the changelog promises that invalid durations of version 2
  requests are replaced; next to an until they are not looked at
  (`routes.go:346`) and the validators refuse them.

Seen while modelling, no run of their own:

* With `Buffer < Timeout + Lag`, `ServedTokenIsLive` fails: an expired token
  can be served. The values of the example in `tr1d1um.yaml` (timeout 1m, buffer 2m)
  exclude that, but only for the moment `Acquire` returns.
* A token outlives the call it is acquired for only with a buffer of at least
  `Timeout + Lag + RequestTimeout`. `createAuthAcquirer` asks for a buffer that
  is not 0, and the repository's own values fall short: 2m against 1m and 129s
  (`tr1d1um.yaml:386`, `:389` and `:357`, `main.go:112`). A retry may then carry
  a token that expired up to about 69 seconds before, plus the wait for the
  lock; this is what `AttemptsCarryRecentTokens` bounds and does not exclude.
* The configuration lists Basic credentials (`tr1d1um.yaml:274-278`) that nothing
  in the program reads; `WithBasic` (`auth.go:90`) parses a header of that scheme
  and compares it with nothing. `BearerTokensAreVerified` says so by its name.
* `X-Webpa-Sync-Cmc` alone makes a TEST_AND_SET without a new id, although
  `ErrNewCIDRequired` says it is required; `"attributes": {}` makes a
  SET_ATTRIBUTES that is sent without attributes.
* The registry never removes a webhook: it is listed for ever, while
  `tr1d1um.yaml:201` calls `max` "the length of time a webhook is allowed to live"
  (`RecordedEndWithinMax` is about the recorded end only). Nor does the registry
  survive a restart, while `tr1d1um.yaml` speaks of Argus.
* An answer that comes after its attempt was given up cannot be taken for the
  answer to a later one: the HTTP client gives each attempt an answer of its own.
  The model takes that from the client (`reply[attempt]`) and proves nothing of it.
* The stat service adds XMiDT's transaction id to its own, the config service
  replaces it (`stat/transport.go:126`, `translation/transport.go:205`).
* `--version` needs a configuration file that can be read, and `-h` exits with 1:
  `setup` parses the flags and reads the file first, so the `pflag.ErrHelp`
  branch at the end of `tr1d1um` is not reached (`main.go:173`, `main.go:220`).
* A PATCH of `/device/{deviceid}/stat` goes to the config service, as the stat
  route takes GET only; the parameter routes rely on mux to filter methods
  (`MuxFiltersRequests`), so `ErrUnsupportedMethod` is never answered.
* An authentication failure of the key server's making is answered 400, like an
  invalid token (`auth.go:186`).
* The comment in `fixV2Duration` says a bad duration becomes 5m; it becomes the
  configured maximum.

## 6. Not modelled

Metrics, tracing and packaging: no decision of the running program depends on
them. The health, metrics and pprof servers answer constants or belong to
libraries. The trace header middleware (`EchoFirstTraceNodeInfo`) only adds
headers. Shutdown: fx stops the servers, the program has no code for it. The
principal that `Parse` finds in the claims is logged and handed to libraries, no
decision of the source depends on it; `sanitizeHeaders` (`basculeLogging.go`)
has no caller outside its test. Partner ids: the token type has no attributes,
so they always come from headers, split at commas, and go into the message. The
rules of ancla's validators about URLs, events and partner ids. WRP and JSON
encodings, logger fields. Panics, and damage by stores past the end of an array.

## 7. Plan

Done: 1. `JwtAcquirer` with its proofs; 2. `WebhookStore` with its proofs; 3.
`Transactor` with its proofs; 4. `Routes`, `Startup`, `Ingress`, `Gateway` with
their proofs;
5. `Wdmp` with its proofs; 6. `WebhookApi` with its proofs.

Possible next steps: several requests in `Gateway`, with the detailed
`JwtAcquirer` and `WebhookStore` in the same process, which the refinements make
unnecessary for safety but which would let liveness be checked for the
composition; theorems about the abstract specifications themselves (a later
listing extends an earlier one).
