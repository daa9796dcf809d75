------------------------------ MODULE JwtAcquirer ------------------------------
(***************************************************************************)
(* transaction.JwtAcquirer: the token cache that the stat and translation  *)
(* services share.  Any number of request goroutines are inside Acquire at *)
(* once.  A caller looks at the cache under the read lock; on a miss it    *)
(* drops the lock, fetches a token with no lock held, and writes the cache *)
(* under the write lock.  The clock is explicit: what matters is how long  *)
(* the token endpoint and the lock keep a caller, because the expiry that  *)
(* is cached counts from the moment the token is stored, and the lifetime  *)
(* the endpoint grants counts from the moment it is issued.                *)
(***************************************************************************)
EXTENDS Integers

CONSTANTS
    Callers,    \* goroutines that may be inside Acquire
    NoCaller,   \* nobody holds the writer side of j.mu
    Timeout,    \* Config.Timeout
    Buffer,     \* Config.Buffer
    ExpiresIn,  \* the expires_in values of the endpoint; 0 when it sends none
    MaxDuration, \* a time.Duration is at least -MaxDuration and less than MaxDuration
    Lag,        \* longest a caller waits for j.mu and the scheduler, per wait
    Horizon,    \* bound: the clock stops here
    NoToken,    \* j.token = "", and the result of a call that has none yet
    Failed      \* the result of a call that returned an error

Tokens == [at : 0 .. Horizon, life : ExpiresIn]

(***************************************************************************)
(* createAuthAcquirer builds a JwtAcquirer only when Timeout and Buffer    *)
(* are non-zero; durations are taken to be positive.                       *)
(***************************************************************************)
ASSUME ConfigAssumption ==
    /\ Timeout \in Nat \ {0}
    /\ Buffer \in Nat \ {0}
    /\ Lag \in Nat \ {0}
    /\ Horizon \in Nat
    /\ ExpiresIn \subseteq Int
    /\ MaxDuration \in Nat \ {0}
    /\ NoCaller \notin Callers
    /\ NoToken \notin Tokens
    /\ Failed \notin Tokens
    /\ NoToken # Failed

VARIABLES
    now,      \* time.Now()
    token,    \* j.token: the time it was issued and the lifetime it was given
    expiry,   \* j.expiry
    readers,  \* callers that hold the read lock of j.mu
    writer,   \* the caller that holds, or has announced itself for, the write lock
    pc,       \* where each caller is inside Acquire
    due,      \* when each caller's present wait is over at the latest, 0 when idle
    got,      \* the token issued for each caller's request, NoToken before that
    result    \* what each caller's last Acquire returned

vars == <<now, token, expiry, readers, writer, pc, due, got, result>>

Stages == {"idle", "called", "check", "fetch", "decoded", "lock", "expiry", "return"}

Init ==
    /\ now = 0
    /\ token = NoToken
    /\ expiry = 0
    /\ readers = {}
    /\ writer = NoCaller
    /\ pc = [c \in Callers |-> "idle"]
    /\ due = [c \in Callers |-> 0]
    /\ got = [c \in Callers |-> NoToken]
    /\ result = [c \in Callers |-> NoToken]

(* Mutant: the expiry is not looked at. *)
CacheFilled == token # NoToken

(* j.token != "" && time.Now().Before(j.expiry) *)
CacheValid == token # NoToken /\ now < expiry

(* time.Duration(ExpiresIn) * time.Second wraps around when the lifetime is too long. *)
Duration(n) ==
    IF n < MaxDuration THEN n ELSE ((n + MaxDuration) % (2 * MaxDuration)) - MaxDuration

(* Mutant: the buffer is not subtracted. *)
ExpiryWithoutBuffer(t, k) == IF k.life > 0 THEN t + Duration(k.life) ELSE t + Buffer

(* The cached expiry of a token stored at time t *)
ExpiryAt(t, k) == IF k.life > 0 THEN t + Duration(k.life) - Buffer ELSE t + Buffer

Goto(c, from, to) ==
    /\ pc[c] = from
    /\ pc' = [pc EXCEPT ![c] = to]

(* Acquire returns r to its caller; its local variables are gone. *)
Return(c, from, r) ==
    /\ Goto(c, from, "idle")
    /\ result' = [result EXCEPT ![c] = r]
    /\ due' = [due EXCEPT ![c] = 0]
    /\ got' = [got EXCEPT ![c] = NoToken]

-----------------------------------------------------------------------------

(* A handler calls Acquire; the bound leaves the call time to finish. *)
Call(c) ==
    /\ now + 3 * Lag + Timeout <= Horizon
    /\ Goto(c, "idle", "called")
    /\ due' = [due EXCEPT ![c] = now + Lag]
    /\ result' = [result EXCEPT ![c] = NoToken]
    /\ UNCHANGED <<now, token, expiry, readers, writer, got>>

(* A writer that is waiting for the readers already blocks new ones. *)
RLock(c) ==
    /\ writer = NoCaller
    /\ Goto(c, "called", "check")
    /\ readers' = readers \cup {c}
    /\ due' = [due EXCEPT ![c] = now + Lag]
    /\ UNCHANGED <<now, token, expiry, writer, got, result>>

CheckHit(c) ==
    /\ CacheValid
    /\ Return(c, "check", token)
    /\ readers' = readers \ {c}
    /\ UNCHANGED <<now, token, expiry, writer>>

(* Mutant: the cache is not consulted. *)
CheckMissAlways(c) ==
    /\ Goto(c, "check", "fetch")
    /\ readers' = readers \ {c}
    /\ due' = [due EXCEPT ![c] = now + Timeout]
    /\ UNCHANGED <<now, token, expiry, writer, got, result>>

(* Mutant: the fetch has no deadline. *)
CheckMissUnbounded(c) ==
    /\ ~CacheValid
    /\ Goto(c, "check", "fetch")
    /\ readers' = readers \ {c}
    /\ due' = [due EXCEPT ![c] = Horizon]
    /\ UNCHANGED <<now, token, expiry, writer, got, result>>

(* The fetch has a deadline of its own, not the inbound request's. *)
CheckMiss(c) ==
    /\ ~CacheValid
    /\ Goto(c, "check", "fetch")
    /\ readers' = readers \ {c}
    /\ due' = [due EXCEPT ![c] = now + Timeout]
    /\ UNCHANGED <<now, token, expiry, writer, got, result>>

(* External: the endpoint issues a token; its reply may still be lost or late. *)
Issue(c) ==
    /\ pc[c] = "fetch"
    /\ got[c] = NoToken
    /\ \E life \in ExpiresIn : got' = [got EXCEPT ![c] = [at |-> now, life |-> life]]
    /\ UNCHANGED <<now, token, expiry, readers, writer, pc, due, result>>

(* Mutant: a body without an access_token is taken. *)
FetchUnchecked(c) ==
    /\ Goto(c, "fetch", "decoded")
    /\ due' = [due EXCEPT ![c] = now + Lag]
    /\ UNCHANGED <<now, token, expiry, readers, writer, got, result>>

(* 200 with a decodable body that has an access_token, within the deadline *)
FetchOK(c) ==
    /\ got[c] # NoToken
    /\ Goto(c, "fetch", "decoded")
    /\ due' = [due EXCEPT ![c] = now + Lag]
    /\ UNCHANGED <<now, token, expiry, readers, writer, got, result>>

ReturnError(c) ==
    /\ Return(c, "fetch", Failed)
    /\ UNCHANGED <<now, token, expiry, readers, writer>>

(* Bad URL, network error, status other than 200, bad JSON, no access_token *)
FetchFails(c) == ReturnError(c)

(* Mutant: the request is made without the context. *)
FetchWithoutContext(c) == FALSE

FetchTimesOut(c) == now >= due[c] /\ ReturnError(c)

(* Mutant: writers do not exclude each other. *)
LockShared(c) ==
    /\ Goto(c, "decoded", "lock")
    /\ writer' = c
    /\ UNCHANGED <<now, token, expiry, readers, due, got, result>>

(* Lock announces the writer, which keeps new readers out ... *)
Lock(c) ==
    /\ writer = NoCaller
    /\ Goto(c, "decoded", "lock")
    /\ writer' = c
    /\ UNCHANGED <<now, token, expiry, readers, due, got, result>>

(* ... and holds the lock once the readers inside have left. *)
StoreToken(c) ==
    /\ readers = {}
    /\ Goto(c, "lock", "expiry")
    /\ token' = got[c]
    /\ UNCHANGED <<now, expiry, readers, writer, due, got, result>>

StoreExpiry(c) ==
    /\ Goto(c, "expiry", "return")
    /\ expiry' = ExpiryAt(now, got[c])
    /\ UNCHANGED <<now, token, readers, writer, due, got, result>>

(* return "Bearer " + j.token, then the deferred Unlock *)
ReturnStored(c) ==
    /\ Return(c, "return", token)
    /\ writer' = NoCaller
    /\ UNCHANGED <<now, token, expiry, readers>>

(* Time passes, but not beyond the end of a wait that must be over first. *)
Tick ==
    /\ now < Horizon
    /\ \A c \in Callers : pc[c] # "idle" => now < due[c]
    /\ now' = now + 1
    /\ UNCHANGED <<token, expiry, readers, writer, pc, due, got, result>>

(* Nobody is inside Acquire and the modelled time is used up. *)
Rest ==
    /\ now + 3 * Lag + Timeout > Horizon
    /\ \A c \in Callers : pc[c] = "idle"
    /\ UNCHANGED vars

Acquire(c) ==
    \/ Call(c)
    \/ RLock(c)
    \/ CheckHit(c)
    \/ CheckMiss(c)
    \/ FetchOK(c)
    \/ FetchFails(c)
    \/ FetchTimesOut(c)
    \/ Lock(c)
    \/ StoreToken(c)
    \/ StoreExpiry(c)
    \/ ReturnStored(c)

Next ==
    \/ \E c \in Callers : Acquire(c) \/ Issue(c)
    \/ Tick
    \/ Rest

(***************************************************************************)
(* A runnable goroutine runs, a context deadline fires, time passes, and   *)
(* sync.RWMutex starves neither readers nor writers.  Nothing is assumed   *)
(* of the token endpoint or of the handlers that call Acquire.             *)
(***************************************************************************)
Fairness ==
    /\ SF_vars(Tick)
    /\ \A c \in Callers :
        /\ SF_vars(RLock(c))
        /\ SF_vars(Lock(c))
        /\ WF_vars(CheckHit(c) \/ CheckMiss(c))
        /\ WF_vars(FetchTimesOut(c))
        /\ WF_vars(StoreToken(c) \/ StoreExpiry(c) \/ ReturnStored(c))

Spec == Init /\ [][Next]_vars

FairSpec == Spec /\ Fairness

-----------------------------------------------------------------------------

TypeOK ==
    /\ now \in 0 .. Horizon
    /\ token \in Tokens \cup {NoToken}
    /\ expiry \in Int
    /\ readers \subseteq Callers
    /\ writer \in Callers \cup {NoCaller}
    /\ pc \in [Callers -> Stages]
    /\ due \in [Callers -> Int]
    /\ got \in [Callers -> Tokens \cup {NoToken}]
    /\ \A c \in Callers : pc[c] \in {"decoded", "lock", "expiry", "return"} => got[c] \in Tokens
    /\ result \in [Callers -> Tokens \cup {NoToken, Failed}]

(***************************************************************************)
(* The shared cache implements TokenSource: whatever the other callers are *)
(* storing at the time, a caller gets a token it just fetched, or one whose*)
(* age stays below its lifetime, less Buffer, plus the time one fetch can  *)
(* take - the cached expiry counts from the store, not from the issue.     *)
(***************************************************************************)
Source == INSTANCE TokenSource WITH
    calling <- {c \in Callers : pc[c] # "idle"}

ImplementsTokenSource == Source!Spec

(***************************************************************************)
(* The point of Buffer ("Refresh before expiry by subtracting the buffer   *)
(* duration"): a token that Acquire returns, cached or just fetched, has   *)
(* not expired at its issuer, unless its lifetime is too short to survive  *)
(* one fetch.  It holds when Buffer covers the time a fetch can take, also *)
(* for lifetimes that are too long for a time.Duration.                    *)
(***************************************************************************)
ServedTokenIsLive ==
    [][\A c \in Callers :
        pc[c] # "idle" /\ pc'[c] = "idle" /\ result'[c] \in Tokens =>
            \/ result'[c].life <= Timeout + Lag
            \/ now < result'[c].at + result'[c].life]_vars

(***************************************************************************)
(* Acquire returns j.token, not the token it decoded: whatever other       *)
(* callers store meanwhile, a caller that fetched returns its own token.   *)
(***************************************************************************)
FetcherReturnsItsToken ==
    \A c \in Callers : pc[c] = "return" => token = got[c]

(***************************************************************************)
(* The stampede of concurrent fetches is bounded by the callers that       *)
(* missed before the store: while the cache is valid (and nobody is        *)
(* rewriting it), every fetch under way began no later than the moment the *)
(* cached token was stored, so a valid cache starts no new fetch.          *)
(***************************************************************************)
StoredAt == IF token.life > 0 THEN expiry + Buffer - Duration(token.life) ELSE expiry - Buffer

NoFetchWhileCached ==
    CacheValid /\ writer = NoCaller =>
        \A c \in Callers : pc[c] = "fetch" => due[c] - Timeout <= StoredAt

(***************************************************************************)
(* Two overlapping fetches may be stored in either order, so the cache can *)
(* go back to an older token; it never goes back further than one fetch    *)
(* can take.                                                               *)
(***************************************************************************)
BoundedRegression ==
    [][token # NoToken /\ token' # token => token.at - token'.at <= Timeout + Lag]_vars

(***************************************************************************)
(* Every Acquire returns, even when the endpoint never answers and other   *)
(* callers keep coming: Timeout bounds the fetch and j.mu is not held      *)
(* across it.                                                              *)
(***************************************************************************)
AcquireReturns == \A c \in Callers : pc[c] # "idle" ~> pc[c] = "idle"

=============================================================================
