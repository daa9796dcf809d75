------------------------------ MODULE TokenSource ------------------------------
(***************************************************************************)
(* What AuthAcquirer promises the stat and translation services when it is *)
(* a JwtAcquirer: every call of Acquire that returns a token returns one   *)
(* that was issued at most one fetch ago, or one that the cache may still  *)
(* serve.  How callers share the cache is not visible.                     *)
(***************************************************************************)
EXTENDS Integers

CONSTANTS
    Callers,   \* goroutines that may call Acquire
    Timeout,   \* Config.Timeout
    Buffer,    \* Config.Buffer
    ExpiresIn, \* the expires_in values of the endpoint; 0 when it sends none
    Lag,       \* longest wait for a lock or for the scheduler
    Horizon,   \* bound on the clock
    NoToken,   \* no result yet
    Failed     \* Acquire returned an error

VARIABLES
    now,     \* time.Now()
    calling, \* the callers inside Acquire
    result   \* what each caller's last Acquire returned

(* Mutant: the buffer is not subtracted. *)
ExpiryWithoutBuffer(t, k) == IF k.life > 0 THEN t + k.life ELSE t + Buffer

(* The moment a token stored at time t stops being served from the cache *)
ExpiryAt(t, k) == IF k.life > 0 THEN t + k.life - Buffer ELSE t + Buffer

(* The age of a token that was fetched by the caller *)
JustFetched(k, t) == t <= k.at + Timeout + Lag

(* The age of a token from the cache: it was stored one fetch after its issue, or sooner. *)
StillCached(k, t) == t < ExpiryAt(k.at, k) + Timeout + Lag

(* The tokens Acquire may return at time t *)
Offered(t) ==
    {k \in [at : 0 .. Horizon, life : ExpiresIn] :
        k.at <= t /\ (JustFetched(k, t) \/ StillCached(k, t))}

Init ==
    /\ now = 0
    /\ calling = {}
    /\ result = [c \in Callers |-> NoToken]

Begin(c) ==
    /\ c \notin calling
    /\ calling' = calling \cup {c}
    /\ result' = [result EXCEPT ![c] = NoToken]
    /\ UNCHANGED now

Return(c) ==
    /\ c \in calling
    /\ calling' = calling \ {c}
    /\ \E r \in Offered(now) \cup {Failed} : result' = [result EXCEPT ![c] = r]
    /\ UNCHANGED now

Tick ==
    /\ now' = now + 1
    /\ UNCHANGED <<calling, result>>

Next == Tick \/ \E c \in Callers : Begin(c) \/ Return(c)

Spec == Init /\ [][Next]_<<now, calling, result>>

=============================================================================
