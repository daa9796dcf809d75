--------------------------- MODULE JwtAcquirerProofs ---------------------------
(***************************************************************************)
(* Theorems about JwtAcquirer, for any number of callers and any values of *)
(* the constants.                                                          *)
(***************************************************************************)
EXTENDS JwtAcquirer, TLAPS

(***************************************************************************)
(* j.mu: the readers are the callers that look at the cache, the writer is *)
(* the caller that is storing, and they exclude each other once it writes. *)
(***************************************************************************)
LockInv ==
    /\ \A c \in Callers : c \in readers <=> pc[c] = "check"
    /\ \A c \in Callers : writer = c <=> pc[c] \in {"lock", "expiry", "return"}
    /\ \A c \in Callers : pc[c] \in {"expiry", "return"} => readers = {}

(* A fetch is never older than Timeout, nor the token it obtained. *)
FetchInv ==
    \A c \in Callers :
        /\ pc[c] \in {"idle", "called", "check"} => got[c] = NoToken
        /\ pc[c] = "fetch" =>
            /\ now <= due[c]
            /\ due[c] <= now + Timeout
            /\ got[c] # NoToken => got[c].at <= now /\ due[c] <= got[c].at + Timeout

(* A token on its way to the cache is at most Timeout + Lag old. *)
StoreInv ==
    \A c \in Callers : pc[c] \in {"decoded", "lock", "expiry", "return"} =>
        /\ got[c] # NoToken
        /\ got[c].at <= now
        /\ now <= due[c]
        /\ due[c] <= got[c].at + Timeout + Lag

(* The writer is between j.token = ... and j.expiry = ... *)
Torn == \E c \in Callers : pc[c] = "expiry"

(* What is cached, and that a valid cache starts no fetch. *)
CacheInv ==
    /\ token # NoToken => token.at <= now
    /\ token # NoToken /\ ~Torn =>
        /\ token.at <= StoredAt
        /\ StoredAt <= now
        /\ StoredAt <= token.at + Timeout + Lag
    /\ CacheValid /\ ~Torn =>
        \A c \in Callers : pc[c] = "fetch" => due[c] - Timeout <= StoredAt
    /\ \A c \in Callers : pc[c] \in {"expiry", "return"} => token = got[c]

IInv == TypeOK /\ LockInv /\ FetchInv /\ StoreInv /\ CacheInv


-----------------------------------------------------------------------------

(* A lifetime that wraps around gets shorter, never longer. *)
LEMMA DurationBound == ASSUME NEW n \in Int PROVE Duration(n) \in Int /\ Duration(n) <= n
  <1>1. CASE n < MaxDuration
    BY <1>1 DEF Duration
  <1>2. CASE ~(n < MaxDuration)
    <2>1. n + MaxDuration \in Nat /\ 2 * MaxDuration \in Nat \ {0}
      BY <1>2, ConfigAssumption
    <2>2. \A a \in Nat, b \in Nat \ {0} : a % b \in Nat /\ a % b <= a
      OBVIOUS
    <2>3. (n + MaxDuration) % (2 * MaxDuration) \in Nat
      BY <2>1, <2>2
    <2>4. (n + MaxDuration) % (2 * MaxDuration) <= n + MaxDuration
      BY <2>1, <2>2
    <2>. QED
      BY <1>2, <2>3, <2>4, ConfigAssumption DEF Duration
  <1>. QED
    BY <1>1, <1>2

(* The parts of a token, as the provers need them. *)
LEMMA TokenFields ==
  \A k \in Tokens :
    /\ k.at \in 0 .. Horizon
    /\ k.life \in Int
    /\ Duration(k.life) \in Int
    /\ Duration(k.life) <= k.life
  BY ConfigAssumption, DurationBound DEF Tokens

(* In the initial state nobody is inside Acquire and nothing is cached. *)
LEMMA InitInv == Init => IInv
  BY ConfigAssumption
  DEF Init, IInv, TypeOK, LockInv, FetchInv, StoreInv, CacheInv, Torn, CacheValid,
      Stages, Tokens

(* A call begins: the cache and the other callers are untouched. *)
LEMMA CallStep == ASSUME IInv, NEW c \in Callers, Call(c) PROVE IInv'
  <1> USE ConfigAssumption DEF IInv, Call, Goto, Stages, Tokens
  <1>1. TypeOK'
    BY DEF TypeOK
  <1>2. LockInv'
    BY DEF TypeOK, LockInv
  <1>3. FetchInv'
    BY DEF TypeOK, FetchInv
  <1>4. StoreInv'
    BY DEF TypeOK, FetchInv, StoreInv
  <1>5. CacheInv'
    BY DEF TypeOK, LockInv, FetchInv, StoreInv, CacheInv, CacheValid, StoredAt, ExpiryAt, Torn
  <1>. QED
    BY <1>1, <1>2, <1>3, <1>4, <1>5

(* A reader enters only when no writer has announced itself. *)
LEMMA RLockStep == ASSUME IInv, NEW c \in Callers, RLock(c) PROVE IInv'
  <1> USE ConfigAssumption DEF IInv, RLock, Goto, Stages, Tokens
  <1>1. TypeOK'
    BY DEF TypeOK
  <1>2. LockInv'
    BY DEF TypeOK, LockInv
  <1>3. FetchInv'
    BY DEF TypeOK, FetchInv
  <1>4. StoreInv'
    BY DEF TypeOK, FetchInv, StoreInv
  <1>5. CacheInv'
    BY DEF TypeOK, LockInv, FetchInv, StoreInv, CacheInv, CacheValid, StoredAt, ExpiryAt, Torn
  <1>. QED
    BY <1>1, <1>2, <1>3, <1>4, <1>5

(* A cache hit leaves the cache as it is. *)
LEMMA CheckHitStep == ASSUME IInv, NEW c \in Callers, CheckHit(c) PROVE IInv'
  <1> USE ConfigAssumption DEF IInv, CheckHit, Return, Goto, Stages, Tokens
  <1>1. TypeOK'
    BY DEF TypeOK
  <1>2. LockInv'
    BY DEF TypeOK, LockInv
  <1>3. FetchInv'
    BY DEF TypeOK, FetchInv
  <1>4. StoreInv'
    BY DEF TypeOK, FetchInv, StoreInv
  <1>5. CacheInv'
    BY DEF TypeOK, LockInv, FetchInv, StoreInv, CacheInv, CacheValid, StoredAt, ExpiryAt, Torn
  <1>. QED
    BY <1>1, <1>2, <1>3, <1>4, <1>5

(* A fetch begins only when the cache is not valid. *)
LEMMA CheckMissStep == ASSUME IInv, NEW c \in Callers, CheckMiss(c) PROVE IInv'
  <1> USE ConfigAssumption DEF IInv, CheckMiss, Goto, Stages, Tokens
  <1>1. TypeOK'
    BY DEF TypeOK
  <1>2. LockInv'
    BY DEF TypeOK, LockInv
  <1>3. FetchInv'
    BY DEF TypeOK, FetchInv
  <1>4. StoreInv'
    BY DEF TypeOK, FetchInv, StoreInv
  <1>5. CacheInv'
    BY DEF TypeOK, LockInv, FetchInv, StoreInv, CacheInv, CacheValid, StoredAt, ExpiryAt, Torn
  <1>. QED
    BY <1>1, <1>2, <1>3, <1>4, <1>5

(* The token is issued no earlier than its fetch began. *)
LEMMA IssueStep == ASSUME IInv, NEW c \in Callers, Issue(c) PROVE IInv'
  <1> USE ConfigAssumption DEF IInv, Issue, Stages, Tokens
  <1>1. TypeOK'
    BY DEF TypeOK
  <1>2. LockInv'
    BY DEF TypeOK, LockInv
  <1>3. FetchInv'
    BY DEF TypeOK, FetchInv
  <1>4. StoreInv'
    BY DEF TypeOK, FetchInv, StoreInv
  <1>5. CacheInv'
    BY DEF TypeOK, LockInv, FetchInv, StoreInv, CacheInv, CacheValid, StoredAt, ExpiryAt, Torn
  <1>. QED
    BY <1>1, <1>2, <1>3, <1>4, <1>5

(* A decoded token is at most Timeout old. *)
LEMMA FetchOKStep == ASSUME IInv, NEW c \in Callers, FetchOK(c) PROVE IInv'
  <1> USE ConfigAssumption DEF IInv, FetchOK, Goto, Stages, Tokens
  <1>1. TypeOK'
    BY DEF TypeOK
  <1>2. LockInv'
    BY DEF TypeOK, LockInv
  <1>3. FetchInv'
    BY DEF TypeOK, FetchInv
  <1>4. StoreInv'
    BY DEF TypeOK, FetchInv, StoreInv
  <1>5. CacheInv'
    BY DEF TypeOK, LockInv, FetchInv, StoreInv, CacheInv, CacheValid, StoredAt, ExpiryAt, Torn
  <1>. QED
    BY <1>1, <1>2, <1>3, <1>4, <1>5

(* A failed fetch leaves the cache as it is. *)
LEMMA ReturnErrorStep == ASSUME IInv, NEW c \in Callers, ReturnError(c) PROVE IInv'
  <1> USE ConfigAssumption DEF IInv, ReturnError, Return, Goto, Stages, Tokens
  <1>1. TypeOK'
    BY DEF TypeOK
  <1>2. LockInv'
    BY DEF TypeOK, LockInv
  <1>3. FetchInv'
    BY DEF TypeOK, FetchInv
  <1>4. StoreInv'
    BY DEF TypeOK, FetchInv, StoreInv
  <1>5. CacheInv'
    BY DEF TypeOK, LockInv, FetchInv, StoreInv, CacheInv, CacheValid, StoredAt, ExpiryAt, Torn
  <1>. QED
    BY <1>1, <1>2, <1>3, <1>4, <1>5

(* The writer keeps new readers out. *)
LEMMA LockStep == ASSUME IInv, NEW c \in Callers, Lock(c) PROVE IInv'
  <1> USE ConfigAssumption DEF IInv, Lock, Goto, Stages, Tokens
  <1>1. TypeOK'
    BY DEF TypeOK
  <1>2. LockInv'
    BY DEF TypeOK, LockInv
  <1>3. FetchInv'
    BY DEF TypeOK, FetchInv
  <1>4. StoreInv'
    BY DEF TypeOK, FetchInv, StoreInv
  <1>5. CacheInv'
    BY DEF TypeOK, LockInv, FetchInv, StoreInv, CacheInv, CacheValid, StoredAt, ExpiryAt, Torn
  <1>. QED
    BY <1>1, <1>2, <1>3, <1>4, <1>5

(* The token is stored when no reader is inside, by the only writer. *)
LEMMA StoreTokenStep == ASSUME IInv, NEW c \in Callers, StoreToken(c) PROVE IInv'
  <1> USE ConfigAssumption DEF IInv, StoreToken, Goto, Stages
  <1>1. TypeOK'
    BY DEF TypeOK
  <1>2. LockInv'
    BY DEF TypeOK, LockInv
  <1>3. FetchInv'
    BY DEF TypeOK, FetchInv
  <1>4. StoreInv'
    BY DEF TypeOK, FetchInv, StoreInv
  <1>5. Torn' /\ token' = got[c] /\ got' = got /\ now' = now
    BY DEF TypeOK, Torn
  <1>6. \A d \in Callers : pc'[d] \in {"expiry", "return"} => d = c
    BY DEF TypeOK, LockInv
  <1>7. CacheInv'
    BY <1>5, <1>6 DEF TypeOK, StoreInv, CacheInv
  <1>. QED
    BY <1>1, <1>2, <1>3, <1>4, <1>7

(* The expiry that is stored belongs to the stored token. *)
LEMMA StoreExpiryStep == ASSUME IInv, NEW c \in Callers, StoreExpiry(c) PROVE IInv'
  <1> USE ConfigAssumption DEF IInv, StoreExpiry, Goto, Stages
  <1>1. /\ got[c] \in Tokens
        /\ got[c].at \in Int
        /\ got[c].life \in Int
        /\ Duration(got[c].life) \in Int
        /\ now \in Int
    BY TokenFields DEF TypeOK, StoreInv
  <1>2. TypeOK'
    BY <1>1 DEF TypeOK, ExpiryAt
  <1>3. LockInv'
    BY DEF TypeOK, LockInv
  <1>4. FetchInv'
    BY DEF TypeOK, FetchInv
  <1>5. StoreInv'
    BY DEF TypeOK, FetchInv, StoreInv
  <1>6. StoredAt' = now
    BY <1>1 DEF CacheInv, StoredAt, ExpiryAt
  <1>7. CacheInv'
    <2>1. token = got[c] /\ token' = token /\ got' = got /\ now' = now /\ due' = due
      BY DEF CacheInv
    <2>2. got[c].at <= now /\ now <= got[c].at + Timeout + Lag
      BY <1>1 DEF TypeOK, StoreInv
    <2>3. \A d \in Callers : pc'[d] = "fetch" => due[d] - Timeout <= now
      BY <1>1 DEF TypeOK, FetchInv
    <2>4. \A d \in Callers : pc'[d] \in {"expiry", "return"} => token = got[d]
      BY <2>1 DEF TypeOK, CacheInv
    <2>. QED
      BY <1>1, <1>6, <2>1, <2>2, <2>3, <2>4 DEF CacheInv
  <1>. QED
    BY <1>2, <1>3, <1>4, <1>5, <1>7

(* The writer leaves a consistent pair behind. *)
LEMMA ReturnStoredStep == ASSUME IInv, NEW c \in Callers, ReturnStored(c) PROVE IInv'
  <1> USE ConfigAssumption DEF IInv, ReturnStored, Return, Goto, Stages, Tokens
  <1>1. TypeOK'
    BY DEF TypeOK
  <1>2. LockInv'
    BY DEF TypeOK, LockInv
  <1>3. FetchInv'
    BY DEF TypeOK, FetchInv
  <1>4. StoreInv'
    BY DEF TypeOK, FetchInv, StoreInv
  <1>5. CacheInv'
    BY DEF TypeOK, LockInv, FetchInv, StoreInv, CacheInv, CacheValid, StoredAt, ExpiryAt, Torn
  <1>. QED
    BY <1>1, <1>2, <1>3, <1>4, <1>5

(* Time never passes the end of a wait, and only makes the cache less valid. *)
LEMMA TickStep == ASSUME IInv, Tick PROVE IInv'
  <1> USE ConfigAssumption DEF IInv, Tick, Stages
  <1>1. TypeOK'
    BY DEF TypeOK
  <1>2. LockInv'
    BY DEF TypeOK, LockInv
  <1>3. FetchInv'
    BY DEF TypeOK, FetchInv, Tokens
  <1>4. StoreInv'
    BY DEF TypeOK, StoreInv, Tokens
  <1>5. /\ Torn' = Torn
        /\ StoredAt' = StoredAt
        /\ CacheValid' => CacheValid
    BY DEF TypeOK, Torn, StoredAt, CacheValid
  <1>6. token # NoToken => StoredAt \in Int
    BY TokenFields DEF TypeOK, StoredAt
  <1>7. CacheInv'
    BY <1>5, <1>6 DEF TypeOK, CacheInv, CacheValid, Tokens
  <1>. QED
    BY <1>1, <1>2, <1>3, <1>4, <1>7

(* Every step keeps the inductive invariant. *)
LEMMA NextInv == IInv /\ [Next]_vars => IInv'
  <1> SUFFICES ASSUME IInv, [Next]_vars PROVE IInv'
    OBVIOUS
  <1>1. ASSUME NEW c \in Callers, Acquire(c) PROVE IInv'
    BY <1>1, CallStep, RLockStep, CheckHitStep, CheckMissStep, FetchOKStep, ReturnErrorStep,
       LockStep, StoreTokenStep, StoreExpiryStep, ReturnStoredStep
    DEF Acquire, FetchFails, FetchTimesOut
  <1>2. ASSUME NEW c \in Callers, Issue(c) PROVE IInv'
    BY <1>2, IssueStep
  <1>3. CASE Tick
    BY <1>3, TickStep
  <1>4. CASE UNCHANGED vars
    BY <1>4 DEF vars, IInv, TypeOK, LockInv, FetchInv, StoreInv, CacheInv, CacheValid, StoredAt,
       Torn
  <1>. QED
    BY <1>1, <1>2, <1>3, <1>4 DEF Next, Rest

(* The invariant holds in every reachable state. *)
LEMMA Inductive == Spec => []IInv
  BY InitInv, NextInv, PTL DEF Spec

-----------------------------------------------------------------------------

(* The variables of the shared cache and of every caller keep their types. *)
THEOREM TypeCorrect == Spec => []TypeOK
  <1>1. IInv => TypeOK
    BY DEF IInv
  <1>. QED
    BY <1>1, Inductive, PTL

(***************************************************************************)
(* The refinement: the steps that are visible to a caller are Call and the *)
(* four ways to return; the others move only the lock, the cache and the   *)
(* fetches, which TokenSource does not show.                               *)
(***************************************************************************)
Inside == {c \in Callers : pc[c] # "idle"}

(* A step inside Acquire does not show. *)
LEMMA InnerStep ==
  ASSUME TypeOK, NEW c \in Callers, NEW from \in Stages \ {"idle"}, NEW to \in Stages \ {"idle"},
         Goto(c, from, to)
  PROVE  Inside' = Inside
  BY DEF TypeOK, Goto, Inside, Stages

(* A return shows as Return, when TokenSource offers what is returned. *)
LEMMA ReturnStep ==
  ASSUME TypeOK, NEW c \in Callers, NEW from \in Stages \ {"idle"},
         NEW r \in Source!Offered(now) \cup {Failed},
         Return(c, from, r), now' = now
  PROVE  Source!Return(c)
  <1>1. c \in Inside /\ Inside' = Inside \ {c}
    BY DEF TypeOK, Return, Goto, Inside, Stages
  <1>. QED
    BY <1>1 DEF Return, Source!Return, Inside

(* What the cache serves is offered: its expiry counts from a store at most one fetch late. *)
LEMMA CachedIsOffered ==
  ASSUME IInv, NEW c \in Callers, pc[c] = "check", CacheValid
  PROVE  token \in Source!Offered(now)
  <1>1. ~Torn
    BY DEF IInv, LockInv, Torn
  <1>2. /\ token \in Tokens
        /\ token.at \in Int
        /\ token.life \in Int
        /\ Duration(token.life) \in Int
        /\ Duration(token.life) <= token.life
    BY TokenFields DEF IInv, TypeOK, CacheValid
  <1>3. token.at <= now /\ StoredAt <= token.at + Timeout + Lag
    BY <1>1 DEF IInv, CacheInv, CacheValid
  <1>4. now < Source!ExpiryAt(token.at, token) + Timeout + Lag
    BY <1>2, <1>3, ConfigAssumption DEF IInv, TypeOK, CacheValid, StoredAt, Source!ExpiryAt
  <1>. QED
    BY <1>2, <1>3, <1>4 DEF Source!Offered, Source!StillCached, Tokens

(* What a fetcher returns is offered: it is what it fetched, within Timeout and one wait. *)
LEMMA FetchedIsOffered ==
  ASSUME IInv, NEW c \in Callers, pc[c] = "return"
  PROVE  token \in Source!Offered(now)
  <1>1. /\ token = got[c]
        /\ token # NoToken
        /\ token.at <= now
        /\ now <= due[c]
        /\ due[c] <= token.at + Timeout + Lag
    BY DEF IInv, StoreInv, CacheInv
  <1>2. token \in Tokens /\ token.at \in Int /\ now \in Int /\ due[c] \in Int
    BY <1>1, TokenFields DEF IInv, TypeOK
  <1>3. now <= token.at + Timeout + Lag
    BY <1>1, <1>2, ConfigAssumption
  <1>. QED
    BY <1>1, <1>2, <1>3 DEF Source!Offered, Source!JustFetched, Tokens

(***************************************************************************)
(* The shared cache implements TokenSource for any number of callers and   *)
(* any configuration: ImplementsTokenSource.                               *)
(***************************************************************************)
THEOREM Implements == Spec => ImplementsTokenSource
  <1>1. Init => Source!Init
    BY DEF Init, Source!Init
  <1>2. IInv /\ [Next]_vars => [Source!Next]_<<now, Inside, result>>
    <2> SUFFICES ASSUME IInv, [Next]_vars
                 PROVE  Source!Next \/ UNCHANGED <<now, Inside, result>>
      OBVIOUS
    <2> USE DEF IInv
    <2>1. ASSUME NEW c \in Callers, Call(c) PROVE Source!Begin(c)
      <3>1. c \notin Inside /\ Inside' = Inside \cup {c}
        BY <2>1 DEF Call, Goto, Inside, TypeOK
      <3>. QED
        BY <2>1, <3>1 DEF Call, Source!Begin, Inside
    <2>2. ASSUME NEW c \in Callers, CheckHit(c) PROVE Source!Return(c)
      <3>1. token \in Source!Offered(now)
        BY <2>2, CachedIsOffered DEF CheckHit, Return, Goto
      <3>. QED
        BY <2>2, <3>1, ReturnStep DEF CheckHit, Stages
    <2>3. ASSUME NEW c \in Callers, ReturnStored(c) PROVE Source!Return(c)
      <3>1. token \in Source!Offered(now)
        BY <2>3, FetchedIsOffered DEF ReturnStored, Return, Goto
      <3>. QED
        BY <2>3, <3>1, ReturnStep DEF ReturnStored, Stages
    <2>4. ASSUME NEW c \in Callers, ReturnError(c) PROVE Source!Return(c)
      BY <2>4, ReturnStep DEF ReturnError, Stages
    <2>5. ASSUME NEW c \in Callers,
                 RLock(c) \/ CheckMiss(c) \/ FetchOK(c) \/ Lock(c) \/ StoreToken(c) \/ StoreExpiry(c)
          PROVE  UNCHANGED <<now, Inside, result>>
      <3>1. PICK from \in Stages \ {"idle"}, to \in Stages \ {"idle"} : Goto(c, from, to)
        BY <2>5 DEF RLock, CheckMiss, FetchOK, Lock, StoreToken, StoreExpiry, Stages
      <3>2. Inside' = Inside
        BY <3>1, InnerStep
      <3>. QED
        BY <2>5, <3>2 DEF RLock, CheckMiss, FetchOK, Lock, StoreToken, StoreExpiry
    <2>6. ASSUME NEW c \in Callers, Issue(c) PROVE UNCHANGED <<now, Inside, result>>
      BY <2>6 DEF Issue, Inside
    <2>7. CASE Tick
      BY <2>7 DEF Tick, Source!Next, Source!Tick
    <2>8. CASE UNCHANGED vars
      BY <2>8 DEF vars, Inside
    <2>. QED
      BY <2>1, <2>2, <2>3, <2>4, <2>5, <2>6, <2>7, <2>8
      DEF Next, Acquire, FetchFails, FetchTimesOut, Rest, Source!Next
  <1>3. [Source!Next]_<<now, Inside, result>> => [Source!Next]_<<now, {c \in Callers : pc[c] # "idle"}, result>>
    BY DEF Inside
  <1>. QED
    BY <1>1, <1>2, <1>3, Inductive, PTL DEF Spec, ImplementsTokenSource, Source!Spec

(* A caller that fetched returns the token it fetched: FetcherReturnsItsToken. *)
THEOREM OwnToken == Spec => []FetcherReturnsItsToken
  <1>1. IInv => FetcherReturnsItsToken
    BY DEF IInv, CacheInv, FetcherReturnsItsToken
  <1>. QED
    BY <1>1, Inductive, PTL

(* While the cache is valid every fetch under way began before the store: NoFetchWhileCached. *)
THEOREM NoLateFetch == Spec => []NoFetchWhileCached
  <1>1. IInv => NoFetchWhileCached
    <2> SUFFICES ASSUME IInv, CacheValid, writer = NoCaller,
                        NEW c \in Callers, pc[c] = "fetch"
                 PROVE  due[c] - Timeout <= StoredAt
      BY DEF NoFetchWhileCached
    <2>1. ~Torn
      BY ConfigAssumption DEF IInv, LockInv, Torn
    <2>. QED
      BY <2>1 DEF IInv, CacheInv
  <1>. QED
    BY <1>1, Inductive, PTL

(* The cache goes back at most one fetch: BoundedRegression. *)
THEOREM Regression == Spec => BoundedRegression
  <1>1. IInv /\ [Next]_vars =>
            [token # NoToken /\ token' # token => token.at - token'.at <= Timeout + Lag]_vars
    <2> SUFFICES ASSUME IInv, Next, token # NoToken, token' # token
                 PROVE  token.at - token'.at <= Timeout + Lag
      BY DEF vars
    <2>1. PICK c \in Callers : StoreToken(c)
      BY DEF Next, Acquire, Call, RLock, CheckHit, CheckMiss, Issue, FetchOK, FetchFails,
         FetchTimesOut, ReturnError, Lock, StoreExpiry, ReturnStored, Tick, Rest, vars
    <2>2. /\ token' = got[c]
          /\ got[c] \in Tokens
          /\ token \in Tokens
          /\ now \in Int
          /\ due[c] \in Int
      BY <2>1 DEF StoreToken, Goto, IInv, TypeOK, StoreInv
    <2>3. token.at <= now /\ now <= due[c] /\ due[c] <= got[c].at + Timeout + Lag
      BY <2>1 DEF StoreToken, Goto, IInv, StoreInv, CacheInv
    <2>. QED
      BY <2>2, <2>3, TokenFields, ConfigAssumption
  <1>. QED
    BY <1>1, Inductive, PTL DEF Spec, BoundedRegression

(***************************************************************************)
(* When Buffer covers the slowest fetch, no caller is handed a token that  *)
(* its issuer already rejects: ServedTokenIsLive.                          *)
(***************************************************************************)
THEOREM LiveTokens ==
  ASSUME Timeout + Lag <= Buffer PROVE Spec => ServedTokenIsLive
  <1> DEFINE Live == \A c \in Callers :
        pc[c] # "idle" /\ pc'[c] = "idle" /\ result'[c] \in Tokens =>
            \/ result'[c].life <= Timeout + Lag
            \/ now < result'[c].at + result'[c].life
  <1>1. IInv /\ [Next]_vars => [Live]_vars
    <2> SUFFICES ASSUME IInv, Next, NEW c \in Callers,
                        pc[c] # "idle", pc'[c] = "idle", result'[c] \in Tokens,
                        Timeout + Lag < result'[c].life
                 PROVE  now < result'[c].at + result'[c].life
      BY TokenFields, ConfigAssumption
    <2>1. CheckHit(c) \/ ReturnStored(c)
      BY ConfigAssumption
      DEF Next, Acquire, Call, RLock, CheckHit, CheckMiss, Issue, FetchOK, FetchFails,
          FetchTimesOut, ReturnError, Lock, StoreToken, StoreExpiry, ReturnStored, Tick, Rest,
          vars, Return, Goto, IInv, TypeOK, Stages
    <2>2. result'[c] = token /\ token \in Tokens
      BY <2>1 DEF CheckHit, ReturnStored, Return, IInv, TypeOK
    <2>3. /\ token.at \in Int /\ token.life \in Int /\ now \in Int /\ expiry \in Int
          /\ Duration(token.life) \in Int
          /\ Duration(token.life) <= token.life
      BY <2>2, TokenFields DEF IInv, TypeOK
    <2>4. CASE CheckHit(c)
      <3>1. ~Torn /\ CacheValid
        BY <2>4 DEF CheckHit, Return, Goto, IInv, TypeOK, LockInv, Torn
      <3>2. StoredAt <= token.at + Timeout + Lag
        BY <3>1 DEF CacheValid, IInv, CacheInv
      <3>. QED
        BY <2>2, <2>3, <3>1, <3>2, ConfigAssumption DEF CacheValid, StoredAt
    <2>5. CASE ReturnStored(c)
      <3>1. token = got[c] /\ now <= due[c] /\ due[c] <= token.at + Timeout + Lag
        BY <2>5 DEF ReturnStored, Return, Goto, IInv, StoreInv, CacheInv
      <3>2. due[c] \in Int
        BY DEF IInv, TypeOK
      <3>. QED
        BY <2>2, <2>3, <3>1, <3>2, ConfigAssumption
    <2>. QED
      BY <2>1, <2>4, <2>5
  <1>. QED
    BY <1>1, Inductive, PTL DEF Spec, ServedTokenIsLive

=============================================================================
