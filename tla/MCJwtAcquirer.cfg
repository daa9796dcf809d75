\* Two callers; Buffer covers a whole fetch (Timeout + Lag), so cached tokens are live.
\* Lifetimes: none given, long enough to be served, and one that is too long for a duration:
\* it wraps around, and the cache drops its token at once.
CONSTANTS
    Callers = {c1, c2}
    NoCaller = NoCaller
    NoToken = NoToken
    Failed = Failed
    Timeout = 1
    Buffer = 2
    Lag = 1
    ExpiresIn = {0, 4, 6}
    MaxDuration = 5
    Horizon = 6
SPECIFICATION FairSpec
INVARIANTS
    TypeOK
    FetcherReturnsItsToken
    NoFetchWhileCached
PROPERTIES
    ImplementsTokenSource
    ServedTokenIsLive
    BoundedRegression
    AcquireReturns
