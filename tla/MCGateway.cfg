\* One retry.  As with the values in tr1d1um.yaml the buffer covers a fetch (Timeout + Lag),
\* but not a fetch and a call.  Lifetimes: none given, one shorter than a fetch and a
\* call, and one as long.
CONSTANTS
    RequestTimeout = 3
    ClientTimeout = 2
    Interval = 1
    Retries = 1
    Codes <- MCCodes
    DeviceCodes <- MCDeviceCodes
    NoCode = NoCode
    LastCall = 4
    Timeout = 1
    Buffer = 2
    Lag = 1
    ExpiresIn = {0, 3, 5}
    Horizon = 8
    ClientHeader = ClientHeader
    BasicHeader = BasicHeader
    Pending = Pending
    Failed = Failed
    Configs <- MCConfigs
    Requests <- MCRequests
    NoRequest = NoRequest
SPECIFICATION FairGatewaySpec
INVARIANTS
    GatewayTypeOK
    ServesAsConfigured
    ServersAgree
    StatServesStat
    BearerTokensAreVerified
    V2HooksAreFixed
    SuccessIsGenuine
    ConfigAnswersOwnTID
PROPERTIES
    AttemptsCarryRecentTokens
    RequestAnswered
