\* A small instance: the log line does not depend on time or tokens.
CONSTANTS
    RequestTimeout = 3
    ClientTimeout = 2
    Interval = 1
    Retries = 1
    Codes <- MCCodes
    DeviceCodes <- MCDeviceCodes
    NoCode = NoCode
    LastCall = 0
    Timeout = 1
    Buffer = 2
    Lag = 1
    ExpiresIn = {5}
    Horizon = 4
    ClientHeader = ClientHeader
    BasicHeader = BasicHeader
    Pending = Pending
    Failed = Failed
    Configs <- MCOneConfig
    Requests <- MCOneRequest
    NoRequest = NoRequest
SPECIFICATION GatewaySpec
INVARIANT ComplainsOnlyWithoutArrival
