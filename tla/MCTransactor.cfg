\* Two retries, so that the sleeps can outlast RequestTimeout; attempts shorter than the call.
CONSTANTS
    RequestTimeout = 4
    ClientTimeout = 2
    Interval = 1
    Retries = 2
    Codes = {k1, k2}
    NoCode = NoCode
    LastCall = 1
SPECIFICATION FairSpec
INVARIANTS
    TypeOK
    ReturnsInTime
PROPERTIES
    ImplementsXmidtCall
    TransactReturns
