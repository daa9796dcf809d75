\* No retries: the first response's body is cut off by the deadline.
CONSTANTS
    RequestTimeout = 2
    ClientTimeout = 3
    Interval = 1
    Retries = 0
    Codes = {k1}
    NoCode = NoCode
    LastCall = 0
SPECIFICATION Spec
INVARIANT FailuresAreCoded
