\* A version 2 request with an Until and a Duration above Max.
CONSTANTS
    Callers = {c1}
    Max = 2
    Jitter = 1
    Durations = {0, 1, 3}
    Untils = {0, 3, 5}
    NoTime = NoTime
    Horizon = 0
    MaxHooks = 1
SPECIFICATION Spec
INVARIANT V2DurationFixed
