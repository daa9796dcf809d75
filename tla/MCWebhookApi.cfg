\* Two handlers, one registration; durations none, below and above Max; untils past, near and too far.
CONSTANTS
    Callers = {c1, c2}
    Max = 2
    Jitter = 1
    Durations = {0, 1, 3}
    Untils = {0, 3, 5}
    NoTime = NoTime
    Horizon = 3
    MaxHooks = 1
SPECIFICATION Spec
INVARIANTS
    TypeOK
    RecordedEndWithinMax
    V2TimesAccepted
