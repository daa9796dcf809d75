\* Up to two parameters of every kind: one that decides the command and one that may not fit.
CONSTANT MaxParams = 2
SPECIFICATION Spec
INVARIANTS
    TypeOK
    CommandFitsEveryParameter
    LoggedCommandIsSent
    TestAndSetUsesHeaders
    MuxFiltersRequests
