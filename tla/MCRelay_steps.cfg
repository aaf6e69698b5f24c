SPECIFICATION Spec
CONSTANTS
    MaxSessions = 5
    MaxQueries = 6
    MaxCuts = 3
    Requests = {"query"}
INVARIANTS
    TypeOK
    InStep
    LagBounded
    ReplyOnItsWay
    ForeignResults
CHECK_DEADLOCK FALSE
