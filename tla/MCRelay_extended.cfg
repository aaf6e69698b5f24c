SPECIFICATION Spec
CONSTANTS
    MaxSessions = 2
    MaxQueries = 1
    MaxCuts = 0
    Requests = {"query", "parse"}
INVARIANTS
    EveryMessageAnswered
CHECK_DEADLOCK FALSE
