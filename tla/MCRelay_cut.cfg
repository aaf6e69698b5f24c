SPECIFICATION Spec
CONSTANTS
    MaxSessions = 2
    MaxQueries = 2
    MaxCuts = 1
    Requests = {"query"}
INVARIANTS
    ReplyMatchesRequest
CHECK_DEADLOCK FALSE
