SPECIFICATION Spec
CONSTANTS
    Pids = {1, 2}
    MapSize = 4
    Wrap = 2
    Locs = {1, 2}
    MaxCalls = 2
    LocXor <- MCLocXor
INVARIANTS
    ServerSurvives
    OneChild
    MapOfThisRun
PROPERTIES
    RequestsAnswered
    ServerEndsWithAFL
CHECK_DEADLOCK FALSE
