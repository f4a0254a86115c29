\* Three requests in any state when the signal arrives.
SPECIFICATION FairSpec
CONSTANTS
    Requests = {r1, r2, r3}
    Timeout = 3
CHECK_DEADLOCK FALSE
INVARIANTS TypeOK CleanExit DeadlineMet RequestsSpared
PROPERTY Exits
