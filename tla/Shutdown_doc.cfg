\* The documented cleanup, when the deadline forces the exit.
SPECIFICATION Spec
CONSTANTS
    Requests = {r1}
    Timeout = 1
CHECK_DEADLOCK FALSE
INVARIANT ConnectionsClosed
