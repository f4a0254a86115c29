\* With Redis, a connected client whose request joins aborted work gets nothing.
SPECIFICATION RequestSpec
CONSTANTS
    None = None
    c1 = c1
    c2 = c2
    Callers = {c1, c2}
    Keys <- SmallKeys
    Inputs <- SmallInputs
    Backends = {"redis"}
CHECK_DEADLOCK FALSE
INVARIANT DropsOnlyGone
