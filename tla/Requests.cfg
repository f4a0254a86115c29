\* Two requests, with either store.
SPECIFICATION FairRequestSpec
CONSTANTS
    None = None
    c1 = c1
    c2 = c2
    Callers = {c1, c2}
    Keys <- SmallKeys
    Inputs <- SmallInputs
    Backends = {"memory", "redis"}
CHECK_DEADLOCK FALSE
INVARIANTS RequestTypeOK DropsExplained WorkForClients CoalescedAlike
PROPERTIES ImplementsMiss RequestsSettle
