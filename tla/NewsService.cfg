\* Three callers of two searches, with either store.
SPECIFICATION Spec
CONSTANTS
    None = None
    Callers = {c1, c2, c3}
    Keys = {k1, k2}
    Backends = {"memory", "redis"}
SYMMETRY Symmetry
CHECK_DEADLOCK FALSE
INVARIANTS OneSearchPerKey SubscribersExact NoRedundantLoad
PROPERTY ImplementsSingleFlight
