\* Two requests of one client, at the same replica or at two, one of them over the quota.
SPECIFICATION MCSpec
CONSTANTS
    firstRequest = r1
    firstReplica = p1
    Requests = {r1, r2}
    Replicas = {p1, p2}
    Limit = 1
    Window = 2
    Connect = 2
    Command = 1
    MaxCommands = 2
CHECK_DEADLOCK FALSE
INVARIANTS TypeOK QuotaShared CheckBounded
PROPERTIES ImplementsQuota ChecksEnd
