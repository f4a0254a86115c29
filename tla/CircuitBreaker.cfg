\* Cooldowns that a search may outlive, as shipped, and that none outlives.
SPECIFICATION FairSpec
CONSTANTS
    Requests = {r1, r2, r3}
    Threshold = 2
    Cooldowns = {1, 2}
    TotalTimeout = 1
    MaxRetries = 1
INVARIANTS TypeOK ProbeAlive ProbeExclusive
PROPERTIES  SearchSettles
