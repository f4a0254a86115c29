\* Two replicas and any two faults.
SPECIFICATION FairSpec
CONSTANTS
    NoOne = NoOne
    Loaders = {l1, l2}
    TTL = 2
    Heartbeat = 1
    Wait = 2
    MaxPoll = 2
    MaxFaults = 2
INVARIANTS OwnerHolds SingleFill LeakOnlyByAbort WaitBounded
PROPERTIES  ImplementsMiss CallsEnd
