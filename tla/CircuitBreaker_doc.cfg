\* The shipped timing against the documented half-open probe.
SPECIFICATION Spec
CONSTANTS
    Requests = {r1, r2, r3}
    Threshold = 2
    Cooldowns = {1}
    TotalTimeout = 2
    MaxRetries = 1
INVARIANT AtMostOneProbe
