\* One application and its connection, over a content that changes.
SPECIFICATION ClientSpec
CONSTANTS
    MaxSafe = 2000000
    Connections = {s1}
    Codes = {"ERR_HTTP_REQUEST_TIMEOUT"}
    Environments <- SmallEnvironments
    MaxBack = 1
    MaxEvents = 4
    Versions = {v1, v2}
    Hints <- SmallHints
SYMMETRY Symmetry
INVARIANTS ClientTypeOK ResponsesIntact CopyCurrent  SuppressionAccounted 
