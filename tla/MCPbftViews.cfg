SPECIFICATION ScheduledSpec
CONSTANTS
    a = a
    b = b
    NoDigest = NoDigest
    N = 4
    Digests = {a, b}
    Window = 1
    CheckpointInterval = 1
    MaxRequests = 8
    MaxView = 8
    MaxCalls = 16
INVARIANT SameOrder
CHECK_DEADLOCK FALSE
