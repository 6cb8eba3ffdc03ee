SPECIFICATION Spec
CONSTANTS
    a = a
    b = b
    NoDigest = NoDigest
    N = 4
    Digests = {a, b}
    Window = 2
    CheckpointInterval = 2
    MaxRequests = 3
    MaxView = 2
    MaxCalls = 4
SYMMETRY Symmetry
INVARIANT AcceptedIsExecuted
INVARIANT OnlyLastVoterLags
PROPERTY ImplementsLog
CHECK_DEADLOCK FALSE
