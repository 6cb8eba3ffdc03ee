SPECIFICATION ReorderFairSpec
CONSTANTS
    p1 = p1
    p2 = p2
    Pairs = {p1, p2}
    MaxMsgs = 4
    MaxSeq = 3
    MaxCopies = 2
    MAX_BUFFER_SIZE = 2
    REORDER_TIMEOUT = 0
    CLEANUP_INTERVAL = 1
    MAX_PAIRS = 1
    LastArrival = 2
    MaxTime = 3
INVARIANT OneFate
INVARIANT ReleasedInOrder
INVARIANT NoneReadyWaits
INVARIANT OnlyOvertakenSkipped
PROPERTY EventuallyReleased
CHECK_DEADLOCK FALSE
