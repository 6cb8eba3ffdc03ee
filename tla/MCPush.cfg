SPECIFICATION FairSpec
CONSTANTS
    c1 = c1
    w1 = w1
    s1 = s1
    p1 = p1
    Loop = Loop
    Nobody = Nobody
    Conns = {c1, s1}
    Senders = {c1}
    Workers = {w1}
    Listeners = {c1, s1}
    MaxSubs = 2
    MaxSlow = 1
    MaxGone = 1
    Pairs = {p1}
    MaxMsgs = 3
    MaxSeq = 3
    MaxCopies = 2
    MAX_BUFFER_SIZE = 2
    REORDER_TIMEOUT = 0
    CLEANUP_INTERVAL = 9
    MAX_PAIRS = 1
    LastArrival = 1
    MaxTime = 2
INVARIANT NoneLeftOut
INVARIANT PushedOnce
INVARIANT OvertakesOnlySuspended
PROPERTY EventuallyPushed
CHECK_DEADLOCK FALSE
