SPECIFICATION MCSpec
CONSTANTS
    m1 = m1
    m2 = m2
    m3 = m3
    w1 = w1
    Messages = {m1, m2, m3}
    Workers = {w1}
    MaxSize = 2
    AGING_NORMAL_TO_HIGH = 0
    AGING_HIGH_TO_CRITICAL = 1
INVARIANT InOnePlace
INVARIANT CriticalOvertakenOnce
INVARIANT OldestFirstWithRoom
PROPERTY NoStarvationWithRoom
