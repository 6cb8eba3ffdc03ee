SPECIFICATION FairSpec
CONSTANTS
    s1 = s1
    s2 = s2
    Senders = {s1, s2}
    Attempts = 2
    IncidentLimit = 2
    RecoveryThreshold = 2
    MaxSends = 3
    MaxConns = 8
    MaxTasks = 1
    MaxFaults = 2
INVARIANT InOrder
INVARIANT NoneVanishes
PROPERTY AllTaken
PROPERTY BufferIsWritten
CHECK_DEADLOCK FALSE
