SPECIFICATION Spec
CONSTANTS
    r1 = r1
    r2 = r2
    c1 = c1
    c2 = c2
    c3 = c3
    k1 = k1
    k2 = k2
    Routers = {r1, r2}
    Connections = {c1, c3}
    RouterOf <- MCRouterOf
    Keys = {k1, k2}
    MAX_KEYS = 1
    DEDUP_TTL = 2
    SEQ_TTL = 3
    SOCKET_TIMEOUT = 1
    MaxMessages = 2
    MaxFaults = 1
    MaxTime = 4
SYMMETRY Symmetry
INVARIANT AcceptedOnce
INVARIANT NumbersOfPair
INVARIANT DuplicatesAreCopies
CHECK_DEADLOCK FALSE
