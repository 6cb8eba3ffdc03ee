SPECIFICATION FairSpec
CONSTANTS
    a1 = a1
    x = x
    s1 = s1
    s2 = s2
    q1 = q1
    Agents = {a1}
    Bodies = {x}
    Sessions = {s1, s2}
    Calls = {q1}
    HEARTBEAT_TIMEOUT = 1
    MaxTime = 2
    MaxLetters = 2
    MaxFaults = 1
INVARIANT NothingForgotten
INVARIANT OnceUnlessTogether
PROPERTY NoneStaysBehind
