SPECIFICATION FairSpec
CONSTANTS
    w1 = w1
    w2 = w2
    Callers <- TwoWorkers
    Heart = hb
    Songs <- TwoSongs
    Length = 1
    MaxCalls = 2
    MaxFaults = 0
PROPERTIES HeartbeatGoesOn
CHECK_DEADLOCK FALSE
