SPECIFICATION LiveSpec
CONSTANTS
    Ids = {e1, e2}
    NoId = NoId
    Attempts = 2
    MaxForgets = 1
    MaxFaults = 2
    MaxCrashes = 1
    w1 = w1
    w2 = w2
    k1 = k1
    k2 = k2
INVARIANTS TypeOK RegistrationsBounded FileAgrees
PROPERTIES IdentitySettles VoiceFollows SeriesEnds EveryoneServed
CHECK_DEADLOCK FALSE
