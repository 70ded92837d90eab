SPECIFICATION FairSpec
CONSTANTS
    Ids = {i1}
    MaxGen = 2
    MaxFaults = 1
    PoolSize = 1
INVARIANTS TypeOK RunsOnce PredecessorDone OneWaited
PROPERTIES JobEnds
CHECK_DEADLOCK FALSE
