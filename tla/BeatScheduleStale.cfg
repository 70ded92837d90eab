SPECIFICATION FairSpec
CONSTANTS
    OneShotMiss = 3
    PeriodicMiss = 2
    T <- IntervalT
    Horizon = 8
    MaxSyncs = 0
    MaxIngests = 0
    MaxCrashes = 1

PROPERTIES StaleRunningReclaimed
CHECK_DEADLOCK FALSE
