SPECIFICATION Spec
CONSTANTS
    OneShotMiss = 3
    PeriodicMiss = 2
    T <- IntervalT
    Horizon = 8
    MaxSyncs = 0
    MaxIngests = 1
    MaxCrashes = 0
INVARIANTS OncePerBeat

CHECK_DEADLOCK FALSE
