SPECIFICATION Spec
CONSTANTS
    Ids = {e1, e2}
    NoId = NoId
    Attempts = 2
    MaxForgets = 1
    MaxFaults = 0
    MaxCrashes = 0
INVARIANTS ControlSurvives
CHECK_DEADLOCK FALSE
