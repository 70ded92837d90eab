SPECIFICATION Spec
CONSTANTS
    N = 1
    QueueCap = 8
    NoRow = NoRow
    Recurring = TRUE
    MaxBeats = 2
    MaxFaults = 0
    MaxCrashes = 0

PROPERTIES NoSilentLoss
