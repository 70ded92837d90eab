SPECIFICATION FairSpec
CONSTANTS
    N = 1
    QueueCap = 4
    NoRow = NoRow
    Recurring = FALSE
    MaxBeats = 1
    MaxFaults = 1
    MaxCrashes = 1
PROPERTIES OutcomeReaches RowLeaves
