SPECIFICATION Spec
CONSTANTS
    N = 1
    QueueCap = 3
    NoRow = NoRow
    Recurring = TRUE
    MaxBeats = 2
    MaxFaults = 0
    MaxCrashes = 1
INVARIANTS RowOutlivesStep
PROPERTIES DropIsKnown PruneIsKnown
