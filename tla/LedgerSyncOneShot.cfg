SPECIFICATION Spec
CONSTANTS
    N = 2
    QueueCap = 4
    NoRow = NoRow
    Recurring = FALSE
    MaxBeats = 1
    MaxFaults = 1
    MaxCrashes = 1
INVARIANTS TypeOK QueueSound OutcomeInv OutcomeKept RowOutlivesStep
PROPERTIES NoSilentLoss DropIsKnown ImplementsDelivery
