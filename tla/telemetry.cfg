CONSTANTS
    p1 = p1  p2 = p2
    Procs <- TwoProcs
    Events <- ThreeEvents
    MaxPending = 2
    BatchSize = 1
    Poison <- LastPoison
SPECIFICATION FairSpec
INVARIANTS
    TelemetryTypeOK
    QueueConserves
    SentIsStored
    SentCountNotTooHigh
    CapSparesNewest
PROPERTIES
    QueuedEventsArrive
CHECK_DEADLOCK FALSE
