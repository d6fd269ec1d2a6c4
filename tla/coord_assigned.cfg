CONSTANTS
    MaxRequests = 1
    MaxAsks = 2
    MaxEvents = 1
    Commands <- Settling
    Cycles = 2
    WithRefs = TRUE
SPECIFICATION Spec
PROPERTIES
    ClosedForCause
CHECK_DEADLOCK FALSE
