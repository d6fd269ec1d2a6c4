CONSTANTS
    MaxRequests = 2
    MaxAsks = 2
    MaxEvents = 2
    Commands <- Settling
    Cycles = 2
    WithRefs = FALSE
SPECIFICATION Spec
INVARIANTS
    CoordinationTypeOK
    OneBlockingEscalation
    AnsweredIsRecorded
PROPERTIES
    ClosedForCause
CHECK_DEADLOCK FALSE
