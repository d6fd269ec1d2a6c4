CONSTANTS
    Waves <- LaneWaves
    Reconcilers <- LaneReconcilers
    MaxAttempts = 2
    MaxRuns = 8
    MaxEvents = 1
    MaxHandOffs = 1
    AutoClosure = FALSE
    DesignWaves <- LaneDesigns
SPECIFICATION AutoFairSpec
INVARIANTS
    AutoTypeOK
    WavesInOrder
PROPERTIES
    AutonomousEnds
    CompletedNotRelaunched
CHECK_DEADLOCK FALSE
