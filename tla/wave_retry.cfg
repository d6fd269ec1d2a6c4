CONSTANTS
    d1 = d1  a1 = a1  a2 = a2  E0 = E0  A8 = A8  A0 = A0
    NoAgent = NoAgent
    Designs <- OneDesign
    Impl <- TwoImpl
    Order <- EvalAndQa
    Required <- Strict
    GapStewards <- EvalGaps
    MaxRetries = 1
    Earlier <- SomePassed
    External <- Requests
    Targets <- SomeTargets
    Overrides <- SomeOverrides
CONSTRAINT Bounds
SPECIFICATION FairSpec
INVARIANTS
    WaveTypeOK
    CompletedOnEvidence
    ClosureJudgesFinalCode
PROPERTIES
    ProvenOwnersReused
    DesignBeforeImplementation
    WaveSettles
CHECK_DEADLOCK FALSE
