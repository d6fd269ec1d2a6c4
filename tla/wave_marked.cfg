CONSTANTS
    d1 = d1  a1 = a1  a2 = a2  E0 = E0  A8 = A8   A0 = A0
    NoAgent = NoAgent
    Designs <- OneDesign
    Impl <- OneImpl
    Order <- TwoStages
    Required <- Strict
    GapStewards <- NoGaps
    MaxRetries = 1
    Earlier <- NoEvidence
    External <- Nothing
    Targets <- NoTargets
    Overrides <- NoOverrides
SPECIFICATION Spec
INVARIANTS
    MarkedOnGates
CHECK_DEADLOCK FALSE
