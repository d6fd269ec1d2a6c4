\* Two launchers on a lane, two sessions of one agent.
CONSTANTS
    l1 = l1  l2 = l2
    Absent = Absent
    Empty = Empty
    NoFile = NoFile
    Launchers <- TwoLaunchers
    MaxSessions = 2
SPECIFICATION FairSpec
INVARIANTS
    SessionTypeOK
    OneLauncherPerLane
    SuccessIsFinished
PROPERTIES
    AgentRunRefined
    WaitsEnd
CONSTRAINT OneMishap
CHECK_DEADLOCK FALSE
