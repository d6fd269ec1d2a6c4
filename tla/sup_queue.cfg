CONSTANTS
    d1 = d1  d2 = d2  w1 = w1
    Absent = Absent
    Empty = Empty
    Nobody = Nobody
    NoLaunch = NoLaunch
    Runs <- TwoRuns
    Daemons <- OneDaemon
    Readers <- NoReaders
    Once <- NoDaemons
    MaxLaunches = 2
    ResumeLimit = 0
    Faults <- NoFaults
SPECIFICATION FairSpec
INVARIANTS
    OneRunAtATime
    QueueNotRefused
PROPERTIES
    SubmittedRunsSettle
CHECK_DEADLOCK FALSE
