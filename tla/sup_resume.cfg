CONSTANTS
    d1 = d1  d2 = d2  w1 = w1
    Absent = Absent
    Empty = Empty
    Nobody = Nobody
    NoLaunch = NoLaunch
    Runs <- OneRun
    Daemons <- OneDaemon
    Readers <- NoReaders
    Once <- NoDaemons
    MaxLaunches = 3
    ResumeLimit = 1
    Faults <- LauncherKills
SPECIFICATION FairSpec
INVARIANTS
    SupervisorTypeOK
    ResumeBudget
PROPERTIES
    SubmittedRunsSettle
CHECK_DEADLOCK FALSE
