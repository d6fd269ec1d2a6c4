CONSTANTS
    d1 = d1  d2 = d2  w1 = w1
    Absent = Absent
    Empty = Empty
    Nobody = Nobody
    NoLaunch = NoLaunch
    Runs <- OneRun
    Daemons <- TwoDaemons
    Readers <- NoReaders
    Once <- OneDaemon
    MaxLaunches = 3
    ResumeLimit = 1
    Faults <- DaemonFailures
SPECIFICATION Spec
INVARIANTS
    OneLauncherPerRun
    SettledIsQuiet
PROPERTIES
    LockRefined
CONSTRAINT NoMishap
CHECK_DEADLOCK FALSE
