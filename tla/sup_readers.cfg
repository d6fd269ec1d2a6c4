CONSTANTS
    d1 = d1  d2 = d2  w1 = w1
    Absent = Absent
    Empty = Empty
    Nobody = Nobody
    NoLaunch = NoLaunch
    Runs <- OneRun
    Daemons <- OneDaemon
    Readers <- OneReader
    Once <- NoDaemons
    MaxLaunches = 2
    ResumeLimit = 0
    Faults <- SpawnFailures
SPECIFICATION Spec
INVARIANTS
    SuccessHasEvidence
PROPERTIES
    SettledStays
CONSTRAINT OneRunMishap
CHECK_DEADLOCK FALSE
