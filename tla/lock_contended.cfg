CONSTANTS
    d1 = d1  d2 = d2  d3 = d3
    Absent = Absent
    Empty = Empty
    Daemons <- ThreeDaemons
SPECIFICATION FairLockSpec
INVARIANTS
    MutualExclusion
    HolderNamedInLock
PROPERTIES
    StaleLockIsReclaimed
    AcquisitionSettles
CHECK_DEADLOCK FALSE
