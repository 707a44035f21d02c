SPECIFICATION FairSpec
CONSTANTS
    None = None
    Tasks = {t1, t2}
    Instances = {1, 2}
    MaxInstances = 1
    Concurrency = 2
    MaxFaults = 1
INVARIANT TypeOK
INVARIANT HostStaysUp
INVARIANT YoungBound
INVARIANT DirtyForCause
PROPERTY Served
PROPERTY OldHostGoes
CHECK_DEADLOCK FALSE
