\* One TaskRun: it is served, and its instances are terminated, whatever one
\* call fails and whenever it is cancelled or deleted.
SPECIFICATION FairSpec
CONSTANTS
    None = None
    Tasks = {t1}
    Instances = {i1, i2}
    MaxInstances = 1
    Workers = {w1}
    Mishaps = {"cancel", "delete", "broken", "provisionFails", "noSecret"}
    FaultKinds = {"wait", "launch", "conflict", "countFailure", "record",
                  "terminate", "remove", "assign", "provision", "fail",
                  "errorSecret", "release", "deleteSecret", "unassignFailed",
                  "mark", "read", "abandon", "deallocate"}
    MaxFaults = 1
PROPERTY InstanceTerminated
PROPERTY EventuallyServed
CHECK_DEADLOCK FALSE
