\* One TaskRun that may be cancelled or deleted; instances, provisioning and
\* any two calls may fail, or the controller may restart.
SPECIFICATION Spec
CONSTANTS
    None = None
    Tasks = {t1}
    Instances = {i1, i2}
    MaxInstances = 2
    Workers = {w1, w2}
    Mishaps = {"cancel", "delete", "broken", "provisionFails", "noSecret"}
    FaultKinds = {"wait", "launch", "conflict", "countFailure", "record",
                  "terminate", "remove", "assign", "provision", "fail",
                  "errorSecret", "release", "deleteSecret", "unassignFailed",
                  "mark", "read", "abandon", "deallocate", "crash"}
    MaxFaults = 2
INVARIANT TypeOK
INVARIANT InstanceAccounted
INVARIANT OneInstancePerTask
INVARIANT HostStaysUp
SYMMETRY Symmetry
CHECK_DEADLOCK FALSE
