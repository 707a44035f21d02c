\* Any two calls fail, or the controller restarts: the finalizer still goes.
SPECIFICATION FairSpec
CONSTANTS
    None = None
    NumTasks = 1
    Hosts = {h1, h2}
    Concurrency <- OneSlot
    MissingKey = {h2}
    Workers = {w1}
    Mishaps = {"cancel", "delete", "malformed", "provisionFails", "noSecret", "cleanFails"}
    MaxLag = 2
    PromptWatch = FALSE
    FaultKinds = {"assign", "wait", "launch", "key", "unassign", "fail",
                  "errorSecret", "configFail", "configSecret", "deallocate",
                  "release", "deleteSecret", "wake", "unassignFailed", "mark",
                  "read", "crash"}
    MaxFaults = 2
PROPERTY FinalizerRemoved
CHECK_DEADLOCK FALSE
