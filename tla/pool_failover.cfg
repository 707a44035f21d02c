\* One TaskRun, two hosts: provisioning fails, calls fail, the next host is tried.
SPECIFICATION Spec
CONSTANTS
    None = None
    NumTasks = 1
    Hosts = {h1, h2}
    Concurrency <- OneSlot
    MissingKey = {}
    Workers = {w1, w2}
    Mishaps = {"cancel", "delete", "malformed", "provisionFails", "noSecret", "cleanFails"}
    MaxLag = 2
    PromptWatch = FALSE
    FaultKinds = {"assign", "launch", "unassign", "fail", "errorSecret", "deallocate",
                  "release", "deleteSecret", "unassignFailed"}
    MaxFaults = 1
INVARIANT AssignedKeepsFinalizer
INVARIANT AssignedNotFailed
INVARIANT CopiesConsistent
INVARIANT AssignedHasProvision
INVARIANT OneHostPerTask
INVARIANT NoLeftovers
PROPERTY HostLostForCause
SYMMETRY Symmetry
CHECK_DEADLOCK FALSE
