\* The free spots are counted from the cache.
SPECIFICATION Spec
CONSTANTS
    None = None
    NumTasks = 2
    Hosts = {h1}
    Concurrency <- OneSlot
    MissingKey = {}
    Workers = {w1}
    Mishaps = {}
    MaxLag = 1
    PromptWatch = TRUE
    FaultKinds = {}
    MaxFaults = 0
INVARIANT HostCapacity
CHECK_DEADLOCK FALSE
