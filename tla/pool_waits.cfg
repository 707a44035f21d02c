\* Three TaskRuns compete for one slot: one of them waits for ever.
SPECIFICATION WaitSpec
CONSTANTS
    None = None
    NumTasks = 3
    Hosts = {h1}
    Concurrency <- OneSlot
    MissingKey = {}
    Workers = {w1}
    Mishaps = {}
    MaxLag = 1
    PromptWatch = TRUE
    FaultKinds = {}
    MaxFaults = 0
PROPERTY EventuallyServed
CHECK_DEADLOCK FALSE
