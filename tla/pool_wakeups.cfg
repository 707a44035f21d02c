\* Three TaskRuns compete for one slot, two workers: nobody is forgotten.
SPECIFICATION WaitSpec
CONSTANTS
    None = None
    NumTasks = 3
    Hosts = {h1}
    Concurrency <- OneSlot
    MissingKey = {h1}
    Workers = {w1, w2}
    Mishaps = {}
    MaxLag = 2
    PromptWatch = TRUE
    FaultKinds = {}
    MaxFaults = 0
INVARIANT NoLostWakeup
 
CHECK_DEADLOCK FALSE
