\* Two TaskRuns compete for one instance, and the controller may restart once.
SPECIFICATION Spec
CONSTANTS
    None = None
    Tasks = {t1, t2}
    Instances = {i1, i2}
    MaxInstances = 1
    Workers = {w1, w2}
    Mishaps = {}
    FaultKinds = {"crash"}
    MaxFaults = 1
INVARIANT InstanceBound
SYMMETRY Symmetry
CHECK_DEADLOCK FALSE
