SPECIFICATION FairSpec
CONSTANTS
    None = None
    Instances = {1, 2}
    Callers = {c1, c2}
    IPs = {1, 2, 3, 4, 5}
    MaxFaults = 1
INVARIANT TypeOK
INVARIANT AddressOwned
INVARIANT AddressesBounded
PROPERTY TerminationDone
PROPERTY ResizeEnds
CHECK_DEADLOCK FALSE
