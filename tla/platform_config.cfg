SPECIFICATION MCSpec
CONSTANTS
    None = None
    Tasks = {t1, t2}
    Platforms <- MCPlatforms
    Wants <- MCWants
    Datas <- MCDatas
    Resolve <- MCResolve
    Label <- MCLabel
    MapIds = {1, 2, 3, 4}
    MaxVersions = 2
    MaxFaults = 1
INVARIANT TypeOK
INVARIANT CacheCoherent
INVARIANT TagsStayInPlatform
INVARIANT LeftoverForCause
INVARIANT RegistrationHeld
INVARIANT TagChecked
PROPERTY EventuallyReleased
CHECK_DEADLOCK FALSE
