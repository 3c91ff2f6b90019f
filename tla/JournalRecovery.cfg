SPECIFICATION FairSpec
CONSTANTS
    o1 = o1
    o2 = o2
    c1 = c1
    c2 = c2
    Attempt <- MCAttempt
    ClientId <- MCClientId
    MaxFaults = 1
INVARIANTS
    Tracked
    FailureIsReal
    SurfacedOnce
PROPERTIES
    OrdersSurface
CHECK_DEADLOCK FALSE
