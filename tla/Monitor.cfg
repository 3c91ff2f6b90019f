SPECIFICATION MCSpec
CONSTANTS
    m1 = m1
    r1 = r1
    s1 = s1
    Monitor = Monitor
    NoOne = NoOne
    Manual <- MCManual
    Reverse <- MCReverse
    Signal <- MCSignal
    Qty = 2
    MaxFaults = 1
    MaxPrice = 1
    MaxQty = 2
    MaxMishaps = 3
    Threshold = 2
    MaxLies = 3
    MaxFailures = 1
INVARIANTS
    NothingUnbooked
    ClosedMeansFlat
    NeverBare
    GhostIsEarned
    NoOrphanedEntry
PROPERTIES
    NeverReopened
    GoneIsBooked
    StopReturns
    GoneIsClosed
    
CHECK_DEADLOCK FALSE
