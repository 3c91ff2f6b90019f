SPECIFICATION MCSpec
CONSTANTS
    q1 = q1
    q2 = q2
    Request <- MCRequest
    Nobody = Nobody
    HeldSize = 3
    MaxRetries = 3
    VerifyReads = 3
    MaxGlitches = 1
    EntrySize = 3
    Levels = 2
    MaxTargets = 4
    MaxSlips = 2
    MaxEntries = 2
    MaxFaults = 1
    MaxRows = 3
    MaxPays = 1
    Price = 1
    Deposit = 1
    k1 = k1
    b1 = b1
    b2 = b2
    Alert <- MCAlert
    Candidate <- MCCandidate
    Symbol <- MCSymbol
    Earlier = Earlier
    NoWish = NoWish
    Slots = 1
    MaxDaily = 3
    MaxSame = 2
    MaxReloads = 0
    MaxDetached = 0
    Proc <- MCProc
    Loss <- MCLoss
    Check <- MCCheck
    Sampler <- MCSampler
    Equity <- MCEquity
    Falls <- MCFalls
    MaxSamples = 2
    NoValue = NoValue
    MaxTime = 2
    MaxDays = 1
    MaxOutages = 1
INVARIANTS
    ReverseLeavesOneSide
CHECK_DEADLOCK FALSE
