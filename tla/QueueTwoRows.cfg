SPECIFICATION FairSpec
CONSTANTS
    w1 = w1
    w2 = w2
    f1 = f1
    Worker <- MCOneWorker
    Scheduler <- MCScheduler
    Fingerprint <- MCFingerprint
    MaxAttempts = 2
    RedisFaults = FALSE
    DbFaults = TRUE
    MaxEvents = 2
    MaxCrashes = 0
    MaxRequeues = 1
INVARIANTS
    OneActiveRow
PROPERTIES
    EventsSettle
CHECK_DEADLOCK FALSE
