SPECIFICATION FairSpec
CONSTANTS
    w1 = w1
    w2 = w2
    f1 = f1
    Worker <- MCWorker
    Scheduler <- MCScheduler
    Fingerprint <- MCFingerprint
    MaxAttempts = 3
    RedisFaults = FALSE
    DbFaults = TRUE
    MaxEvents = 1
    MaxCrashes = 2
    MaxRequeues = 1
INVARIANTS
    OnePipeline
    RetryBeforeExchange
PROPERTIES
    ReviewIsFinal
    ImplementsContract
    EventsSettle
CHECK_DEADLOCK FALSE
