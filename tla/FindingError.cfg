SPECIFICATION Spec
CONSTANTS
    w1 = w1
    w2 = w2
    f1 = f1
    Worker <- MCWorker
    Scheduler <- MCScheduler
    Fingerprint <- MCFingerprint
    MaxAttempts = 2
    RedisFaults = FALSE
    DbFaults = FALSE
    MaxEvents = 1
    MaxCrashes = 0
    MaxRequeues = 0
INVARIANTS
    ErrorIsPreExecution
CHECK_DEADLOCK FALSE
