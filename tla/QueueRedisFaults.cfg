SPECIFICATION Spec
CONSTANTS
    w1 = w1
    w2 = w2
    f1 = f1
    Worker <- MCWorker
    Scheduler <- MCScheduler
    Fingerprint <- MCFingerprint
    MaxAttempts = 2
    RedisFaults = TRUE
    DbFaults = FALSE
    MaxEvents = 2
    MaxCrashes = 0
    MaxRequeues = 0
INVARIANTS
    OnePipeline
    SingleSubmission
CHECK_DEADLOCK FALSE
