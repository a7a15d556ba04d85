SPECIFICATION Safety
CONSTANTS
    Runs = {1, 2}
    Threads = {"t1"}
    ThreadOf <- MCThreadOf
    OpOf <- MCCreateThenDelete
    Reports <- AllReports
    Results <- AllResults
    Waited = {1}
    IdleAwaited = TRUE
    MaxConcurrentRuns = 2
    MaxQueueDepth = 1
    SameMillisecond = TRUE
    GateMayFlip = TRUE
INVARIANTS ThreadSerialization NoForgottenWaiter
PROPERTIES NeverForgetsSubmission OutcomeStands
CHECK_DEADLOCK FALSE
