SPECIFICATION RuntimeSpec
CONSTANTS
    Runs = {1, 2, 3}
    Threads = {"t1", "t2"}
    ThreadOf <- MCThreadOf
    OpOf <- MCSends
    Reports = {}
    Results <- MCFewResults
    Waited = {1}
    IdleAwaited = FALSE
    MaxConcurrentRuns = 1
    MaxQueueDepth = 2
    SameMillisecond = FALSE
    GateMayFlip = FALSE
INVARIANTS ActiveMeansExecuting WorkConserving BoundedConcurrency
PROPERTIES RequestsComplete QueueKeepsContract QueuedEventuallySettles ShutdownCompletes
CHECK_DEADLOCK FALSE
