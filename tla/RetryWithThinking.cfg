SPECIFICATION Spec
CONSTANTS
    Requests <- MCThoughtful
    NoKey = NoKey
    MaxThreads = 2
    MaxRuns = 5
    MaxQueueDepth = 2
    ConfiguredThinking = "medium"
    RemoteConfigured = FALSE
    Ids <- MCIds
    SameMillisecond = FALSE
PROPERTIES RetryReturnsSameRun
CHECK_DEADLOCK FALSE
