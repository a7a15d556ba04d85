SPECIFICATION CliSpec
CONSTANTS
    Requests <- MCRequests
    Executions <- MCExecutions
    NoKey = NoKey
    MaxThreads = 2
    MaxRuns = 4
    MaxQueueDepth = 2
    ConfiguredThinking = "medium"
    RemoteConfigured = TRUE
    Ids <- MCIds
    SameMillisecond = TRUE
INVARIANTS AtMostOneRunPerRequest KeyNeverMixesRequests
    NoConsecutiveRepeats PrintsItsOwnMessage
PROPERTIES RetryReturnsSameRun NamesNoEarlierRun
CHECK_DEADLOCK FALSE
