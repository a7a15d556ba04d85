SPECIFICATION Safety
CONSTANTS
    NumRuns = 4
    Requests <- AllRequests
    MaxExits = 0
    RepeatedText = FALSE
INVARIANTS OneDeletionPending
CHECK_DEADLOCK FALSE
