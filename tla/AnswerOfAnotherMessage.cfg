SPECIFICATION Safety
CONSTANTS
    NumRuns = 2
    Requests <- AllRequests
    MaxExits = 0
    RepeatedText = FALSE
PROPERTIES AnswersItsOwnMessage
CHECK_DEADLOCK FALSE
