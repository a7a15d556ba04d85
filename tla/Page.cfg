SPECIFICATION Spec
CONSTANTS
    HistoryMayLag = FALSE
    OldAnswerMayGrow = FALSE
    RepeatedText = FALSE
    CopyReadable = TRUE
    LoginRedirects = FALSE
INVARIANTS AnswersWithFinalText DeletionTold
PROPERTY PageKeepsContract
CHECK_DEADLOCK FALSE
