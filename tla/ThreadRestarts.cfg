SPECIFICATION Spec
CONSTANTS
    NumRuns = 3
    Requests <- AllRequests
    MaxExits = 2
    RepeatedText = TRUE
INVARIANTS NeverPostedTwice DeletionConfirmedOnce UncertainNotDeclaredAbsent
    BusyMeansPending
PROPERTIES AcceptedEventuallySettles PostsInOrder NothingSentAfterDeletion ThreadKeepsContract
CHECK_DEADLOCK FALSE
