SPECIFICATION Spec
CONSTANTS
    MaxGenerations = 2
    Attempts = 2
    MaxLogins = 1
INVARIANT ClosedLeavesNothing
CHECK_DEADLOCK FALSE
