SPECIFICATION Spec
CONSTANTS
    MaxGenerations = 3
    Attempts = 2
    MaxLogins = 1
INVARIANTS GateOpenMeansContext LossNoticed
PROPERTY RefreshAnswered
CHECK_DEADLOCK FALSE
