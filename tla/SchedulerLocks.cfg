SPECIFICATION Spec
CONSTANTS
    Callers = {c1, c2, c3, c4}
    Keys = {k1, k2}
    Entries = {e1, e2, e3}
    Capacity = 3
    NoKey = NoKey
    NoEntry = NoEntry
INVARIANTS PermitsConserved NobodyWaitsInVain
    MutualExclusion EntriesMatchUse
PROPERTIES EveryCallerServed
