SPECIFICATION Spec
CONSTANTS
    w1 = w1
    w2 = w2
    current = current
    savings = savings
    NoOne = NoOne
    Workers <- MCWorkers
    Accounts <- MCAccounts
    MaxAttempts = 2
    MaxRuns = 3
    MaxFaults = 0
    SlowOperations = FALSE
SYMMETRY Symmetry
INVARIANTS
    LongestBeforeDefault
    IdentityProvenInSession
CHECK_DEADLOCK FALSE
