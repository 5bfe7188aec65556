SPECIFICATION Spec
CONSTANTS
    w1 = w1
    w2 = w2
    current = current
    savings = savings
    NoOne = NoOne
    Workers <- MCWorkers
    Accounts <- MCAccounts
    MaxAttempts = 2
    MaxRuns = 2
    MaxFaults = 1
    SlowOperations = TRUE
SYMMETRY Symmetry
INVARIANTS
    TypeOK
    OneExchangePerState
    
    
PROPERTIES
    CompletedRunsStay
CHECK_DEADLOCK FALSE
