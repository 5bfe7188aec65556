SPECIFICATION FairSpec
CONSTANTS
    w1 = w1
    w2 = w2
    current = current
    savings = savings
    NoOne = NoOne
    Workers <- MCWorkers
    Accounts <- MCAccounts
    MaxAttempts = 1
    MaxRuns = 2
    MaxFaults = 1
    SlowOperations = FALSE
PROPERTY
    ConsentExpiryIsNoticed
CHECK_DEADLOCK FALSE
