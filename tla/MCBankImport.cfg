SPECIFICATION Spec
CHECK_DEADLOCK FALSE
CONSTANTS
    k1 = k1
    k2 = k2
    Keys = {k1, k2}
    Pages = 2
    PageOf <- MCPageOf
    Amounts = {1, 2}
    Opening = 5
    Threshold = 0
    Workers = {w1, w2}
    Nothing = Nothing
    MaxDay = 1
    MaxRuns = 4
    Futures <- MCFutures
    MaxFaults = 1
    FaultsFrom = 1
    StallsFrom = 3
INVARIANTS
    TypeOK
    LedgerFollowsTheBank
    CorrectedOnce
    CoverageIsScanned
PROPERTY
    ConfirmedIsImported
SYMMETRY MCWorkers
