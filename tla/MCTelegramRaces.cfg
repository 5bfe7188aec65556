SPECIFICATION Spec
CONSTANTS
    w1 = w1
    w2 = w2
    Workers <- MCWorkers
    MaxUpdates = 3
    Conversations <- MCRaces
    MaxAttempts = 2
    SendAttempts = 2
    MaxInvalid = 2
    MaxFaults = 1
    MaxStalls = 1
SYMMETRY Symmetry
INVARIANTS
    TypeOK
    NothingIsLost
    CorrectedOnce
    ResendOnlyWhatHadNoEffect
    NoDuplicateReply
PROPERTIES
    AppliedOnce
