SPECIFICATION Spec
CONSTANTS
    c1 = c1
    h1 = h1
    h2 = h2
    k1 = k1
    k2 = k2
    k3 = k3
    q1 = q1
    q2 = q2
    netWorth = netWorth
    fund = fund
    NoOne = NoOne
    None = None
    Invalid = Invalid
    Clients <- MCClients
    Handlers <- MCHandlers
    Keys <- MCKeys
    Requests <- MCRequests
    Slots <- MCSlots
    Contents <- MCContents
    RetryLimit = 1
    MaxVersion = 3
    MaxFaults = 1
    SlowHandlers = TRUE
SYMMETRY Symmetry
INVARIANTS
    AuthorityIsNewestRun
    
    SupersessionIsAHistory
    ExactlyOnceEffects
    CompletedJobsAreSettled
PROPERTIES
    AuthorityMovesForward
