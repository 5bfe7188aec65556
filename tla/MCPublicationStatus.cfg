SPECIFICATION Spec
CONSTANTS
    c1 = c1
    h1 = h1
    h2 = h2
    k1 = k1
    k2 = k2
    k3 = k3
    q1 = q1
    q2 = q2
    netWorth = netWorth
    fund = fund
    NoOne = NoOne
    None = None
    Invalid = Invalid
    Clients <- MCClients
    Handlers <- MCHandlers
    Keys <- MCTwoKeys
    Requests <- MCOneRequest
    Slots <- MCSlots
    Contents <- MCContents
    RetryLimit = 1
    MaxVersion = 2
    MaxFaults = 2
    SlowHandlers = FALSE
INVARIANT
    SupersededRecordsHaveNoRun
