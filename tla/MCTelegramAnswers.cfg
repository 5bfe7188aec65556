SPECIFICATION Spec
CONSTANTS
    w1 = w1
    w2 = w2
    Workers <- MCOne
    MaxUpdates = 4
    Conversations <- MCTalks
    MaxAttempts = 2
    SendAttempts = 2
    MaxInvalid = 2
    MaxFaults = 1
    MaxStalls = 0
PROPERTIES
    EveryMessageIsAnswered
