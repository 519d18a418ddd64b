CONSTANTS
    w1 = w1
    w2 = w2
    Workers <- TwoWorkers
    MaxAttempts = 2
    MaxEpoch = 2
SPECIFICATION FairSpec
PROPERTIES
    RetriesAlways
