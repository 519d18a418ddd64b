CONSTANTS
    w1 = w1
    w2 = w2
    k1 = k1
    k2 = k2
    NoWorker = NoWorker
    Workers <- TwoWorkers
    OperatorKeys <- OneKey
    MaxAttempts = 3
    MaxVersion = 4
SPECIFICATION FairSpec
PROPERTIES
    IncidentRetryResumes
