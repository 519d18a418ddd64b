CONSTANTS
    w1 = w1
    w2 = w2
    Workers <- TwoWorkers
    MaxAttempts = 2
    MaxEpoch = 5
SPECIFICATION FairSpec
INVARIANTS
    TypeOK
    DeadLetterMatches
    AttemptsExplained
    ReportedIsSent
PROPERTIES
    StaleReportHarmless
    DeliverySettles
