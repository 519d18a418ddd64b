CONSTANTS
    w1 = w1
    w2 = w2
    k1 = k1
    k2 = k2
    NoWorker = NoWorker
    Workers <- TwoWorkers
    OperatorKeys <- TwoKeys
    MaxAttempts = 3
    MaxVersion = 5
SPECIFICATION FairSpec
INVARIANTS
    TypeOK
    EffectExactlyWhenExecuted
    AttemptsWithinBudget
PROPERTIES
    AbstractSpec
    StaleWorkerHarmless
    ParkedUntilOperator
    ClaimsSettle
