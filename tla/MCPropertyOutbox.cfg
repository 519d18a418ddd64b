CONSTANTS
    p1 = p1
    p2 = p2
    Publishers <- TwoPublishers
    MaxEvents = 2
    MaxAttempts = 2
    Transports = {"broker", "local"}
    Routed = {2}
    MaxEpoch = 3
    MaxIncidents = 1
SPECIFICATION FairSpec
CHECK_DEADLOCK FALSE
INVARIANTS
    TypeOK
    PublishedInOrder
    DeadLettersMatch
PROPERTIES
    AbstractSpec
    StalePublisherHarmless
    NoEventLost
