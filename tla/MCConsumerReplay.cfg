CONSTANTS
    p1 = p1
    p2 = p2
    Publishers <- OnePublisher
    MaxEvents = 1
    MaxAttempts = 2
    Transports = {"broker"}
    Routed = {}
    MaxEpoch = 1
    MaxIncidents = 3
SPECIFICATION FairSpec
CHECK_DEADLOCK FALSE
PROPERTIES
    ReplayEnds
