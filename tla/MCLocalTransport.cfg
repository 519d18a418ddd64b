CONSTANTS
    p1 = p1
    p2 = p2
    Publishers <- OnePublisher
    MaxEvents = 1
    MaxAttempts = 2
    Transports = {"local"}
    Routed = {1}
    MaxEpoch = 1
    MaxIncidents = 1
SPECIFICATION FairSpec
CHECK_DEADLOCK FALSE
PROPERTIES
    RoutedIsProjected
