CONSTANTS
    c1 = c1
    c2 = c2
    k1 = k1
    k2 = k2
    b1 = b1
    Calls <- TwoCalls
    Keys <- TwoKeys
    Bodies <- OneBody
    Uses <- VoidAtLeastOnce
    MaxRows = 2
    MaxVersion = 5
SYMMETRY Symmetric
SPECIFICATION Spec
CHECK_DEADLOCK FALSE
INVARIANTS
    TypeOK
    RequestsInLine
    LeaseFollowsRequests
    AnswersFollowKey
