CONSTANTS
    maker = maker
    ann = ann
    bob = bob
    cai = cai
    k1 = k1
    k2 = k2
    Actors = {maker, ann, bob, cai}
    Requester = maker
    Submitter = maker
    Excluded = {}
    StageCount = 2
    Required <- MCRequired
    Eligible <- MCEligible
    Keys <- TwoKeys
    MaxSent = 5
SPECIFICATION Spec
SYMMETRY KeySymmetry
CHECK_DEADLOCK FALSE
INVARIANTS
    TypeOK
    ApprovedByQuorum
    StagesInOrder
    CountsMatchRows
    OneCommandPerView
PROPERTIES
    FinalIsFinal
