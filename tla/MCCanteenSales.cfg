CONSTANTS
    o1 = o1
    o2 = o2
    Orders <- TwoOrders
    Amounts <- OnePrice
    Grant = 3
    Months = 2
    MaxRefunds <- TwoOfTheFirst
SPECIFICATION FairSpec
INVARIANTS
    TypeOK
    RecordsAgree
    ReturnedOnce
PROPERTIES
    JournalExplains
    BrokenByShortfallOrLateGrant
    SaleSpec
    OpenSaleCloses
CHECK_DEADLOCK FALSE
