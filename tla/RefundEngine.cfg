SPECIFICATION FairSpec
CONSTANTS
    r1 = r1
    r2 = r2
    d1 = d1
    None = None
    Hook = Hook
    Requests <- TwoRequests
    Dashboard <- OneDashboard
    Amount = 2
    Share = 1
    Legs <- TwoLegs
    DisputeAmount = 1
INVARIANTS
    TypeOK
    CascadedOnce
    MoneyIsBooked
    OneBalance
    RoundingIsBounded
PROPERTIES
    EventuallyCascaded
    EventuallyResolved
CHECK_DEADLOCK FALSE
