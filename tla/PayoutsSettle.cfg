SPECIFICATION FairSpec
CONSTANTS
    e1 = e1
    p1 = p1
    p2 = p2
    r1 = r1
    r2 = r2
    b1 = b1
    b2 = b2
    NoPayout = NoPayout
    Earnings <- OneEarning
    Payouts <- OnePayout
    Runs <- TwoRuns
    Batchers <- OneBatcher
    Share <- TwoEach
    Minimum = 1
    AutoApprove = 0
    MaxRetries = 2
    MaxCrashes = 2
    MaxRefunds = 1
    MaxDisputes = 1
INVARIANTS
    TypeOK
    LiveKeepsEarnings
    OnlyMaturedIsPaid
PROPERTIES
    PayoutsSettle
CHECK_DEADLOCK FALSE
