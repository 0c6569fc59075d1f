SPECIFICATION Spec
CONSTANTS
    e1 = e1
    p1 = p1
    p2 = p2
    r1 = r1
    r2 = r2
    b1 = b1
    b2 = b2
    NoPayout = NoPayout
    Earnings <- OneEarning
    Payouts <- TwoPayouts
    Runs <- OneRun
    Batchers <- OneBatcher
    Share <- OneEach
    Minimum = 1
    AutoApprove = 2
    MaxRetries = 2
    MaxCrashes = 0
    MaxRefunds = 0
    MaxDisputes = 0
SYMMETRY PayoutSymmetry
INVARIANTS
    FailedNeverPaidAgain
CHECK_DEADLOCK FALSE
