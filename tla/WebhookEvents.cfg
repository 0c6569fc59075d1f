SPECIFICATION Spec
CONSTANTS
    w1 = w1
    w2 = w2
    s1 = s1
    s2 = s2
    Workers <- OneWorker
    Sweepers <- TwoSweepers
    Providers = {"razorpay", "stream"}
    StaleAfter = 1
    SweepAfter = 1
    GiveUpAfter = 2
    MaxDeliveries = 1
    MaxFaults = 1
SYMMETRY DriverSymmetry
INVARIANTS
    SweepsExclude
CHECK_DEADLOCK FALSE
