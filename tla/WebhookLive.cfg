SPECIFICATION FairSpec
CONSTANTS
    w1 = w1
    w2 = w2
    s1 = s1
    s2 = s2
    Workers <- OneWorker
    Sweepers <- OneSweeper
    Providers = {"razorpay", "stream"}
    StaleAfter = 1
    SweepAfter = 2
    GiveUpAfter = 3
    MaxDeliveries = 2
    MaxFaults = 1
INVARIANTS
    TypeOK
    NoSilentSuccess
PROPERTIES
    EveryEventSettles
CHECK_DEADLOCK FALSE
