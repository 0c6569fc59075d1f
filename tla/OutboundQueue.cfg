SPECIFICATION FairSpec
CONSTANTS
    t1 = t1
    t2 = t2
    d1 = d1
    Nobody = Nobody
    Ticks <- TwoTicks
    Deliveries <- OneDelivery
    MaxAttempts = 3
    DisableAfter = 2
    MaxFaults = 1
    MaxOverruns = 1
    MaxPatches = 1
    MaxReplays = 1
INVARIANTS
    TypeOK
    PostsAreCounted
    SuccessWasAccepted
PROPERTIES
    SettledStaysSettled
    EveryDeliverySettles
CHECK_DEADLOCK FALSE
