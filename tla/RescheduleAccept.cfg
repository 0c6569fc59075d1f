SPECIFICATION Spec
CONSTANTS
    p1 = p1
    m1 = m1
    m2 = m2
    Proposals <- OneProposal
    Movers <- OneMover
    Sold = 2
    MaxRows = 4
    MaxReleases <- OneEach
    Nothing = Nothing
INVARIANTS
    FailedOnlyIfAnswered
CHECK_DEADLOCK FALSE
