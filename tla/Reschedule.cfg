SPECIFICATION FairSpec
CONSTANTS
    p1 = p1
    m1 = m1
    m2 = m2
    Proposals <- OneProposal
    Movers <- TwoMovers
    Sold = 2
    MaxRows = 4
    MaxReleases <- TwoAndOne
    Nothing = Nothing
INVARIANTS
    TypeOK
    ConsultationKeepsItsSession
    YesMeansMoved
PROPERTIES
    EndedStaysEnded
    EveryProposalIsAnswered
    QueueEmpties
CHECK_DEADLOCK FALSE
