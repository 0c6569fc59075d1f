SPECIFICATION FairSpec
CONSTANTS
    b1 = b1
    b2 = b2
    Bookings <- OneBooking
    Overlaps <- NoOverlap
    MaxFaults = 2
PROPERTIES
    UnpaidHoldIsReleased
CHECK_DEADLOCK FALSE
