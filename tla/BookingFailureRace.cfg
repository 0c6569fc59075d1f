SPECIFICATION Spec
CONSTANTS
    b1 = b1
    b2 = b2
    Bookings <- OneBooking
    Overlaps <- NoOverlap
    MaxFaults = 0
PROPERTIES
    SucceededStays
CHECK_DEADLOCK FALSE
