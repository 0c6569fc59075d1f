SPECIFICATION Spec
CONSTANTS
    b1 = b1
    b2 = b2
    Bookings <- TwoBookings
    Overlaps <- BothOverlap
    MaxFaults = 1
SYMMETRY BookingSymmetry
INVARIANTS
    TypeOK
    NoDoubleBooking
    BookedOnlyIfCaptured
    HoldsAreBacked
    RefundAtMostOnce
    LoserStaysOut
PROPERTIES
    TerminalRequestsStayTerminal
    ImplementsWindow
CHECK_DEADLOCK FALSE
