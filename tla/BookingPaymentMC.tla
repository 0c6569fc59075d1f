------------------------- MODULE BookingPaymentMC --------------------------
(* Instances of BookingPayment small enough for TLC: one window, wanted by   *)
(* one or two buyers.                                                        *)
EXTENDS BookingPayment, TLC

CONSTANTS b1, b2

OneBooking  == {b1}
TwoBookings == {b1, b2}
NoOverlap   == {}
BothOverlap == {<<b1, b2>>, <<b2, b1>>}

\* Overlapping bookings of one window are interchangeable.
BookingSymmetry == Permutations(Bookings)
=============================================================================
