-------------------------- MODULE ExclusiveWindow --------------------------
(***************************************************************************)
(* What the booking core promises of a consultant's calendar, and nothing  *)
(* of how: a request is open, then granted or ended; of two requests whose *)
(* windows overlap at most one is granted at a time; an ended request is   *)
(* never granted again.                                                    *)
(***************************************************************************)
CONSTANTS
    Bookings,   \* the requests
    Overlaps    \* pairs of requests whose windows intersect

VARIABLE standing

Standings == {"open", "granted", "ended"}

Granted == {b \in Bookings : standing[b] = "granted"}

Init == standing = [b \in Bookings |-> "open"]

Grant(b) ==
    /\ standing[b] = "open"
    /\ \A c \in Granted : <<b, c>> \notin Overlaps
    /\ standing' = [standing EXCEPT ![b] = "granted"]

End(b) ==
    /\ standing[b] # "ended"
    /\ standing' = [standing EXCEPT ![b] = "ended"]

Next == \E b \in Bookings : Grant(b) \/ End(b)

Spec == Init /\ [][Next]_standing
=============================================================================
