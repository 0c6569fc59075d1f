---------------------------- MODULE RescheduleMC ----------------------------
(* Instances of Reschedule small enough for TLC. *)
EXTENDS Reschedule

CONSTANTS p1, m1, m2

OneProposal  == {p1}
OneMover     == {m1}
TwoMovers    == {m1, m2}
OneEach      == [consultation |-> 1, subscription |-> 1]
TwoAndOne    == [consultation |-> 2, subscription |-> 1]
=============================================================================
