--------------------------- MODULE RefundEngineMC ---------------------------
(* Instances of RefundEngine small enough for TLC. *)
EXTENDS RefundEngine, TLC

CONSTANTS r1, r2, d1

TwoRequests   == {r1, r2}
OneDashboard  == {d1}
TwoLegs       == <<1, 1>>
=============================================================================
