------------------------------ MODULE PayoutsMC ------------------------------
(* Instances of Payouts small enough for TLC. *)
EXTENDS Payouts, TLC

CONSTANTS e1, p1, p2, r1, r2, b1, b2

OneEarning  == {e1}
TwoPayouts  == {p1, p2}
OnePayout   == {p1}
OneRun      == {r1}
TwoRuns     == {r1, r2}
OneBatcher  == {b1}
TwoBatchers == {b1, b2}
TwoEach     == [e \in Earnings |-> 2]
OneEach     == [e \in Earnings |-> 1]

PayoutSymmetry == Permutations(Earnings) \cup Permutations(Payouts)
                    \cup Permutations(Runs) \cup Permutations(Batchers)
=============================================================================
