------------------------- MODULE WebhookEventLogMC -------------------------
(* Instances of WebhookEventLog small enough for TLC. *)
EXTENDS WebhookEventLog, TLC

CONSTANTS w1, w2, s1, s2

TwoWorkers  == {w1, w2}
OneWorker   == {w1}
TwoSweepers == {s1, s2}
OneSweeper  == {s1}

\* Drivers of one kind are interchangeable.
DriverSymmetry == Permutations(Workers) \cup Permutations(Sweepers)
=============================================================================
