------------------------- MODULE OutboundWebhooksMC -------------------------
(* An instance of OutboundWebhooks small enough for TLC. *)
EXTENDS OutboundWebhooks

CONSTANTS t1, t2, d1

TwoTicks    == {t1, t2}
OneDelivery == {d1}
=============================================================================
