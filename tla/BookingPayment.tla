--------------------------- MODULE BookingPayment ---------------------------
(***************************************************************************)
(* One-to-one bookings paid by card, from checkout to refund, and everyone *)
(* who moves them: the buyer, the gateway's capture and failure webhooks,  *)
(* the cancel routes and the reconciliation sweeps.                        *)
(*                                                                         *)
(* A booking is a consultation request, its one slot, its one payment, the *)
(* referral credits it consumed, its refund and the consultant's earnings. *)
(* Each transaction is one step; what runs after a commit, or on data read *)
(* before a transaction, is a step of its own, so a callback may die and   *)
(* another actor may move in between.  The gateway is Razorpay: an order   *)
(* cannot be withdrawn, so the buyer may pay at any time after checkout.   *)
(***************************************************************************)
EXTENDS Naturals

CONSTANTS
    Bookings,   \* direct-checkout consultations of one consultant
    Overlaps,   \* pairs of bookings whose windows intersect
    MaxFaults   \* bound: callbacks that die and gateway calls that fail

ASSUME BookingAssumption ==
    /\ Overlaps \subseteq Bookings \X Bookings
    /\ \A b, c \in Bookings :
          <<b, c>> \in Overlaps => b # c /\ <<c, b>> \in Overlaps
    /\ MaxFaults \in Nat

VARIABLES
    request,    \* Consultation.status
    slot,       \* "none", "held" (isTentative) or "confirmed"
    released,   \* bookings whose slot carries deletedAt
    payment,    \* Payment.paymentStatus
    due,        \* bookings whose Payment.expiresAt has passed
    credits,    \* referral credits the checkout consumed
    money,      \* what the buyer's card was charged at the gateway
    capture,    \* next step of the capture webhook after its transaction
    outcome,    \* what that transaction decided
    failing,    \* failure webhooks between their read and their write
    cancelling, \* where the cancel route stands
    sweeping,   \* the booking the abandoned-payments sweep is working on
    refund,     \* the booking's Refund row
    paidBack,   \* how often the gateway returned the money
    earnings,   \* the consultant's earnings from the payment
    faults      \* faults so far

vars == <<request, slot, released, payment, due, credits, money, capture,
          outcome, failing, cancelling, sweeping, refund, paidBack, earnings,
          faults>>

Requests  == {"none", "PENDING", "APPROVED", "CANCELLED", "EXPIRED"}
Payments  == {"none", "PENDING", "SUCCEEDED", "FAILED", "EXPIRED"}
Outcomes  == {"none", "booked", "late", "blocked", "excluded", "wrong",
              "unmatched"}
Captures  == {"idle", "restamp", "refund", "settle", "release", "earn"}
Cancels   == {"idle", "unpaid", "paid", "refund", "settle"}

\* lib/booking/transitions.ts: the from-states of the two terminal transitions.
Cancellable == {"PENDING", "APPROVED"}
Expirable   == {"PENDING", "APPROVED"}
Ended       == {"CANCELLED", "EXPIRED"}

Init ==
    /\ request = [b \in Bookings |-> "none"]
    /\ slot = [b \in Bookings |-> "none"]
    /\ released = {}
    /\ payment = [b \in Bookings |-> "none"]
    /\ due = {}
    /\ credits = [b \in Bookings |-> "none"]
    /\ money = [b \in Bookings |-> "none"]
    /\ capture = [b \in Bookings |-> "idle"]
    /\ outcome = [b \in Bookings |-> "none"]
    /\ failing = {}
    /\ cancelling = [b \in Bookings |-> "idle"]
    /\ sweeping = {}
    /\ refund = [b \in Bookings |-> "none"]
    /\ paidBack = [b \in Bookings |-> 0]
    /\ earnings = [b \in Bookings |-> "none"]
    /\ faults = 0

Rivals(b) == {c \in Bookings : <<b, c>> \in Overlaps}

\* A request the consultant's calendar counts as taken.
Occupied(b) == request[b] \in {"PENDING", "APPROVED"}

\* A direct checkout nobody will pay any more: buildDeadHoldFilter.
DeadHold(b) ==
    /\ request[b] = "PENDING"
    /\ \/ payment[b] \in {"EXPIRED", "FAILED"}
       \/ payment[b] = "PENDING" /\ b \in due

LiveHold(b) == slot[b] = "held" /\ b \notin released
Booked(b)   == request[b] = "APPROVED" /\ slot[b] = "confirmed" /\ b \notin released

----------------------------------------------------------------------------
\* The buyer

\* The window is free: no overlapping slot, tentative or confirmed, belongs to
\* an occupied request that is not a dead hold.
Checkout(b) ==
    /\ request[b] = "none"
    /\ \A c \in Rivals(b) : Occupied(c) => DeadHold(c)
    /\ request' = [request EXCEPT ![b] = "PENDING"]
    /\ slot' = [slot EXCEPT ![b] = "held"]
    /\ payment' = [payment EXCEPT ![b] = "PENDING"]
    /\ credits' = [credits EXCEPT ![b] = "used"]
    /\ UNCHANGED <<released, due, money, capture, outcome, failing, cancelling,
                   sweeping, refund, paidBack, earnings, faults>>

\* Payment.expiresAt passes.
HoldLapses(b) ==
    /\ payment[b] = "PENDING" /\ b \notin due
    /\ due' = due \cup {b}
    /\ UNCHANGED <<request, slot, released, payment, credits, money, capture,
                   outcome, failing, cancelling, sweeping, refund, paidBack,
                   earnings, faults>>

\* The gateway captures the buyer's money: the amount ordered, or another.
Pays(b) ==
    /\ request[b] # "none" /\ money[b] = "none"
    /\ \E amount \in {"exact", "wrong"} : money' = [money EXCEPT ![b] = amount]
    /\ UNCHANGED <<request, slot, released, payment, due, credits, capture,
                   outcome, failing, cancelling, sweeping, refund, paidBack,
                   earnings, faults>>

----------------------------------------------------------------------------
\* The capture webhook: handlePaymentSuccess, driven by the gateway's delivery
\* and by reconcile-payment-status alike.  A delivery that finds the payment
\* SUCCEEDED returns at once and is left out: it changes nothing.

CaptureStep(b, step) == capture' = [capture EXCEPT ![b] = step]
Decides(b, what)     == outcome' = [outcome EXCEPT ![b] = what]

\* The confirm-time recheck: a confirmed slot of an occupied request overlaps.
RecheckBlocks(b) ==
    /\ slot[b] = "held"
    /\ \E c \in Rivals(b) : slot[c] = "confirmed" /\ Occupied(c)

\* A slip: the constraint, rewritten, skips tombstoned rows.
ConstraintOnLiveRows(b) ==
    /\ slot[b] # "confirmed"
    /\ \E c \in Rivals(b) : slot[c] = "confirmed" /\ c \notin released

\* slot_no_confirmed_overlap looks at no status and no tombstone.
ConstraintRefuses(b) ==
    slot[b] # "confirmed" /\ \E c \in Rivals(b) : slot[c] = "confirmed"

\* Slips: no check of the window at all; a blind write of the status.
ConfirmBlindly(b) ==
    /\ slot' = [slot EXCEPT ![b] = "confirmed"]
    /\ request' = [request EXCEPT ![b] = IF @ = "PENDING" THEN "APPROVED" ELSE @]
ConfirmReviving(b) ==
    /\ ~RecheckBlocks(b)
    /\ ~ConstraintRefuses(b)
    /\ slot' = [slot EXCEPT ![b] = "confirmed"]
    /\ request' = [request EXCEPT ![b] = "APPROVED"]

\* confirmExistingAppointment past its recheck: the slot loses its tentative
\* flag, tombstoned or not, and a request still waiting becomes APPROVED.
Confirm(b) ==
    /\ ~RecheckBlocks(b)
    /\ ~ConstraintRefuses(b)
    /\ slot' = [slot EXCEPT ![b] = "confirmed"]
    /\ request' = [request EXCEPT ![b] = IF @ = "PENDING" THEN "APPROVED" ELSE @]

CaptureArrives(b) == money[b] # "none" /\ capture[b] = "idle"

Stamp(b) == payment' = [payment EXCEPT ![b] = "SUCCEEDED"]

CaptureUnchanged == UNCHANGED <<released, due, credits, money, failing,
                        cancelling, sweeping, refund, paidBack, earnings, faults>>

\* The captured amount is not the amount ordered: stamp if still PENDING, and
\* refund; the booking is not confirmed and the hold is not released.
CaptureWrongAmount(b) ==
    /\ CaptureArrives(b)
    /\ money[b] = "wrong" /\ payment[b] # "SUCCEEDED"
    /\ payment' = [payment EXCEPT ![b] = IF @ = "PENDING" THEN "SUCCEEDED" ELSE @]
    /\ Decides(b, "wrong")
    /\ CaptureStep(b, "refund")
    /\ UNCHANGED <<request, slot>> /\ CaptureUnchanged

\* The payment is no longer PENDING: the stamp misses; reported, nothing else.
CaptureAfterTerminal(b) ==
    /\ CaptureArrives(b)
    /\ money[b] = "exact" /\ payment[b] \in {"EXPIRED", "FAILED"}
    /\ outcome[b] = "none"
    /\ Decides(b, "unmatched")
    /\ UNCHANGED <<request, slot, payment, capture>> /\ CaptureUnchanged

CaptureOf(b) == CaptureArrives(b) /\ money[b] = "exact" /\ payment[b] = "PENDING"

\* First confirmed wins: the loser is paid for but stays tentative.
CaptureBlocked(b) ==
    /\ CaptureOf(b) /\ RecheckBlocks(b)
    /\ Stamp(b)
    /\ Decides(b, "blocked")
    /\ CaptureStep(b, "refund")
    /\ UNCHANGED <<request, slot>> /\ CaptureUnchanged

\* The recheck passes, the exclusion constraint does not: 23P01 rolls the
\* transaction back and the recovery stamp follows in a second one.
CaptureExcluded(b) ==
    /\ CaptureOf(b) /\ ~RecheckBlocks(b) /\ ConstraintRefuses(b)
    /\ Decides(b, "excluded")
    /\ CaptureStep(b, "restamp")
    /\ UNCHANGED <<request, slot, payment>> /\ CaptureUnchanged

\* The transaction commits the booking - or, for a request that ended first,
\* commits the money and leaves a refund to do.
CaptureConfirms(b) ==
    /\ CaptureOf(b)
    /\ Confirm(b)
    /\ Stamp(b)
    /\ IF request[b] \in Ended
       THEN Decides(b, "late") /\ CaptureStep(b, "refund")
       ELSE Decides(b, "booked") /\ CaptureStep(b, "earn")
    /\ CaptureUnchanged

----------------------------------------------------------------------------
\* Refunds: refundPayment, called by the webhook and by the cancel route.  The
\* amount is the whole balance, so one live Refund row exhausts it.

\* A slip: the balance forgets the reservations.
RefundableAgain(b) == payment[b] = "SUCCEEDED"

Refundable(b) == payment[b] = "SUCCEEDED" /\ refund[b] = "none"

\* Phase 1 reserves the balance with a PENDING row.
Reserve(b) == refund' = [refund EXCEPT ![b] = "pending"]

\* Phases 2 and 3: the gateway pays back; the cascade reverses the earnings it
\* finds and the referral credits return.
Settle(b) ==
    /\ refund' = [refund EXCEPT ![b] = "done"]
    /\ paidBack' = [paidBack EXCEPT ![b] = @ + 1]
    /\ credits' = [credits EXCEPT ![b] = "restored"]
    /\ earnings' = [earnings EXCEPT ![b] = IF @ = "accrued" THEN "reversed" ELSE @]

\* A slip: the request expires and its slot is left standing.
CleanUpKeepingHold(b) ==
    /\ request' = [request EXCEPT ![b] = IF @ \in Expirable THEN "EXPIRED" ELSE @]
    /\ UNCHANGED released

\* cleanupFailedPaymentAppointment: release a live tentative slot and, nothing
\* being left, expire the request through its CAS.
CleanUp(b) ==
    IF LiveHold(b)
    THEN /\ released' = released \cup {b}
         /\ request' = [request EXCEPT ![b] = IF @ \in Expirable THEN "EXPIRED" ELSE @]
    ELSE UNCHANGED <<released, request>>

RefundUnchanged == UNCHANGED <<request, slot, released, payment, due, money,
                       outcome, failing, sweeping>>

\* The stamp after the rolled-back transaction: a CAS on PENDING.
CaptureRestamps(b) ==
    /\ capture[b] = "restamp"
    /\ IF payment[b] = "PENDING"
       THEN Stamp(b) /\ CaptureStep(b, "refund")
       ELSE CaptureStep(b, "idle") /\ UNCHANGED payment
    /\ UNCHANGED <<request, slot, outcome>> /\ CaptureUnchanged

CaptureReserves(b) ==
    /\ capture[b] = "refund"
    /\ IF Refundable(b)
       THEN Reserve(b) /\ CaptureStep(b, "settle")
       ELSE CaptureStep(b, "idle") /\ UNCHANGED refund
    /\ UNCHANGED <<credits, cancelling, paidBack, earnings, faults>>
    /\ RefundUnchanged

CaptureSettles(b) ==
    /\ capture[b] = "settle"
    /\ Settle(b)
    /\ CaptureStep(b, IF outcome[b] = "blocked" THEN "release" ELSE "idle")
    /\ UNCHANGED <<cancelling, faults>> /\ RefundUnchanged

\* Only once the money is back is the loser's hold released.
CaptureReleases(b) ==
    /\ capture[b] = "release"
    /\ CleanUp(b)
    /\ CaptureStep(b, "idle")
    /\ UNCHANGED <<slot, payment, due, credits, money, outcome, failing,
                   cancelling, sweeping, refund, paidBack, earnings, faults>>

\* createEarningsFromPayment, which asks only whether earnings exist.
Accrue(b) == earnings' = [earnings EXCEPT ![b] = IF @ = "none" THEN "accrued" ELSE @]

CaptureEarns(b) ==
    /\ capture[b] = "earn"
    /\ Accrue(b)
    /\ CaptureStep(b, "idle")
    /\ UNCHANGED <<request, slot, released, payment, due, credits, money, outcome,
                   failing, cancelling, sweeping, refund, paidBack, faults>>

\* The instance dies, or a call throws and the catch only reports it: what is
\* left of phase 2 is lost.  A refund already reserved stays PENDING.
CaptureDies(b) ==
    /\ capture[b] # "idle"
    /\ faults < MaxFaults
    /\ faults' = faults + 1
    /\ CaptureStep(b, "idle")
    /\ UNCHANGED <<request, slot, released, payment, due, credits, money, outcome,
                   failing, cancelling, sweeping, refund, paidBack, earnings>>

\* reconcile-pending-refunds, an hour later: the gateway either made the refund
\* or never heard of it, and then the row FAILs and frees the balance.
PendingRefundReconciled(b) ==
    /\ refund[b] = "pending" /\ capture[b] # "settle" /\ cancelling[b] # "settle"
    /\ \/ Settle(b)
       \/ refund' = [refund EXCEPT ![b] = "none"]
          /\ UNCHANGED <<credits, paidBack, earnings>>
    /\ UNCHANGED <<capture, cancelling, faults>> /\ RefundUnchanged

----------------------------------------------------------------------------
\* The failure webhook: handlePaymentFailure reads the status, returns unless it
\* is PENDING, and then writes without asking again.

FailureRead(b) ==
    /\ payment[b] = "PENDING" /\ b \notin failing
    /\ failing' = failing \cup {b}
    /\ UNCHANGED <<request, slot, released, payment, due, credits, money, capture,
                   outcome, cancelling, sweeping, refund, paidBack, earnings,
                   faults>>

FailureWrite(b) ==
    /\ b \in failing
    /\ failing' = failing \ {b}
    /\ payment' = [payment EXCEPT ![b] = "FAILED"]
    /\ CleanUp(b)
    /\ UNCHANGED <<slot, due, credits, money, capture, outcome, cancelling,
                   sweeping, refund, paidBack, earnings, faults>>

----------------------------------------------------------------------------
\* Cancelling

\* cancelPendingCheckout: one Serializable transaction, a CAS on PENDING first;
\* a request outside {PENDING, APPROVED_PENDING_PAYMENT} rolls it back.
CancelPending(b) ==
    /\ payment[b] = "PENDING" /\ request[b] = "PENDING"
    /\ payment' = [payment EXCEPT ![b] = "EXPIRED"]
    /\ credits' = [credits EXCEPT ![b] = "restored"]
    /\ released' = IF LiveHold(b) THEN released \cup {b} ELSE released
    /\ request' = [request EXCEPT ![b] = "CANCELLED"]
    /\ UNCHANGED <<slot, due, money, capture, outcome, failing, cancelling,
                   sweeping, refund, paidBack, earnings, faults>>

CancelStep(b, step) == cancelling' = [cancelling EXCEPT ![b] = step]

\* The cancel route resolves which payment it will refund before its transaction.
CancelRead(b) ==
    /\ cancelling[b] = "idle" /\ request[b] \in Cancellable
    /\ CancelStep(b, IF payment[b] = "SUCCEEDED" THEN "paid" ELSE "unpaid")
    /\ UNCHANGED <<request, slot, released, payment, due, credits, money, capture,
                   outcome, failing, sweeping, refund, paidBack, earnings, faults>>

\* The transaction: a CAS on the request (409 if it misses), then every slot of
\* the booking is tombstoned - and keeps its tentative flag as it is.
CancelCommits(b) ==
    /\ cancelling[b] \in {"unpaid", "paid"}
    /\ IF request[b] \in Cancellable
       THEN /\ request' = [request EXCEPT ![b] = "CANCELLED"]
            /\ released' = released \cup {b}
            /\ CancelStep(b, IF cancelling[b] = "paid" THEN "refund" ELSE "idle")
       ELSE CancelStep(b, "idle") /\ UNCHANGED <<request, released>>
    /\ UNCHANGED <<slot, payment, due, credits, money, capture, outcome, failing,
                   sweeping, refund, paidBack, earnings, faults>>

CancelReserves(b) ==
    /\ cancelling[b] = "refund"
    /\ IF Refundable(b)
       THEN Reserve(b) /\ CancelStep(b, "settle")
       ELSE CancelStep(b, "idle") /\ UNCHANGED refund
    /\ UNCHANGED <<credits, capture, paidBack, earnings, faults>>
    /\ RefundUnchanged

CancelSettles(b) ==
    /\ cancelling[b] = "settle"
    /\ Settle(b)
    /\ CancelStep(b, "idle")
    /\ UNCHANGED <<capture, faults>> /\ RefundUnchanged

CancelDies(b) ==
    /\ cancelling[b] # "idle"
    /\ faults < MaxFaults
    /\ faults' = faults + 1
    /\ CancelStep(b, "idle")
    /\ UNCHANGED <<request, slot, released, payment, due, credits, money, capture,
                   outcome, failing, sweeping, refund, paidBack, earnings>>

----------------------------------------------------------------------------
\* The sweeps.  Each runs under its cron lock, so one entry at a time.

\* cleanup-abandoned-payments: the cohort, and the re-read that starts the
\* booking's transaction.  What follows is up to four seconds of gateway calls.
SweepRead(b) ==
    /\ sweeping = {}
    /\ payment[b] = "PENDING" /\ b \in due /\ slot[b] = "held"
    /\ sweeping' = {b}
    /\ UNCHANGED <<request, slot, released, payment, due, credits, money, capture,
                   outcome, failing, cancelling, refund, paidBack, earnings, faults>>

\* A slip: the request's word for it, which a payment does not know.
ExpireAsCancelled(b) == [payment EXCEPT ![b] = IF @ = "PENDING" THEN "CANCELLED" ELSE @]

ExpireIfPending(b) == [payment EXCEPT ![b] = IF @ = "PENDING" THEN "EXPIRED" ELSE @]

\* A confirmed slot by now: the expiry misses, the credits are handed back, and
\* the transaction commits.
SweepKeepsConfirmed(b) ==
    /\ b \in sweeping /\ slot[b] = "confirmed"
    /\ payment' = ExpireIfPending(b)
    /\ credits' = [credits EXCEPT ![b] = "restored"]
    /\ UNCHANGED <<request, released>>

\* A slip: the slot is not tombstoned.
SweepExpiresKeepingHold(b) ==
    /\ b \in sweeping /\ slot[b] = "held"
    /\ request[b] \in Expirable /\ payment[b] # "SUCCEEDED"
    /\ payment' = ExpireIfPending(b)
    /\ credits' = [credits EXCEPT ![b] = "restored"]
    /\ request' = [request EXCEPT ![b] = "EXPIRED"]
    /\ UNCHANGED released

\* Still tentative and unpaid: the request expires and its slot is tombstoned.
SweepExpires(b) ==
    /\ b \in sweeping /\ slot[b] = "held"
    /\ request[b] \in Expirable /\ payment[b] # "SUCCEEDED"
    /\ payment' = ExpireIfPending(b)
    /\ credits' = [credits EXCEPT ![b] = "restored"]
    /\ request' = [request EXCEPT ![b] = "EXPIRED"]
    /\ released' = released \cup {b}

\* The request's CAS misses and the whole transaction rolls back.
SweepRollsBack(b) ==
    /\ b \in sweeping /\ slot[b] = "held"
    /\ ~(request[b] \in Expirable /\ payment[b] # "SUCCEEDED")
    /\ UNCHANGED <<request, released, payment, credits>>

SweepFinishes(b) ==
    /\ SweepKeepsConfirmed(b) \/ SweepExpires(b) \/ SweepRollsBack(b)
    /\ sweeping' = {}
    /\ UNCHANGED <<slot, due, money, capture, outcome, failing, cancelling, refund,
                   paidBack, earnings, faults>>

\* A slip: the cohort does not ask whether the payment succeeded.
ReconcilesAnyHold(b) ==
    /\ slot[b] = "held" /\ capture[b] = "idle"
    /\ Confirm(b)
    /\ UNCHANGED <<released, payment, due, credits, money, capture, outcome,
                   failing, cancelling, sweeping, refund, paidBack, earnings, faults>>

\* reconcile-orphaned-confirmations: paid, any slot still tentative, and quiet for
\* longer than a callback can live.  What the confirmation returns is not read.
ReconcileOrphan(b) ==
    /\ payment[b] = "SUCCEEDED" /\ slot[b] = "held" /\ capture[b] = "idle"
    /\ Confirm(b)
    /\ UNCHANGED <<released, payment, due, credits, money, capture, outcome,
                   failing, cancelling, sweeping, refund, paidBack, earnings, faults>>

\* sync-payment-earnings: any SUCCEEDED payment without earnings.
SyncEarnings(b) ==
    /\ payment[b] = "SUCCEEDED" /\ earnings[b] = "none"
    /\ Accrue(b)
    /\ UNCHANGED <<request, slot, released, payment, due, credits, money, capture,
                   outcome, failing, cancelling, sweeping, refund, paidBack, faults>>

----------------------------------------------------------------------------
Buyer(b) == Checkout(b) \/ HoldLapses(b) \/ Pays(b)

Webhook(b) ==
    \/ CaptureWrongAmount(b) \/ CaptureAfterTerminal(b)
    \/ CaptureBlocked(b) \/ CaptureExcluded(b) \/ CaptureConfirms(b)

Callback(b) ==
    \/ CaptureRestamps(b) \/ CaptureReserves(b) \/ CaptureSettles(b)
    \/ CaptureReleases(b) \/ CaptureEarns(b)

Failure(b) == FailureRead(b) \/ FailureWrite(b)

CancelFollows(b) == CancelCommits(b) \/ CancelReserves(b) \/ CancelSettles(b)

Cancel(b) == CancelPending(b) \/ CancelRead(b) \/ CancelFollows(b) \/ CancelDies(b)

Sweep(b) ==
    \/ SweepRead(b) \/ SweepFinishes(b) \/ ReconcileOrphan(b) \/ SyncEarnings(b)
    \/ PendingRefundReconciled(b)

Next == \E b \in Bookings :
    \/ Buyer(b) \/ Webhook(b) \/ Callback(b) \/ CaptureDies(b)
    \/ Failure(b) \/ Cancel(b) \/ Sweep(b)

Spec == Init /\ [][Next]_vars

\* Holds lapse by the clock; a capture reaches the code (the gateway redelivers
\* and reconcile-payment-status polls) and a callback that does not die goes on;
\* the crons run for ever, and a run walks its whole cohort, so a booking that
\* stays in it is reached (strong fairness: one run is busy with one booking at
\* a time).  Buyers, cancellations and failure events promise nothing.
Fairness == \A b \in Bookings :
    /\ WF_vars(HoldLapses(b))
    /\ WF_vars(Webhook(b)) /\ WF_vars(Callback(b))
    /\ WF_vars(FailureWrite(b)) /\ WF_vars(CancelFollows(b))
    /\ SF_vars(SweepRead(b)) /\ WF_vars(SweepFinishes(b))
    /\ SF_vars(ReconcileOrphan(b)) /\ WF_vars(SyncEarnings(b))
    /\ WF_vars(PendingRefundReconciled(b))

FairSpec == Spec /\ Fairness

----------------------------------------------------------------------------
\* Every variable keeps its type.
TypeOK ==
    /\ request \in [Bookings -> Requests]
    /\ slot \in [Bookings -> {"none", "held", "confirmed"}]
    /\ released \subseteq Bookings
    /\ payment \in [Bookings -> Payments]
    /\ due \subseteq Bookings
    /\ credits \in [Bookings -> {"none", "used", "restored"}]
    /\ money \in [Bookings -> {"none", "exact", "wrong"}]
    /\ capture \in [Bookings -> Captures]
    /\ outcome \in [Bookings -> Outcomes]
    /\ failing \subseteq Bookings
    /\ cancelling \in [Bookings -> Cancels]
    /\ sweeping \subseteq Bookings
    /\ refund \in [Bookings -> {"none", "pending", "done"}]
    /\ paidBack \in [Bookings -> Nat]
    /\ earnings \in [Bookings -> {"none", "accrued", "reversed"}]
    /\ faults \in 0 .. MaxFaults

\* The consultant is never booked twice: of two overlapping requests, however
\* their captures, cancellations and re-drives interleave, one at most stands
\* APPROVED with a live confirmed slot.
NoDoubleBooking ==
    \A b, c \in Bookings : <<b, c>> \in Overlaps => ~(Booked(b) /\ Booked(c))

\* A slot is only ever confirmed against captured money.
BookedOnlyIfCaptured ==
    \A b \in Bookings : slot[b] = "confirmed" => money[b] # "none"

\* No slot is held for nothing: a live tentative slot belongs to a payment that
\* may still be made or was made.  Every path that ends the payment frees it.
HoldsAreBacked ==
    \A b \in Bookings : LiveHold(b) => payment[b] \in {"PENDING", "SUCCEEDED"}

\* The buyer's money goes back once at most, although the webhook's recovery,
\* the cancel route and the refund reconciler may all set out to return it.
RefundAtMostOnce == \A b \in Bookings : paidBack[b] <= 1

\* The paid loser of a window is refunded and never booked later, not even by
\* the re-drive of orphaned confirmations after the winner has cancelled.
LoserStaysOut ==
    \A b \in Bookings : outcome[b] \in {"blocked", "excluded"} => ~Booked(b)

\* A cancelled or expired request is never revived, by a late capture least of all.
TerminalRequestsStayTerminal ==
    [][\A b \in Bookings : request[b] \in Ended => request'[b] = request[b]]_vars

\* The whole of it is an implementation of the calendar's contract.
Window == INSTANCE ExclusiveWindow WITH
    standing <- [b \in Bookings |->
                    IF Booked(b) THEN "granted"
                    ELSE IF request[b] \in Ended THEN "ended" ELSE "open"]

ImplementsWindow == Window!Spec

\* A hold nobody pays for is let go in the end.
UnpaidHoldIsReleased ==
    \A b \in Bookings : LiveHold(b) /\ payment[b] = "PENDING"
                            ~> ~LiveHold(b) \/ payment[b] = "SUCCEEDED"

\* A captured payment does not turn into a failed one: "a late failure webhook
\* must not override a payment that already succeeded".
SucceededStays ==
    [][\A b \in Bookings : payment[b] = "SUCCEEDED" => payment'[b] = "SUCCEEDED"]_vars

\* The exclusion constraint never speaks for a booking made at checkout: the
\* recheck has answered first.
ConstraintIsNeverHit == \A b \in Bookings : outcome[b] # "excluded"

\* A cancel racing the capture has one winner: money captured for a booking the
\* cancel then ended is on its way back, unless something died on the way.
CancelledMoneyGoesBack ==
    \A b \in Bookings :
        (/\ outcome[b] = "booked" /\ payment[b] = "SUCCEEDED"
         /\ request[b] = "CANCELLED" /\ cancelling[b] = "idle" /\ faults = 0)
            => refund[b] # "none"
=============================================================================
