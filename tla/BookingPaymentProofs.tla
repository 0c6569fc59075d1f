------------------------ MODULE BookingPaymentProofs ------------------------
(***************************************************************************)
(* What BookingPayment guarantees for any number of bookings, any overlaps *)
(* between them and any number of faults.                                  *)
(***************************************************************************)
EXTENDS BookingPayment, TLAPS

\* Every variable keeps its type: each handler writes only the statuses its
\* column has (lib/booking/transitions.ts, handlers.ts, refund.ts).
THEOREM TypeCorrect == Spec => []TypeOK
<1> USE DEF Requests, Payments, Outcomes, Captures, Cancels
<1>1. Init => TypeOK
  BY BookingAssumption DEF Init, TypeOK
<1>2. TypeOK /\ [Next]_vars => TypeOK'
  <2> SUFFICES ASSUME TypeOK, [Next]_vars PROVE TypeOK'
    OBVIOUS
  <2> USE DEF TypeOK
  <2>1. CASE UNCHANGED vars
    BY <2>1 DEF vars
  <2>2. ASSUME NEW b \in Bookings, Buyer(b) PROVE TypeOK'
    BY <2>2 DEF Buyer, Checkout, HoldLapses, Pays
  <2>3. ASSUME NEW b \in Bookings, Webhook(b) PROVE TypeOK'
    <3> USE DEF CaptureArrives, CaptureOf, CaptureStep, Decides, Stamp, CaptureUnchanged
    <3>1. CASE CaptureWrongAmount(b)
      BY <3>1 DEF CaptureWrongAmount
    <3>2. CASE CaptureAfterTerminal(b)
      BY <3>2 DEF CaptureAfterTerminal
    <3>3. CASE CaptureBlocked(b)
      BY <3>3 DEF CaptureBlocked
    <3>4. CASE CaptureExcluded(b)
      BY <3>4 DEF CaptureExcluded
    <3>5. CASE CaptureConfirms(b)
      BY <3>5 DEF CaptureConfirms, Confirm
    <3>6. QED
      BY <2>3, <3>1, <3>2, <3>3, <3>4, <3>5 DEF Webhook
  <2>4. ASSUME NEW b \in Bookings, Callback(b) PROVE TypeOK'
    <3> USE DEF CaptureStep, CaptureUnchanged, RefundUnchanged
    <3>1. CASE CaptureRestamps(b)
      BY <3>1 DEF CaptureRestamps, Stamp
    <3>2. CASE CaptureReserves(b)
      BY <3>2 DEF CaptureReserves, Reserve
    <3>3. CASE CaptureSettles(b)
      BY <3>3 DEF CaptureSettles, Settle
    <3>4. CASE CaptureReleases(b)
      BY <3>4 DEF CaptureReleases, CleanUp
    <3>5. CASE CaptureEarns(b)
      BY <3>5 DEF CaptureEarns, Accrue
    <3>6. QED
      BY <2>4, <3>1, <3>2, <3>3, <3>4, <3>5 DEF Callback
  <2>5. ASSUME NEW b \in Bookings, CaptureDies(b) PROVE TypeOK'
    BY <2>5, BookingAssumption DEF CaptureDies, CaptureStep
  <2>6. ASSUME NEW b \in Bookings, Failure(b) PROVE TypeOK'
    BY <2>6 DEF Failure, FailureRead, FailureWrite, CleanUp
  <2>7. ASSUME NEW b \in Bookings, Cancel(b) PROVE TypeOK'
    <3> USE DEF CancelStep, RefundUnchanged
    <3>1. CASE CancelPending(b)
      BY <3>1 DEF CancelPending
    <3>2. CASE CancelRead(b)
      BY <3>2 DEF CancelRead
    <3>3. CASE CancelCommits(b)
      BY <3>3 DEF CancelCommits
    <3>4. CASE CancelReserves(b)
      BY <3>4 DEF CancelReserves, Reserve
    <3>5. CASE CancelSettles(b)
      BY <3>5 DEF CancelSettles, Settle
    <3>6. CASE CancelDies(b)
      BY <3>6, BookingAssumption DEF CancelDies
    <3>7. QED
      BY <2>7, <3>1, <3>2, <3>3, <3>4, <3>5, <3>6 DEF Cancel, CancelFollows
  <2>8. ASSUME NEW b \in Bookings, Sweep(b) PROVE TypeOK'
    <3>1. CASE SweepRead(b)
      BY <3>1 DEF SweepRead
    <3>2. CASE SweepFinishes(b)
      BY <3>2 DEF SweepFinishes, SweepKeepsConfirmed, SweepExpires, SweepRollsBack,
                  ExpireIfPending
    <3>3. CASE ReconcileOrphan(b)
      BY <3>3 DEF ReconcileOrphan, Confirm
    <3>4. CASE SyncEarnings(b)
      BY <3>4 DEF SyncEarnings, Accrue
    <3>5. CASE PendingRefundReconciled(b)
      BY <3>5 DEF PendingRefundReconciled, Settle, RefundUnchanged
    <3>6. QED
      BY <2>8, <3>1, <3>2, <3>3, <3>4, <3>5 DEF Sweep
  <2>9. QED
    BY <2>1, <2>2, <2>3, <2>4, <2>5, <2>6, <2>7, <2>8 DEF Next
<1>3. QED
  BY <1>1, <1>2, PTL DEF Spec

----------------------------------------------------------------------------
\* The inductive invariant.  Only confirmation moves slots into "confirmed" and
\* nothing moves them out, so it is the slots, not the requests, that exclude.

\* Of two overlapping slots one at most was ever confirmed.
OneConfirmed ==
    \A b, c \in Bookings :
        <<b, c>> \in Overlaps => ~(slot[b] = "confirmed" /\ slot[c] = "confirmed")

\* Checkout is the first step of a booking.
FreshIsEmpty ==
    \A b \in Bookings : request[b] = "none" =>
        slot[b] = "none" /\ payment[b] = "none" /\ b \notin failing

\* Whatever vouches for a payment - the stamp, or the recovery that is about to
\* stamp - was set off by a capture.
CaptureVouches ==
    \A b \in Bookings :
        (slot[b] = "confirmed" \/ payment[b] = "SUCCEEDED" \/ capture[b] = "restamp")
            => money[b] # "none"

\* The Refund row counts the money that went back, and whoever is between the
\* reservation and the settlement owns a row still pending, alone.
RefundRowCounts ==
    \A b \in Bookings :
        /\ paidBack[b] = IF refund[b] = "done" THEN 1 ELSE 0
        /\ capture[b] = "settle" \/ cancelling[b] = "settle" => refund[b] = "pending"
        /\ ~(capture[b] = "settle" /\ cancelling[b] = "settle")

\* Who lost a window still faces the slot that won it.
LoserIsOutbid ==
    \A b \in Bookings : outcome[b] \in {"blocked", "excluded"} =>
        slot[b] # "confirmed" /\ \E c \in Rivals(b) : slot[c] = "confirmed"

IInv ==
    /\ TypeOK
    /\ OneConfirmed
    /\ FreshIsEmpty
    /\ CaptureVouches
    /\ RefundRowCounts
    /\ LoserIsOutbid
    /\ HoldsAreBacked

----------------------------------------------------------------------------
\* Which actions move what.

\* A slot is created by a checkout, confirmed by a capture or by the re-drive of
\* an orphan, and otherwise left as it is.
LEMMA SlotMoves ==
  ASSUME [Next]_vars
  PROVE  \/ UNCHANGED slot
         \/ \E b \in Bookings : Checkout(b)
         \/ \E b \in Bookings : Confirm(b) /\ CaptureConfirms(b)
         \/ \E b \in Bookings : Confirm(b) /\ ReconcileOrphan(b)
<1> USE DEF CaptureUnchanged, RefundUnchanged
<1>1. CASE UNCHANGED vars
  BY <1>1 DEF vars
<1>2. ASSUME NEW b \in Bookings, Buyer(b) PROVE UNCHANGED slot \/ Checkout(b)
  BY <1>2 DEF Buyer, HoldLapses, Pays
<1>3. ASSUME NEW b \in Bookings, Webhook(b)
      PROVE UNCHANGED slot \/ (Confirm(b) /\ CaptureConfirms(b))
  BY <1>3 DEF Webhook, CaptureWrongAmount, CaptureAfterTerminal, CaptureBlocked,
              CaptureExcluded, CaptureConfirms
<1>4. ASSUME NEW b \in Bookings, Callback(b) \/ CaptureDies(b) PROVE UNCHANGED slot
  BY <1>4 DEF Callback, CaptureDies, CaptureRestamps, CaptureReserves,
              CaptureSettles, CaptureReleases, CaptureEarns
<1>5. ASSUME NEW b \in Bookings, Failure(b) \/ Cancel(b) PROVE UNCHANGED slot
  BY <1>5 DEF Failure, FailureRead, FailureWrite, Cancel, CancelPending, CancelRead,
              CancelFollows, CancelCommits, CancelReserves, CancelSettles, CancelDies
<1>6. ASSUME NEW b \in Bookings, Sweep(b)
      PROVE UNCHANGED slot \/ (Confirm(b) /\ ReconcileOrphan(b))
  BY <1>6 DEF Sweep, SweepRead, SweepFinishes, ReconcileOrphan, SyncEarnings,
              PendingRefundReconciled
<1>7. QED
  BY <1>1, <1>2, <1>3, <1>4, <1>5, <1>6 DEF Next

\* The exclusion constraint keeps OneConfirmed: a confirmation finds no rival
\* confirmed, and a checkout confirms nothing.
LEMMA OneConfirmedStep ==
  ASSUME TypeOK, OneConfirmed, [Next]_vars
  PROVE  OneConfirmed'
<1> SUFFICES ASSUME NEW b \in Bookings, NEW c \in Bookings, <<b, c>> \in Overlaps,
                    slot'[b] = "confirmed", slot'[c] = "confirmed"
             PROVE  FALSE
  BY DEF OneConfirmed
<1> USE BookingAssumption DEF TypeOK, OneConfirmed
<1>1. CASE UNCHANGED slot
  BY <1>1
<1>2. ASSUME NEW d \in Bookings, Checkout(d) PROVE FALSE
  BY <1>2 DEF Checkout
<1>3. ASSUME NEW d \in Bookings, Confirm(d) PROVE FALSE
  <2>1. b # c /\ <<c, b>> \in Overlaps
    OBVIOUS
  <2>2. slot[d] # "confirmed" => \A e \in Bookings : <<d, e>> \in Overlaps => slot[e] # "confirmed"
    BY <1>3 DEF Confirm, ConstraintRefuses, Rivals
  <2>3. \A e \in Bookings : e # d => slot'[e] = slot[e]
    BY <1>3 DEF Confirm
  <2>4. QED
    BY <2>1, <2>2, <2>3
<1>4. QED
  BY <1>1, <1>2, <1>3, SlotMoves

\* A confirmed slot stays confirmed: no cancel, sweep or refund puts the tentative
\* flag back.
LEMMA ConfirmedForEver ==
  ASSUME TypeOK, FreshIsEmpty, [Next]_vars, NEW b \in Bookings, slot[b] = "confirmed"
  PROVE  slot'[b] = "confirmed"
<1> USE DEF TypeOK, FreshIsEmpty
<1>1. ASSUME NEW d \in Bookings, Checkout(d) PROVE slot'[b] = "confirmed"
  BY <1>1 DEF Checkout
<1>2. ASSUME NEW d \in Bookings, Confirm(d) PROVE slot'[b] = "confirmed"
  BY <1>2 DEF Confirm
<1>3. QED
  BY <1>1, <1>2, SlotMoves

\* Nothing is stamped, failed or confirmed before the checkout created it.
LEMMA FreshIsEmptyStep ==
  ASSUME TypeOK, FreshIsEmpty, [Next]_vars
  PROVE  FreshIsEmpty'
<1> USE DEF TypeOK, FreshIsEmpty
<1>1. CASE UNCHANGED vars
  BY <1>1 DEF vars
<1>2. ASSUME NEW d \in Bookings, Buyer(d) PROVE FreshIsEmpty'
  BY <1>2 DEF Buyer, Checkout, HoldLapses, Pays
<1>3. ASSUME NEW d \in Bookings, Webhook(d) PROVE FreshIsEmpty'
  BY <1>3 DEF Webhook, CaptureWrongAmount, CaptureAfterTerminal, CaptureBlocked,
              CaptureExcluded, CaptureConfirms, Confirm, CaptureOf, Stamp,
              CaptureUnchanged
<1>4. ASSUME NEW d \in Bookings, Callback(d) \/ CaptureDies(d) PROVE FreshIsEmpty'
  BY <1>4 DEF Callback, CaptureDies, CaptureRestamps, CaptureReserves, CaptureSettles,
              CaptureReleases, CaptureEarns, CleanUp, Stamp, CaptureUnchanged,
              RefundUnchanged
<1>5. ASSUME NEW d \in Bookings, Failure(d) PROVE FreshIsEmpty'
  BY <1>5 DEF Failure, FailureRead, FailureWrite, CleanUp
<1>6. ASSUME NEW d \in Bookings, Cancel(d) PROVE FreshIsEmpty'
  BY <1>6 DEF Cancel, CancelPending, CancelRead, CancelFollows, CancelCommits,
              CancelReserves, CancelSettles, CancelDies, RefundUnchanged
<1>7. ASSUME NEW d \in Bookings, Sweep(d) PROVE FreshIsEmpty'
  <2>1. CASE SweepFinishes(d)
    BY <2>1 DEF SweepFinishes, SweepKeepsConfirmed, SweepExpires, SweepRollsBack,
                ExpireIfPending
  <2>2. CASE ReconcileOrphan(d)
    BY <2>2 DEF ReconcileOrphan, Confirm
  <2>3. QED
    BY <1>7, <2>1, <2>2 DEF Sweep, SweepRead, SyncEarnings, PendingRefundReconciled,
                            RefundUnchanged
<1>8. QED
  BY <1>1, <1>2, <1>3, <1>4, <1>5, <1>6, <1>7 DEF Next

\* A confirmation, a stamp and its recovery all descend from a capture the gateway
\* reported; the two re-drives start from a stamp.
LEMMA CaptureVouchesStep ==
  ASSUME TypeOK, CaptureVouches, [Next]_vars
  PROVE  CaptureVouches'
<1> USE DEF TypeOK, CaptureVouches
<1>1. CASE UNCHANGED vars
  BY <1>1 DEF vars
<1>2. ASSUME NEW d \in Bookings, Buyer(d) PROVE CaptureVouches'
  BY <1>2 DEF Buyer, Checkout, HoldLapses, Pays
<1>3. ASSUME NEW d \in Bookings, Webhook(d) PROVE CaptureVouches'
  BY <1>3 DEF Webhook, CaptureWrongAmount, CaptureAfterTerminal, CaptureBlocked,
              CaptureExcluded, CaptureConfirms, Confirm, CaptureOf, CaptureArrives,
              CaptureStep, Stamp, CaptureUnchanged
<1>4. ASSUME NEW d \in Bookings, Callback(d) \/ CaptureDies(d) PROVE CaptureVouches'
  BY <1>4 DEF Callback, CaptureDies, CaptureRestamps, CaptureReserves, CaptureSettles,
              CaptureReleases, CaptureEarns, CaptureStep, Stamp, CaptureUnchanged,
              RefundUnchanged
<1>5. ASSUME NEW d \in Bookings, Failure(d) \/ Cancel(d) PROVE CaptureVouches'
  BY <1>5 DEF Failure, FailureRead, FailureWrite, Cancel, CancelPending, CancelRead,
              CancelFollows, CancelCommits, CancelReserves, CancelSettles, CancelDies,
              RefundUnchanged
<1>6. ASSUME NEW d \in Bookings, Sweep(d) PROVE CaptureVouches'
  <2>1. CASE SweepFinishes(d)
    BY <2>1 DEF SweepFinishes, SweepKeepsConfirmed, SweepExpires, SweepRollsBack,
                ExpireIfPending
  <2>2. CASE ReconcileOrphan(d)
    BY <2>2 DEF ReconcileOrphan, Confirm
  <2>3. QED
    BY <1>6, <2>1, <2>2 DEF Sweep, SweepRead, SyncEarnings, PendingRefundReconciled,
                            RefundUnchanged
<1>7. QED
  BY <1>1, <1>2, <1>3, <1>4, <1>5, <1>6 DEF Next

\* A reservation needs a row that is not there, a settlement the one it made.
LEMMA RefundRowCountsStep ==
  ASSUME TypeOK, RefundRowCounts, [Next]_vars
  PROVE  RefundRowCounts'
<1> USE DEF TypeOK, RefundRowCounts
<1>1. CASE UNCHANGED vars
  BY <1>1 DEF vars
<1>2. ASSUME NEW d \in Bookings, Buyer(d) \/ Failure(d) PROVE RefundRowCounts'
  BY <1>2 DEF Buyer, Checkout, HoldLapses, Pays, Failure, FailureRead, FailureWrite
<1>3. ASSUME NEW d \in Bookings, Webhook(d) PROVE RefundRowCounts'
  BY <1>3 DEF Webhook, CaptureWrongAmount, CaptureAfterTerminal, CaptureBlocked,
              CaptureExcluded, CaptureConfirms, CaptureStep, CaptureUnchanged
<1>4. ASSUME NEW d \in Bookings, Callback(d) \/ CaptureDies(d) PROVE RefundRowCounts'
  <2>1. CASE CaptureReserves(d)
    BY <2>1 DEF CaptureReserves, Refundable, Reserve, CaptureStep
  <2>2. CASE CaptureSettles(d)
    BY <2>2 DEF CaptureSettles, Settle, CaptureStep
  <2>3. QED
    BY <1>4, <2>1, <2>2 DEF Callback, CaptureDies, CaptureRestamps, CaptureReleases,
                            CaptureEarns, CaptureStep, CaptureUnchanged
<1>5. ASSUME NEW d \in Bookings, Cancel(d) PROVE RefundRowCounts'
  <2>1. CASE CancelReserves(d)
    BY <2>1 DEF CancelReserves, Refundable, Reserve, CancelStep
  <2>2. CASE CancelSettles(d)
    BY <2>2 DEF CancelSettles, Settle, CancelStep
  <2>3. QED
    BY <1>5, <2>1, <2>2 DEF Cancel, CancelFollows, CancelPending, CancelRead,
                            CancelCommits, CancelDies, CancelStep
<1>6. ASSUME NEW d \in Bookings, Sweep(d) PROVE RefundRowCounts'
  <2>1. CASE PendingRefundReconciled(d)
    BY <2>1 DEF PendingRefundReconciled, Settle
  <2>2. QED
    BY <1>6, <2>1 DEF Sweep, SweepRead, SweepFinishes, ReconcileOrphan, SyncEarnings
<1>7. QED
  BY <1>1, <1>2, <1>3, <1>4, <1>5, <1>6 DEF Next

\* Only the webhook's transaction decides an outcome.
LEMMA OutcomeMoves ==
  ASSUME TypeOK, [Next]_vars
  PROVE  \/ UNCHANGED outcome
         \/ \E b \in Bookings : Webhook(b)
<1> USE DEF CaptureUnchanged, RefundUnchanged
<1>1. CASE UNCHANGED vars
  BY <1>1 DEF vars
<1>2. ASSUME NEW b \in Bookings, Buyer(b) \/ Failure(b) PROVE UNCHANGED outcome
  BY <1>2 DEF Buyer, Checkout, HoldLapses, Pays, Failure, FailureRead, FailureWrite
<1>3. ASSUME NEW b \in Bookings, Callback(b) \/ CaptureDies(b) PROVE UNCHANGED outcome
  BY <1>3 DEF Callback, CaptureDies, CaptureRestamps, CaptureReserves,
              CaptureSettles, CaptureReleases, CaptureEarns
<1>4. ASSUME NEW b \in Bookings, Cancel(b) PROVE UNCHANGED outcome
  BY <1>4 DEF Cancel, CancelPending, CancelRead, CancelFollows, CancelCommits,
              CancelReserves, CancelSettles, CancelDies
<1>5. ASSUME NEW b \in Bookings, Sweep(b) PROVE UNCHANGED outcome
  BY <1>5 DEF Sweep, SweepRead, SweepFinishes, ReconcileOrphan, SyncEarnings,
              PendingRefundReconciled
<1>6. QED
  BY <1>1, <1>2, <1>3, <1>4, <1>5 DEF Next

\* The winner's slot stays confirmed even when the winner cancels, so the
\* constraint refuses whatever would confirm the loser.
LEMMA LoserIsOutbidStep ==
  ASSUME TypeOK, FreshIsEmpty, LoserIsOutbid, [Next]_vars
  PROVE  LoserIsOutbid'
<1> SUFFICES ASSUME NEW b \in Bookings, outcome'[b] \in {"blocked", "excluded"}
             PROVE  slot'[b] # "confirmed" /\ \E c \in Rivals(b) : slot'[c] = "confirmed"
  BY DEF LoserIsOutbid, Rivals
<1>1. slot[b] # "confirmed" /\ \E c \in Rivals(b) : slot[c] = "confirmed"
  <2>1. CASE outcome[b] \in {"blocked", "excluded"}
    BY <2>1 DEF LoserIsOutbid
  <2>2. ASSUME NEW d \in Bookings, Webhook(d), outcome[b] \notin {"blocked", "excluded"}
        PROVE  slot[b] # "confirmed" /\ \E c \in Rivals(b) : slot[c] = "confirmed"
    BY <2>2 DEF Webhook, CaptureWrongAmount, CaptureAfterTerminal, CaptureBlocked,
                CaptureExcluded, CaptureConfirms, Decides, RecheckBlocks,
                ConstraintRefuses, TypeOK
  <2>3. QED
    BY <2>1, <2>2, OutcomeMoves
<1>2. \E c \in Rivals(b) : slot'[c] = "confirmed"
  BY <1>1, ConfirmedForEver DEF Rivals
<1>3. slot'[b] # "confirmed"
  <2>1. ASSUME NEW d \in Bookings, Checkout(d) PROVE slot'[b] # "confirmed"
    BY <2>1, <1>1 DEF Checkout, TypeOK
  <2>2. ASSUME NEW d \in Bookings, Confirm(d) PROVE slot'[b] # "confirmed"
    BY <2>2, <1>1 DEF Confirm, ConstraintRefuses, TypeOK
  <2>3. QED
    BY <2>1, <2>2, <1>1, SlotMoves
<1>4. QED
  BY <1>2, <1>3

\* Every path that ends a payment without success releases its live hold.
LEMMA HoldsAreBackedStep ==
  ASSUME TypeOK, HoldsAreBacked, [Next]_vars
  PROVE  HoldsAreBacked'
<1> USE DEF TypeOK, HoldsAreBacked, LiveHold
<1>1. CASE UNCHANGED vars
  BY <1>1 DEF vars
<1>2. ASSUME NEW d \in Bookings, Buyer(d) PROVE HoldsAreBacked'
  BY <1>2 DEF Buyer, Checkout, HoldLapses, Pays
<1>3. ASSUME NEW d \in Bookings, Webhook(d) PROVE HoldsAreBacked'
  BY <1>3 DEF Webhook, CaptureWrongAmount, CaptureAfterTerminal, CaptureBlocked,
              CaptureExcluded, CaptureConfirms, Confirm, CaptureOf, Stamp,
              CaptureUnchanged
<1>4. ASSUME NEW d \in Bookings, Callback(d) \/ CaptureDies(d) PROVE HoldsAreBacked'
  BY <1>4 DEF Callback, CaptureDies, CaptureRestamps, CaptureReserves, CaptureSettles,
              CaptureReleases, CaptureEarns, CleanUp, Stamp, CaptureUnchanged,
              RefundUnchanged
<1>5. ASSUME NEW d \in Bookings, Failure(d) PROVE HoldsAreBacked'
  BY <1>5 DEF Failure, FailureRead, FailureWrite, CleanUp
<1>6. ASSUME NEW d \in Bookings, Cancel(d) PROVE HoldsAreBacked'
  BY <1>6 DEF Cancel, CancelPending, CancelRead, CancelFollows, CancelCommits,
              CancelReserves, CancelSettles, CancelDies, RefundUnchanged
<1>7. ASSUME NEW d \in Bookings, Sweep(d) PROVE HoldsAreBacked'
  <2>1. CASE SweepFinishes(d)
    BY <2>1 DEF SweepFinishes, SweepKeepsConfirmed, SweepExpires, SweepRollsBack,
                ExpireIfPending
  <2>2. CASE ReconcileOrphan(d)
    BY <2>2 DEF ReconcileOrphan, Confirm
  <2>3. QED
    BY <1>7, <2>1, <2>2 DEF Sweep, SweepRead, SyncEarnings, PendingRefundReconciled,
                            RefundUnchanged
<1>8. QED
  BY <1>1, <1>2, <1>3, <1>4, <1>5, <1>6, <1>7 DEF Next

\* The seven parts together are inductive.
LEMMA IInvHolds == Spec => []IInv
<1>1. Init => OneConfirmed /\ FreshIsEmpty /\ CaptureVouches /\ RefundRowCounts
              /\ LoserIsOutbid /\ HoldsAreBacked
  BY DEF Init, OneConfirmed, FreshIsEmpty, CaptureVouches, RefundRowCounts,
         LoserIsOutbid, HoldsAreBacked, LiveHold
<1> DEFINE Rest == /\ OneConfirmed /\ FreshIsEmpty /\ CaptureVouches
                   /\ RefundRowCounts /\ LoserIsOutbid /\ HoldsAreBacked
<1>2. TypeOK /\ Rest /\ [Next]_vars => Rest'
  BY OneConfirmedStep, FreshIsEmptyStep, CaptureVouchesStep, RefundRowCountsStep,
     LoserIsOutbidStep, HoldsAreBackedStep
<1>3. IInv <=> TypeOK /\ Rest
  BY DEF IInv
<1> HIDE DEF Rest
<1>4. Init => Rest
  BY <1>1 DEF Rest
<1>5. QED
  BY <1>2, <1>3, <1>4, TypeCorrect, PTL DEF Spec

----------------------------------------------------------------------------
\* The safety properties

\* Two overlapping requests never stand APPROVED with live confirmed slots: the
\* recheck of confirmExistingAppointment, backed by slot_no_confirmed_overlap.
THEOREM WindowSoldOnce == Spec => []NoDoubleBooking
<1>1. IInv => NoDoubleBooking
  BY DEF IInv, OneConfirmed, NoDoubleBooking, Booked
<1>2. QED
  BY <1>1, IInvHolds, PTL

\* A slot is confirmed against captured money only (handlePaymentSuccess and
\* reconcile-orphaned-confirmations, which selects SUCCEEDED payments).
THEOREM ConfirmedOnCapture == Spec => []BookedOnlyIfCaptured
<1>1. IInv => BookedOnlyIfCaptured
  BY DEF IInv, CaptureVouches, BookedOnlyIfCaptured
<1>2. QED
  BY <1>1, IInvHolds, PTL

\* A live tentative slot has a payment behind it that may succeed or did
\* (cleanupFailedPaymentAppointment, cancelPendingCheckout, the sweep).
THEOREM HoldsStayBacked == Spec => []HoldsAreBacked
<1>1. IInv => HoldsAreBacked
  BY DEF IInv
<1>2. QED
  BY <1>1, IInvHolds, PTL

\* The money goes back once at most: refundPayment reserves the balance with its
\* PENDING row before it calls the gateway.
THEOREM MoneyBackOnce == Spec => []RefundAtMostOnce
<1>1. IInv => RefundAtMostOnce
  <2> SUFFICES ASSUME IInv, NEW b \in Bookings PROVE paidBack[b] <= 1
    BY DEF RefundAtMostOnce
  <2>1. paidBack[b] = 0 \/ paidBack[b] = 1
    BY DEF IInv, RefundRowCounts
  <2>2. QED
    BY <2>1
<1>2. QED
  BY <1>1, IInvHolds, PTL

\* The refunded loser of a window is not booked by any later re-drive.
THEOREM RefundedLoserStaysOut == Spec => []LoserStaysOut
<1>1. IInv => LoserStaysOut
  BY DEF IInv, LoserIsOutbid, LoserStaysOut, Booked
<1>2. QED
  BY <1>1, IInvHolds, PTL

\* No handler revives a cancelled or expired request: every write of the status
\* is a CAS on the from-states of REQUEST_ALLOWED_FROM.
LEMMA EndedStays ==
  ASSUME TypeOK, [Next]_vars, NEW b \in Bookings, request[b] \in Ended
  PROVE  request'[b] = request[b]
<1> USE DEF TypeOK, Ended, Expirable, Cancellable
<1>1. CASE UNCHANGED vars
  BY <1>1 DEF vars
<1>2. ASSUME NEW d \in Bookings, Buyer(d) PROVE request'[b] = request[b]
  BY <1>2 DEF Buyer, Checkout, HoldLapses, Pays
<1>3. ASSUME NEW d \in Bookings, Webhook(d) PROVE request'[b] = request[b]
  BY <1>3 DEF Webhook, CaptureWrongAmount, CaptureAfterTerminal, CaptureBlocked,
              CaptureExcluded, CaptureConfirms, Confirm
<1>4. ASSUME NEW d \in Bookings, Callback(d) \/ CaptureDies(d)
      PROVE  request'[b] = request[b]
  BY <1>4 DEF Callback, CaptureDies, CaptureRestamps, CaptureReserves, CaptureSettles,
              CaptureReleases, CaptureEarns, CleanUp, RefundUnchanged
<1>5. ASSUME NEW d \in Bookings, Failure(d) PROVE request'[b] = request[b]
  BY <1>5 DEF Failure, FailureRead, FailureWrite, CleanUp
<1>6. ASSUME NEW d \in Bookings, Cancel(d) PROVE request'[b] = request[b]
  BY <1>6 DEF Cancel, CancelPending, CancelRead, CancelFollows, CancelCommits,
              CancelReserves, CancelSettles, CancelDies, RefundUnchanged
<1>7. ASSUME NEW d \in Bookings, Sweep(d) PROVE request'[b] = request[b]
  BY <1>7 DEF Sweep, SweepRead, SweepFinishes, SweepKeepsConfirmed, SweepExpires,
              SweepRollsBack, ReconcileOrphan, Confirm, SyncEarnings,
              PendingRefundReconciled, RefundUnchanged
<1>8. QED
  BY <1>1, <1>2, <1>3, <1>4, <1>5, <1>6, <1>7 DEF Next

\* Captures, failures, cancels, sweeps and re-drives leave a cancelled or expired request
\* what it is.
THEOREM EndedForEver == Spec => TerminalRequestsStayTerminal
<1>1. TypeOK /\ [Next]_vars
        => [\A b \in Bookings : request[b] \in Ended => request'[b] = request[b]]_vars
  BY EndedStays
<1>2. QED
  BY <1>1, TypeCorrect, PTL DEF Spec, TerminalRequestsStayTerminal

----------------------------------------------------------------------------
\* The refinement of ExclusiveWindow

Standing(b) ==
    IF Booked(b) THEN "granted" ELSE IF request[b] \in Ended THEN "ended" ELSE "open"

\* A step moves the standing of one booking: to a grant, or to the end.
Moves(b) ==
    /\ \A c \in Bookings \ {b} : Standing(c)' = Standing(c)
    /\ \/ Standing(b)' = Standing(b)
       \/ Standing(b) = "open" /\ Standing(b)' = "granted"
       \/ Standing(b) # "ended" /\ Standing(b)' = "ended"

\* A grant is only ever taken back by ending the request: what tombstones a slot
\* and leaves the request alone finds the slot still tentative.
LEMMA StandingMoves ==
  ASSUME TypeOK, FreshIsEmpty, [Next]_vars
  PROVE  (\A b \in Bookings : Standing(b)' = Standing(b)) \/ \E b \in Bookings : Moves(b)
<1> USE DEF TypeOK, FreshIsEmpty, Standing, Booked, Ended, Expirable, Cancellable, LiveHold
<1>1. CASE UNCHANGED vars
  BY <1>1 DEF vars
<1>2. ASSUME NEW d \in Bookings, Buyer(d) PROVE Moves(d)
  BY <1>2 DEF Moves, Buyer, Checkout, HoldLapses, Pays
<1>3. ASSUME NEW d \in Bookings, Webhook(d) PROVE Moves(d)
  <2>1. CASE CaptureConfirms(d)
    BY <2>1 DEF Moves, CaptureConfirms, Confirm, CaptureUnchanged
  <2>2. QED
    BY <1>3, <2>1 DEF Moves, Webhook, CaptureWrongAmount, CaptureAfterTerminal,
                      CaptureBlocked, CaptureExcluded, CaptureUnchanged
<1>4. ASSUME NEW d \in Bookings, Callback(d) \/ CaptureDies(d) PROVE Moves(d)
  <2>1. CASE CaptureReleases(d)
    BY <2>1 DEF Moves, CaptureReleases, CleanUp
  <2>2. QED
    BY <1>4, <2>1 DEF Moves, Callback, CaptureDies, CaptureRestamps, CaptureReserves,
                      CaptureSettles, CaptureEarns, CaptureUnchanged, RefundUnchanged
<1>5. ASSUME NEW d \in Bookings, Failure(d) PROVE Moves(d)
  BY <1>5 DEF Moves, Failure, FailureRead, FailureWrite, CleanUp
<1>6. ASSUME NEW d \in Bookings, Cancel(d) PROVE Moves(d)
  <2>1. CASE CancelPending(d)
    BY <2>1 DEF Moves, CancelPending
  <2>2. CASE CancelCommits(d)
    BY <2>2 DEF Moves, CancelCommits
  <2>3. QED
    BY <1>6, <2>1, <2>2 DEF Moves, Cancel, CancelRead, CancelFollows, CancelReserves,
                            CancelSettles, CancelDies, RefundUnchanged
<1>7. ASSUME NEW d \in Bookings, Sweep(d) PROVE Moves(d)
  <2>1. CASE SweepFinishes(d)
    BY <2>1 DEF Moves, SweepFinishes, SweepKeepsConfirmed, SweepExpires, SweepRollsBack
  <2>2. CASE ReconcileOrphan(d)
    BY <2>2 DEF Moves, ReconcileOrphan, Confirm
  <2>3. QED
    BY <1>7, <2>1, <2>2 DEF Moves, Sweep, SweepRead, SyncEarnings,
                            PendingRefundReconciled, RefundUnchanged
<1>8. QED
  BY <1>1, <1>2, <1>3, <1>4, <1>5, <1>6, <1>7 DEF Next

\* The checkouts, webhooks, cancels and sweeps of BookingPayment, seen through who
\* holds the window, are the calendar's contract and nothing else.
THEOREM ContractImplemented == Spec => ImplementsWindow
<1> DEFINE standing == [b \in Bookings |->
                          IF Booked(b) THEN "granted"
                          ELSE IF request[b] \in Ended THEN "ended" ELSE "open"]
<1>1. \A b \in Bookings : standing[b] = Standing(b) /\ standing'[b] = Standing(b)'
  BY DEF Standing
<1>2. Init => Window!Init
  BY DEF Init, Window!Init, Booked, Ended
<1>3. IInv /\ IInv' /\ [Next]_vars => [Window!Next]_standing
  <2> SUFFICES ASSUME IInv, IInv', [Next]_vars
               PROVE  Window!Next \/ standing' = standing
    OBVIOUS
  <2>1. CASE \A b \in Bookings : Standing(b)' = Standing(b)
    BY <2>1, <1>1
  <2>2. ASSUME NEW b \in Bookings, Moves(b)
        PROVE  Window!Next \/ standing' = standing
    <3>1. \A c \in Bookings \ {b} : standing'[c] = standing[c]
      BY <2>2, <1>1 DEF Moves
    <3>2. standing' = [standing EXCEPT ![b] = Standing(b)']
      BY <3>1, <1>1
    <3>3. CASE Standing(b)' = Standing(b)
      BY <3>2, <3>3, <1>1
    <3>4. CASE Standing(b) = "open" /\ Standing(b)' = "granted"
      <4>1. \A c \in Window!Granted : <<b, c>> \notin Overlaps
        <5> SUFFICES ASSUME NEW c \in Bookings, standing[c] = "granted",
                            <<b, c>> \in Overlaps
                     PROVE  FALSE
          BY DEF Window!Granted
        <5>1. b # c
          BY BookingAssumption
        <5>2. Standing(c)' = "granted"
          BY <5>1, <3>1, <1>1
        <5>3. Booked(b)' /\ Booked(c)'
          BY <3>4, <5>2 DEF Standing
        <5>4. QED
          BY <5>3 DEF IInv, OneConfirmed, Booked
      <4>2. Window!Grant(b)
        BY <4>1, <3>2, <3>4, <1>1 DEF Window!Grant
      <4>3. QED
        BY <4>2 DEF Window!Next
    <3>5. CASE Standing(b) # "ended" /\ Standing(b)' = "ended"
      BY <3>2, <3>5, <1>1 DEF Window!Next, Window!End
    <3>6. QED
      BY <2>2, <3>3, <3>4, <3>5 DEF Moves
  <2>3. QED
    BY <2>1, <2>2, StandingMoves DEF IInv
<1>4. QED
  BY <1>2, <1>3, IInvHolds, PTL DEF Spec, ImplementsWindow, Window!Spec

----------------------------------------------------------------------------
\* A slot that was confirmed stays so, cancelled or not: nothing in the code resets
\* isTentative, which is why the exclusion constraint refuses the window's next buyer.
SlotsStayConfirmed ==
    [][\A b \in Bookings : slot[b] = "confirmed" => slot'[b] = "confirmed"]_vars

\* Capture, cancel, sweep and re-drive alike never write isTentative back to true.
THEOREM ConfirmationIsFinal == Spec => SlotsStayConfirmed
<1>1. TypeOK /\ FreshIsEmpty /\ [Next]_vars
        => \A b \in Bookings : slot[b] = "confirmed" => slot'[b] = "confirmed"
  BY ConfirmedForEver
<1>2. IInv => TypeOK /\ FreshIsEmpty
  BY DEF IInv
<1>3. QED
  BY <1>1, <1>2, IInvHolds, PTL DEF Spec, SlotsStayConfirmed

\* Of two overlapping slots one at most is ever confirmed, whatever became of their
\* requests: the exclusion constraint and the capture's recheck hold for ended ones too.
THEOREM WindowConfirmedOnce == Spec => []OneConfirmed
<1>1. IInv => OneConfirmed
  BY DEF IInv
<1>2. QED
  BY <1>1, IInvHolds, PTL
=============================================================================
