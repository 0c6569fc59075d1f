# Familiarise: a verification of its booking and money protocols

Familiarise (`src/README.md`) is a Next.js marketplace on which people and
organisations book consultants.  It runs on serverless instances with Postgres
(through Prisma), Upstash Redis, Razorpay for money and Stream for calls and
chat.  Nothing stays in memory between requests: every protocol of the system is
written as database transactions, compare-and-set updates, `after()` callbacks
that may die, webhooks that come late, twice or never, and cron sweeps that mend
what was left half done.  That is what this project models.

## 1. Inventory

| Component | State it keeps | Operations | What is hard |
|---|---|---|---|
| Booking payment core (`lib/payments/webhooks`, `lib/booking/transitions.ts`) | `Consultation.status`, `SlotOfAppointment.isTentative/deletedAt`, `Payment.paymentStatus` | checkout, capture, failure, cancel, sweep, re-drive | two buyers of one window; money captured after the request ended; work lost between a commit and its callback |
| Inbound webhook event log (`lib/webhooks/event-log.ts`) | `WebhookEvent.processed/error/receivedAt/claimedAt` | receive, claim, drive, close, sweep, give up | duplicate drives, events nobody finishes, errors lost on close |
| Refund engine (`lib/payments/operations/refund.ts`) | `Refund.status` and `refundId`, the balance they reserve, `cascadedAt`, `refundedShareAmount` | check, reserve, submit, bind, settle, receive, reconcile, cascade | two rows for one refund; a reservation left by a crash; a refund made on the gateway's dashboard |
| Earnings and payouts (`lib/payments/payouts`) | `ConsultantEarnings.status/payoutId/preDisputeStatus`, `ConsultantPayout.status/providerPayoutId/retryCount`, organisation twins | accrue, mature, hold, batch, approve, reject, submit, settle, reverse, retry | a transfer whose answer is lost; overlapping batches and runs; a refund or a dispute of earnings already in a batch |
| Double-entry ledger (`lib/payments/ledger/post.ts`) | journal, balance snapshots | post, read, reconcile | idempotent posting under races, lock order of the snapshot rows |
| Organisation wallet, invoices, overage (`lib/payments/billing`) | wallet balance, invoice and overage status | top up, charge, roll up, dun | spending below zero, a capture after the top-up was swept |
| Slot allocation (`utils/slotAllocation`, `lib/scheduling`) | none of its own: slots, appointments, request status | search the calendar, validate, replace sessions, supersede proposals | what it read before its transaction is stale when it writes |
| Locks (`utils/appointmentlock.ts`, `lib/redis.ts`, `lib/cron`) | Redis keys with a TTL, circuit breakers | acquire, extend, release | a lock that expires under its holder |
| Reschedule proposals (`lib/booking`, the reschedule routes) | `RescheduleRequest.status`, `openForAppointmentId`, released slots, request status | release, propose, accept, decline, withdraw, auto-confirm, expire | an answer crossing a cancel, a withdrawal, an expiry or a placement; placement and answer are two transactions |
| Approval-first bookings (`lib/payments/operations/approval-payment.ts`, `scripts/appointments`) | request status, its age | ask, approve, pay, expire | an approval crossing the expiry |
| Events, waitlist, programs (`lib/events`, `lib/waitlist`, `lib/enterprise`) | seats, places, cycle counters | register, promote, consume, advance | the last seat, a cycle advanced twice |
| Outbound webhooks (`lib/enterprise/outbound-webhooks`) | delivery and endpoint rows | enqueue, deliver, back off, redeliver, disable | a crash between the POST and the outcome |
| Stream mirror (`lib/stream`) | channels, calls, recordings | create, tear down, transfer | a vendor's state that drifts |
| Disputes (`lib/payments/dispute-status.ts`, the dispute webhooks, `scripts/disputes`) | `Dispute.status`, held earnings | create, update, win, lose, mend | a dispute that meets a payout or a refund half way |
| Moderation, support, compliance, referrals, collaborators, notifications, auth, UI | status columns, mostly sequential | | little concurrency of their own |

They interact through the database: a checkout writes the request, slot and
payment that the webhooks, the cancel routes and the sweeps later move; a refund
reads the earnings the webhook's callback created; the crons of `jobs/` and the
tick endpoints run the same functions of `scripts/` under one lock per job.

What makes each of them correct: a window is sold once and an ended request
never returns (booking core); money goes back once, and never more than was
captured (refunds); a recorded event is handled or closed with an error, never
silently dropped (event log); an earning's money leaves once, and only after its
hold period (payouts); the session that was paid for is neither lost nor doubled
when it moves (reschedules); every journal entry balances and is posted once (ledger); no seat,
wallet or quota goes below zero (wallet, events); one holder per lock (locks).

## 2. Modules

| Module | What it is |
|---|---|
| `ExclusiveWindow` | the abstract contract of a consultant's calendar: open, granted, ended; overlapping grants exclude each other; the end is final |
| `BookingPayment` | the booking payment core, every transaction and every step after one |
| `BookingPaymentMC` | its instances: one window, one buyer or two |
| `BookingPaymentProofs` | its inductive invariant and ten theorems, for any number of bookings |
| `WebhookEventLog` | one `WebhookEvent` row and everybody who drives it |
| `WebhookEventLogMC` | its instances: one live callback, one sweep or two |
| `WebhookEventLogProofs` | its inductive invariant and three theorems, for any number of deliveries and sweeps |
| `OutboundWebhooks` | the delivery queue of one endpoint, its worker ticks under the cron lock, its operator |
| `OutboundWebhooksMC` | its instance: two ticks on one delivery |
| `OutboundWebhooksProofs` | its inductive invariant and six theorems, for any number of ticks and deliveries |
| `Payouts` | one consultant's earnings, the batches, the payouts, the runs that submit them, the gateway, disputes and refunds |
| `PayoutsMC` | its instances: overlapping batches over two payouts, overlapping runs over one |
| `PayoutsProofs` | its inductive invariant and seven theorems, for any number of earnings, payouts, batches and runs |
| `RefundEngine` | the refunds of one payment: requests, dashboard refunds, events, the two jobs, a dispute |
| `RefundEngineMC` | its instance: two requests and a dashboard refund |
| `RefundEngineProofs` | its inductive invariant and four theorems, for any requests, amounts and legs |
| `RefundBalanceProofs` | a second invariant on top of it, about sums and rounding, and five theorems |
| `SumTheorems` | lemmas about the sum of a function over a finite set, used by both |
| `Reschedule` | one booking that moves: reschedule, proposal, its answers, the allocator, the cancel, the jobs |
| `RescheduleMC` | its instances: one proposal, one mover or two |
| `RescheduleProofs` | its inductive invariant and four theorems, for any number of proposals, movers and sessions |

Each module stands for one part of the database and takes what it needs of the
others as steps of its own: `BookingPayment` refunds a whole balance where
`RefundEngine` has every step of a partial one, `Payouts` takes a refund as one
write to an earning, which is what the cascade of `RefundEngine` does to it, and
`Reschedule` starts from a booking that `BookingPayment` confirmed.

### BookingPayment

A *booking* is one direct-checkout consultation with its slot, payment, refund
and earnings.  One variable stands for one column (`request`, `slot`,
`released` for `deletedAt`, `payment`, `due` for a passed `expiresAt`, `credits`,
`refund`, `earnings`); `money` and `paidBack` are the gateway's side; `capture`,
`failing`, `cancelling` and `sweeping` say where a handler stands *between* two
of its database calls; `outcome` remembers what the capture transaction decided.

| Actor | Actions | Code |
|---|---|---|
| buyer, clock | `Checkout`, `HoldLapses`, `Pays` | `handleConsultationCheckout`; the gateway |
| capture webhook and `reconcile-payment-status` | `CaptureWrongAmount`, `CaptureAfterTerminal`, `CaptureBlocked`, `CaptureExcluded`, `CaptureConfirms`, then `CaptureRestamps`, `CaptureReserves`, `CaptureSettles`, `CaptureReleases`, `CaptureEarns` | phase 1 (one Serializable transaction) and phase 2 of `handlePaymentSuccess` |
| failure webhook | `FailureRead`, `FailureWrite` | `handlePaymentFailure`, which reads and writes in a transaction that is not Serializable |
| buyer or consultant | `CancelPending`; `CancelRead`, `CancelCommits`, `CancelReserves`, `CancelSettles` | `cancelPendingCheckout`; the cancel route |
| sweeps | `SweepRead`, `SweepFinishes`, `ReconcileOrphan`, `SyncEarnings`, `PendingRefundReconciled` | `scripts/payments`, `scripts/earnings`, `scripts/refunds` |
| failures | `CaptureDies`, `CancelDies` | a frozen instance, a call that throws into a catch |

Steps of one Serializable transaction are one action.  Steps on either side of a
commit, or of a read made before the transaction, are separate actions, so any
other actor may move in between.  `slot_no_confirmed_overlap`
(`prisma/sql/check-constraints.sql`) is a guard, `ConstraintRefuses`.

Simplified: the refund is of the whole balance (the policy may keep a part);
the refund's gateway call and its settlement are one step, and what a crash
between them leaves is the pending row `PendingRefundReconciled` finds, with
either answer of the gateway; a transaction that a serialization failure aborts
is retried and shows only as its last run; a failed refund reservation that
`reconcile-pending-refunds` frees makes the balance refundable again.

### WebhookEventLog

One row, because rows of different events never meet.  Timestamps become ages
that saturate just past the longest threshold (`StaleAfter` 5 min, `SweepAfter`
6 min, `GiveUpAfter` 168 h, kept in this order and scaled to 1, 1 or 2, 2 or 3): the code only compares
`now - timestamp` with them.  A compare-and-set on a timestamp succeeds iff
nobody re-stamped the row since it was read, so the model keeps the set of
readers that are still current.  `LogRead`, `Create`, `ClaimFailed` and
`ClaimStale` are the four database calls of `logWebhookEvent`; `Handle` and
`Mark` the dispatch; `SweepSelect`, `SweepClaim`, `SweepLog`, `SweepCheck`,
`SweepGiveUp`, `SweepThrows` and `SweepStampsFailure` the sweep, with its Razorpay
branch (which drives the handler directly) and its Stream branch (which claims a
second time through `logWebhookEvent`).  `Crash` stops any driver anywhere.

### OutboundWebhooks

One endpoint and its deliveries.  `delivery`, `ripe` (a passed `nextRetryAt`, or
an IN_FLIGHT row past the ten-minute stale window) and `endpoint` are the tables,
`lock` is the Redis key `cron:lock:dispatch-outbound-webhooks`; `pc`, `batch` and
`current` are a tick's position and the copies it selected and acts on.

| Actor | Actions | Code |
|---|---|---|
| cron lock | `Acquire`, `Release`, `Expire`, `Overrun` | `withCronLock`, `acquireLock`, `releaseLock`; the TTL |
| worker tick | `Select`, `Abort`, `Claim`, `LoseClaim`, `Post`, `Record`, `Credit`, `Blame`, `Disable`, `Finish` | `runDispatchTick`, one action per database call |
| failures | `Throw`, `Crash` | a call that throws (the lock is released in `finally`), an instance that dies |
| producer, clock, operator | `Dispatch`, `Ripen`, `Patch`, `Redeliver` | `dispatchWebhookEvent`, the back-off, the two organisation routes |

Simplified: a batch takes every due row (`MAX_BATCH` is 50) in any order;
the back-off has no length; the deletion of the endpoint, which deletes its
deliveries, is left out; without Redis (a laptop, a test) the cron runs unlocked,
which is the case an overrun stands for.

### Payouts

`status`, `link`, `prior` and `refunded` are the `ConsultantEarnings` row
(`payoutId`, `preDisputeStatus`, `refundedShareAmount`), `dispute` the dispute on
its payment; `state`, `counts`, `sent` and `retries` the `ConsultantPayout` row:
`counts` is what its amount takes from each earning, `sent` says that
`providerPayoutId` is set.  `gateway` is what RazorpayX did with the payout's
idempotency key.  `batch` is what a batch read before it links; `pc`, `list` and
`at` where a run over the approved payouts stands.

| Actor | Actions | Code |
|---|---|---|
| release job, disputes, refunds | `Mature`; `DisputeCreated`, `DisputeUpdated`, `HandleLostDispute`; `RefundEarning` | `releasePendingEarnings`; the dispute webhooks and the job over lost ones; `applyRefundCascade` |
| batch, administrator | `ReadReady`, `Link`, `RollBack`; `Approve`, `Reject` | `createPayoutBatch`; `approvePayout`, `rejectPayout` |
| run | `Start`, `Visit`, `Claim`, `Submit`, `Refuse`, `Save`, `Fail`, `ReleaseFailed`, `Finish` | `processApprovedPayouts`, `processSinglePayout`, one action per database or gateway call |
| failures | `SaveFails`, `Crash`; `Visit`, `Claim` and `Submit` that go on to `fail` | a write that fails twice, a run that dies; an exception at the gate or the claim, an answer that is lost |
| gateway and its events | `Progress`, `Webhook` (`Complete`, `Bounce`, `Demote`, `Reverse`) | RazorpayX; `handlePayoutWebhook`, `markConsultantPayoutReversed` |
| jobs | `Reconcile`; `Retry`, `GiveUp` | `reconcile-payout-status`; `handle-stuck-payouts` |

The `try` of `processSinglePayout` (`payout-service.ts:645`) encloses the dispute
gate (`:650`), the claim (`:676`) and the submission, and its catch (`:903-987`)
writes FAILED by id and releases the earnings: a run that meets an exception before
it has claimed anything fails the payout of whichever run has.  So every step from
`Visit` to `Submit` may go on to `fail`, `Fail` asks for no status, and `Save`, which
writes by id too, may put the payout back to PROCESSING afterwards.  `writtenOff`
remembers the payouts that were failed or cancelled here while the gateway had them
or a run was sending them.

Simplified: the locks around batches and runs are left out, so both overlap
freely; the switch ENABLE_LIVE_PAYOUTS and the balance preflight, which hold
approved payouts back, are left out too; tax withheld and the payout account change
what is sent, not which rows move; a refund is one step.  A lost dispute takes back
any part of a share, which stands for the disputed proportion of it.  Events come in any order and any number of times,
except that a queued or pending event demotes a payout once.

### RefundEngine

A gateway refund is named by the request whose reservation id is its idempotency
key, or by the dashboard refund itself.  `own` is the status of the request's
`Refund` row, `hook` that of the row the webhook created, `carrier` says which of
them has the gateway's unique `refundId`; `ownDone` and `hookDone` are the rows
whose `cascadedAt` is set; `taken` is the earning's `refundedShareAmount`, `back`
what each funding leg got back.

| Actor | Actions | Code |
|---|---|---|
| request | `Check`, `Reserve`, `RefuseToReserve`, `Submit`, `Refuse`, `Bind`, `BindFailure`, `Settle`, `Crash` | `refundPayment`: first read, phase 1, 2, 3a, 3b |
| request on the organisation's money | `RefundInternally` | `refundInternalFundedPayment` |
| operator, gateway | `OperatorRefunds`, `Progress` | the gateway's dashboard; the gateway |
| refund events | `WebhookKnown`, `WebhookUnknown` | `handleRefundCreated` |
| jobs | `MatchPlaceholder`, `FailPlaceholder`, `PollRow`; `CascadeBackstop` | both passes of `reconcile-pending-refunds`; `cascade-refund-earnings` |
| bank | `Dispute`, `ResolveDispute` | the dispute webhooks |

Simplified: a wallet top-up, an invoice and a payment covered by credits alone
have branches of their own that are left out, and so is a refund that the gateway
cancels; a lost dispute takes nothing of the share, the disputed proportion of it or
all of it, of an earning that is not batched (the batched one is in `Payouts`).  The earning and the legs move with the cascade and
so does its ledger posting.

### Reschedule

`booking` is the status of the consultation or subscription, `aged` a
`requestedAt` past the expiry window; `row` is each `SlotOfAppointment`, whose
`completionStatus`, `isTentative` and `deletedAt` make five states (held, live,
released, dropped, gone); `proposal` is each `RescheduleRequest` with the
appointment it was opened at, the slots it names and what it asks for.  A
`mover` is a call that may end in the allocator, with what it has read so far;
`route` is the reschedule call between its reads and its transaction; `listed` says
that the hourly sweep has the consultation in its cohort.

| Actor | Actions | Code |
|---|---|---|
| either party | `Reschedule`: `RescheduleRead`, `ReleaseWaits`, `GiveUp` or `Propose`, `RescheduleFails`; `Withdraw`, `Decline`, `Cancel` | the reschedule route, whose reads come before its transaction; `withdrawRescheduleRequest`, `declineProposal`; the cancel route |
| movers | `OpenPage`; `Accept`; `AutoConfirm`, `LockForAuto` | `SlotPicker`; `acceptProposal`; `tryAutoConfirmProposal` |
| allocator | `AllocatorRead`; `AllocatorCheck`, `AllocatorFind`, `AllocatorClear`, `AllocatorCommit`; `Abandon` | `manualAllocate`: the reads under the booking's lock, then the statements of its transaction; `allocate`'s catch |
| closing write | `Close` | the second transaction of the accept and of the automatic confirmation |
| jobs, clock | `ExpireProposals`, `ListStale`, `ExpirePending`, `SkipListed`, `ExpireUnallocated`, `ReleaseStale`; `Lapse`, `Age` | `expire-reschedule-proposals`, `expire-stale-requests` |

The transactions set no isolation level, so they run at READ COMMITTED, and one
that takes no lock may commit between two statements of another.  The allocator's is
therefore four steps: the counts it repeats (`SlotAllocationService.ts:769-801`), the
`findMany` of what it clears (`:3961`), the deletes (`:4003-4026`), and the rest of
it with its commit (`:4027-4246`).  What it has deleted and not committed
is seen by nobody, but a writer of those rows waits: the withdrawal does (`Waits`), and the
release has found its rows, does not see the new one, and finds them deleted when it goes on
(`ReleaseWaits`).  `crossed` remembers which of the two has happened inside an allocation.
The cancel, the withdrawal, the decline, the closing write and the jobs' writes
begin with the compare-and-set that decides them and touch only rows which that
write or their own row locks settle, so they are one step each; what such a
transaction acts on but read earlier (the reschedule's sessions, the sweep's cohort) is a
step of its own.  A whole release goes through, as the route's does (`allowZero`),
for a plan with no session left to move.

Simplified: whether the times fit the calendar is the choice between
`AllocatorCommit` and `Abandon`; the locks do not run out under their holder; the
automatic and requested modes, topping up, the reallocation of a session under
way and the sessions of events are left out.

## 3. Runs

| Run | Shows |
|---|---|
| `booking_window` | two buyers of one window, every actor, one callback or cancel that dies: the six invariants, `TerminalRequestsStayTerminal`, and `ImplementsWindow`, the refinement of `ExclusiveWindow` |
| `booking_hold_live` | one booking, two deaths: a hold nobody pays for is released in the end |
| `booking_failure_race` | violation: a late failure event overwrites SUCCEEDED |
| `webhook_events` | two overlapping entries of the sweep and a live callback on one row, for both gateways: the sweeps exclude each other |
| `webhook_live` | two deliveries, a sweep and a death, for both gateways: no silent success, and every recorded event settles |
| `outbound_queue` | one delivery, two ticks contending for the lock, a fault, a lock that expires under its holder, a patch and a replay: attempts are POSTs and bounded, SUCCESS was answered, settled stays settled, every delivery settles |
| `payouts_paid` | two overlapping batches and two overlapping runs over one earning, two payouts, two deaths, an exception anywhere before the answer, every event in any order: money leaves twice only through a payout written off here while the gateway had it or another run was sending it, and PAID was processed |
| `payouts_settle` | two overlapping runs over one payout, two deaths, an exception anywhere, a refund, a dispute: a payout that can still be paid keeps its earnings unless it was written off, no dispute cuts a hold period short, what was approved settles |
| `payouts_timeout` | violation: a submission whose answer is lost is failed and its earnings are paid again under another key |
| `refund_engine` | two requests and a dashboard refund on a payment of two legs, a request that dies anywhere, a dispute, events late, repeated or lost: one balance, one cascade per refund, moving money is booked, rounding is bounded, everything settles although no event need arrive |
| `reschedule` | a consultation that is rescheduled twice or a subscription of two sessions that is once, a proposal, two movers, the allocator's transaction statement by statement, every answer, cancel and job: the session is never lost, and doubled only by a withdrawal that crosses an allocation; a yes is true, the end is final, every proposal is answered, no booking waits for ever |
| `reschedule_accept` | violation: the accept of a subscription's proposal deletes the proposal with the session it replaces, so the closing write fails although nobody answered first |

**Bounds.**  Two overlapping bookings are the smallest conflict and every
exclusion is between pairs; a third would only repeat the pair, and the theorems
hold for any number.  One fault per run puts a death at every step, and the
liveness runs allow a second one where the first was repaired.  Two deliveries
are a first and a redelivery; two sweeps are an overlap.  Two ticks are an
overlap, and what one of them selected grows old while the other works; deliveries
meet only through the endpoint's `failureCount`, and the theorems hold for any
number of them.  `MaxAttempts` 3 (5 in the code) has a first, a middle and a last attempt,
`DisableAfter` 2 (25) a failure that does not disable and one that does.

An earning is paid twice through two payouts, so one earning and two payouts are
enough; a share of two paise can be refunded in part and in full.  `AutoApprove` 2
over a share of one approves every payout of `payouts_paid` by itself, 0 leaves
those of `payouts_settle` to the administrator, so both ways in occur.  `MaxRetries` (3 in the
code) is 2 in `payouts_settle`, a first retry and a last one, and two deaths use both up; it is 1 in
`payouts_paid`, where a run that read its list before the reset claims once more and dies,
and the job gives up.
`payouts_paid` leaves refunds and disputes to `payouts_settle`, `payouts_settle` the
second payout to `payouts_paid`: together the two would be out of reach, and the
theorems have all of it at once.  An `Amount` of 2 paise lets two refunds fit, or one
and no more; with a share of one paisa and two legs every proportion rounds.
`Sold` 2 makes a plan of which one session can move and the other stay; four rows
are two placements of it.  `MaxReleases` is a bound for each kind: a consultation has
a reschedule and one after its answer, a subscription one (of either session or both),
and one of each is enough for `reschedule_accept`.
The only proposal is enough for every answer to race with every other; two of
them are in the theorems.  The exception that `YesMeansMoved` makes for a preference
needs two: the allocation that consumes the second, after a withdrawal of the first
inside it, and without the exception the property is false of the code.

`CHECK_DEADLOCK FALSE` throughout: all bookings may be over, all events settled,
all payouts paid.  Symmetry is used in the runs without liveness only.

**Fairness.**  A hold lapses by the clock.  Razorpay redelivers, and
`reconcile-payment-status` polls, so a capture reaches the code; a callback that
does not die goes on.  The crons run for ever (ten of them on a five-minute
tick, the rest by schedule) and a run walks its whole cohort, so a booking that
stays in the cohort is reached; because a run is busy with one booking at a
time, that is strong fairness of `SweepRead` and `ReconcileOrphan`.  The outbound cron
comes round every minute: some tick gets a free lock, a live tick goes on, and
back-off, stale window and TTL run out, each by weak fairness.  Nothing is
assumed of operators, buyers, cancellations, failure events or of redeliveries to a row
that exists.  A payout run goes on until it dies, the two payout jobs come round
and RazorpayX decides what it queued; nobody has to approve, and no event has to
arrive.  A refund request goes on or dies, the two refund jobs come round, the
gateway decides what it accepted; no event has to arrive either (`DeliveringSpec`
adds them, for the departure below).  A proposal's deadline passes, a request
ages, the hourly jobs run; neither party has to do anything.

## 4. Proofs

`BookingPaymentProofs` proves, from `BookingAssumption` alone (overlap is
symmetric and irreflexive, `MaxFaults` a number), for every set of bookings:

| Theorem | States |
|---|---|
| `TypeCorrect` | `TypeOK` |
| `WindowSoldOnce` | `NoDoubleBooking` |
| `ConfirmedOnCapture` | `BookedOnlyIfCaptured` |
| `HoldsStayBacked` | `HoldsAreBacked` |
| `MoneyBackOnce` | `RefundAtMostOnce` |
| `RefundedLoserStaysOut` | `LoserStaysOut` |
| `EndedForEver` | `TerminalRequestsStayTerminal` |
| `ContractImplemented` | `ImplementsWindow`, the refinement |
| `ConfirmationIsFinal` | `SlotsStayConfirmed`: no step makes a confirmed slot tentative |
| `WindowConfirmedOnce` | `OneConfirmed`: of overlapping slots one at most is ever confirmed |

The argument.  `NoDoubleBooking` speaks of APPROVED requests and is not
inductive: requests come and go.  What never comes back is the slot - nothing
resets `isTentative` to true (`ConfirmedForEver`) - so the invariant is about
slots (`OneConfirmed`), and the exclusion constraint keeps it.  From the same
fact the loser of a window stays out: the slot that beat it stays confirmed,
cancelled or not (`LoserIsOutbid`).  Refunds are counted by their row
(`RefundRowCounts`): who is between reservation and settlement owns a pending
row, alone.  `CaptureVouches` traces every stamp to a capture, and
`FreshIsEmpty` keeps the webhooks from acting before the checkout.  `IInv` is
their conjunction with `TypeOK` and `HoldsAreBacked`; each part has one lemma
that every step preserves it.  For the refinement, `StandingMoves` shows that a
step moves the standing of one booking only, and takes a grant back only by
ending the request.

`WebhookEventLogProofs` proves, from `WebhookAssumption` (the drivers are
distinct and the thresholds in order), for every number of deliveries and entries of the
sweep:

| Theorem | States |
|---|---|
| `EventTypes` | `TypeOK` |
| `SuccessIsNeverSilent` | `NoSilentSuccess` |
| `ClaimKeepsSweepsApart` | `SweepsExclude` |

The argument.  `TypeOK` does not carry itself: what a driver closes a row with is its
verdict, and a handler that deferred has none, so `VerdictsAreKept` says where a verdict
stands; it also says that "ok" is only said of a handler that returned, which is
`NoSilentSuccess` one step earlier.  Two sweeps cannot drive together because the claim
is a compare-and-set on `claimedAt`: a read that is still current was made of a claim that
had run out (`CurrentReadsAreOld`), the row keeps the last claim (`ClaimsAreRecorded`),
and ages grow together, so who claims second finds the first past its time
(`ClaimsExclude`).  `SweepsNeedARow` keeps the sweep's Razorpay and Stream branches from
creating a row.

`OutboundWebhooksProofs` proves, from `OutboundAssumption` (bounds are numbers,
the code's two thresholds positive), for every set of ticks and deliveries:

| Theorem | States |
|---|---|
| `OutboundTypes` | `TypeOK`, attempts never past `MaxAttempts`, overruns included |
| `AttemptsAreHonest` | `PostsAreCounted` |
| `SuccessIsHonest` | `SuccessWasAccepted` |
| `SettledForGood` | `SettledStaysSettled` |
| `OneTickAtATime` | `TicksExclude`: one tick at work |
| `CopiesAreNeverStale` | `CopiesAreCurrent`: what a tick copied is what the table says |

The argument.  Whoever is in a tick holds the lock (`LockIsHeld`), so nobody else
writes what the tick copied: its copies are the rows as they stand, and the row
it sends is in flight with the attempts its copy says (`CopiesAreCurrent`).
That makes `attempts + 1` right although it is computed from the copy, and the
account of POSTs follows (`PostsAreRecorded`).  `AttemptsAreLeft` - what is not
settled has an attempt left, in the table and in every copy - needs no lock: it
is why the types survive an overrun.  The other five say `overruns = 0 =>`:
after an overrun a late tick writes by id whatever it likes, and they fail.

`PayoutsProofs` proves, from `PayoutsAssumption` (shares and bounds are numbers,
the sentinel is no payout), for every set of earnings, payouts, batches and runs:

| Theorem | States |
|---|---|
| `PayoutTypes` | `TypeOK`, and never more taken back than the share |
| `MoneyLeavesOnce` | `PaidOnce`: an earning leaves twice only through a payout that was written off |
| `LivePayoutsKeepEarnings` | `LiveKeepsEarnings`, of payouts neither demoted nor written off |
| `PaidIsProcessed` | `PaidWasProcessed` |
| `OnlyMaturedEarningsArePaid` | `OnlyMaturedIsPaid` |
| `OneRunSubmits` | `OneRunPerPayout`: while the id is not on the row, one run at most sends the payout, and the payout is PROCESSING, or FAILED by another run and written off |
| `SentEarningsStayTied` | `SentEarningsAreTied`: what the gateway has and nobody wrote off is still linked |

The argument.  No lock is in the model.  What the compare-and-set of the claim gives is that,
as long as the gateway's id is not on the row, one run at most *sends* a payout
(`OneRunPerPayout`): the claim is the only way there, and `Retry` waits for a run
long gone.  Once the id is there, and it is the gateway's (`IdsAreReal`), no run
comes back unless an event demoted the payout.  It does not give that nobody
else decides it: the catch fails a payout by id, whoever claimed it.  Such a failure is a
write-off by definition, and the theorems say what is left: earnings
are about to be released under a payout that is not written off only
when it is closed, not with the gateway and sent by nobody (`ReleasesAreWrittenOff`).
That the third part is stable is what needs the first: a failed payout cannot be claimed,
so nobody starts to send it between `Fail` and `ReleaseFailed`.  The other ways to
release write the payout off too (a rejection, a give-up) or come with an
event that says the money came back.
Hence an earning of a payout at the gateway stays linked to it
that nobody wrote off (`SentEarningsAreTied`), and a row has one link: two payouts cannot both have it.
How much the exception concedes is what `FailedNeverPaidAgain` and `OwnerDecides` show (section 5).
`LinksAreCounted` connects link and amount; `HeldRemembers` is what a dispute must
remember for a hold period not to be cut short.

`RefundEngineProofs` and `RefundBalanceProofs` prove, from `RefundEngineAssumption`, for
every finite set of requests and dashboard refunds, every amount, share and sequence of
legs.  The assumption: amounts are positive numbers, the names differ, and the legs but
the last sum to no more than the amount.  The code justifies the last part: the trigger
`payment_legs_sum_to_amount` (`prisma/sql/payment-legs-triggers.sql`) makes the legs sum
to `Payment.amount`, referral credits apart, and the checkout writes a credit's leg last.

| Theorem | States |
|---|---|
| `RefundTypes` | `TypeOK`, the share taken back never past the whole |
| `CascadesOnce` | `CascadedOnce` |
| `MovingMoneyIsBooked` | `MoneyIsBooked` |
| `IdsStayOnTheirRow` | `IdsAreFinal`: the gateway's id of a refund never leaves its row |
| `BookedFitsThePayment` | `OneBalance` |
| `RoundingLosesLittle` | `RoundingIsBounded` |
| `RefundsFitThePayment` | `RefundedFits`: no more is taken back than was paid |
| `EarlierLegsGiveBackTheirOwn` | `EarlierLegsStayWithin`: no leg but the last gives back more than it paid |
| `SuccessIsTheGateways` | `SettledIsProcessed`: SUCCEEDED, and a cascade, only of what the gateway processed |

The argument.  A cascade is applied under the row that carries the gateway's id and
marks it (`CascadesAreClaimed`), so it is enough that the id never changes rows
(`Carriers`): it is written where it is free, and a row that has one keeps it.  A
placeholder may be lent to a dashboard refund, but only if its own request never
reached the gateway - the job looks for the reservation id first - so moving money
is never left without a row (`MoneyIsCarried`).  `Places` and `SettlesAreBound`
say what a request may believe at each of its steps.

The balance (`Balanced`, on top of the first invariant).  The check a request passes counts
*rows* (`Spoken`), the property counts *requests*: a request with two rows is counted twice
there and once here, so the check is the stronger one (`SpokenCoversBooked`), and no other
step books a request that was not booked (`BookedShrinks`).  A lost dispute counts from the
first reservation after it only (`LateIsLost`: none is made while it is open).

The rounding.  A refund is cascaded once, and for what the gateway processed
(`SettledIsProcessed`), and the gateway pays back no more than it was paid (`SentFits`), so
all that is cascaded fits the payment (`RefundedFits`).  Each cascade takes `share * a` over
`amount`, rounded down, so the sum is short by less than a paisa per cascade; the cap of the
share would break that bound, and does not bite because the sum fits.  The reversals of one refund add
up to it by construction of the last leg (`ReversalIsWhole`), but a reversal that is not
positive is skipped by the code: that this loses nothing is what the assumption on the legs
is for, since it makes the last leg's remainder non-negative.

`SumTheorems` is what this rests on: adding, removing and scaling in
`SumFunctionOnSet`, the library's fold over a set.  Its equation is a recursion in the
order that CHOOSE takes the elements, and no induction theorem that takes an operator can
be cited; the induction is made a set instead (`SubsetInduction`: the subsets that lack a
property have no minimal one, with `WFMin`), which is a first-order fact.

`RescheduleProofs` proves, from `RescheduleAssumption` (a plan fits the rows), for
every number of proposals, movers, releases and sessions:

| Theorem | States |
|---|---|
| `RescheduleTypes` | `TypeOK` |
| `SessionIsKept` | `ConsultationKeepsItsSession`: never lost, and doubled only if a withdrawal committed inside an allocation |
| `YesIsTrue` | `YesMeansMoved`, without that exception for a proposal of times |
| `OverForGood` | `EndedStaysEnded` |

The argument.  The lemma that carries it is `PlacementReplaces`: the commit of an
allocation on a consultation deletes the sessions that stand and makes one.  What
an allocator deletes was fixed some steps before, so the invariant says at each of
them what is still true of it (`Readers`): who saw a tentative booking saw no firm
session, asks again in its transaction, and has deleted all that stands by the time it
commits, unless a withdrawal has crossed; any other deletes every row there was.  It rests on the
booking lock (`OneWriter`), on no given-up row being left to be taken for a tentative one
(`NoneIsDropped`), and on the reschedule: it releases all rows of a consultation
(`Routing`), does not run beside a confirmation (`Exclusive`), and where it waits for a
page's allocation, every row it waits for is deleted when it goes on.  After a crossing
withdrawal less is left, and it is enough for one session at least: the new one.

A yes is true although the withdrawal takes no lock, because the closing write asks for an
open proposal, and a withdrawal closes it.  What an open proposal names is
released or deleted (`OpenNames`), so the clearing of its own confirmation deletes it
(`Clearing`), and it is still deleted at the closing write (`PlacedMeansGone`).  `Named`
keeps proposals and their calls to rows and proposals that exist.
`CancelledHoldsNothing` is the half of `EndedStaysEnded` that speaks of a state; its
other half needs only that every write of the status asks for the one it
replaces.

Every safety property that a passing run checks is a theorem, for every value of the
constants.  Model-checked only: the liveness properties (`UnpaidHoldIsReleased`,
`EveryEventSettles`, `EveryDeliverySettles`, `PayoutsSettle`, `EventuallyCascaded`,
`EventuallyResolved`, `EveryProposalIsAnswered`, `QueueEmpties`), since the prover does
not reach fairness or ENABLED.  The theorems say nothing of whether the models' actions are
those of the code: that is what section 2 is for.

## 5. Where the code departs from its own words

The three violation runs are findings.  More departures have a property that
states what the code says of itself; TLC refutes each when it is put into a
configuration of the module:

* `ConstraintIsNeverHit` (`BookingPayment`, two buyers).  Cancelling tombstones the
  slot but leaves `isTentative` false, and `slot_no_confirmed_overlap`
  (`check-constraints.sql:68-73`) asks neither status nor `deletedAt`: the next buyer
  passes every availability check, pays, and fails with 23P01.  `handlers.ts:654`:
  "The NEW flow never hits this: its confirm-time recheck returns
  doubleBookingBlocked in-tx instead".
* `CancelledMoneyGoesBack` (`BookingPayment`).  `bookingCtx.paidPayment` is resolved
  before the transaction (`cancel/route.ts:340`) and used after it (`:518`): a capture
  that confirms in between is cancelled with nothing refunded.  `:374-376`: "a cancel
  racing the capture webhook resolves to exactly one winner."
* `GiveUpIsMeasuredFromDelivery` (`WebhookEventLog`, Stream).  The sweep's own re-drive
  claims through `logWebhookEvent`, which sets `receivedAt = now` (`event-log.ts:94`,
  `:127`), and the give-up window is measured on it.
  `sweep-stuck-webhook-events.ts:136`: "receivedAt stays untouched so give-up aging
  cannot be reset by our own re-drives".
* `OrphanClaimedOnce` (`OutboundWebhooks`, an overrun).  The claim matches on the
  selected status alone and replaces IN_FLIGHT by IN_FLIGHT, so of two overlapping
  ticks both re-claim one orphan.  `worker.ts:212-214`: "count===0 means another tick
  won the race - skip it."

So do these, of the modules that were added later:

* `RejectedNeverSent` (`Payouts`).  A `payout.queued` event puts a PROCESSING payout back
  to PENDING (`Demote`), the status an administrator may reject: `rejectPayout` then
  cancels a payout the gateway has and frees its earnings.  `payout-service.ts:459-461`:
  "Without this, a PROCESSING or COMPLETED payout could be rejected, unlinking
  earnings that may already be paid out."
* `RetriesEndInFailure` (`Payouts`).  Runs select `retryCount` below the maximum only, so
  a payout whose last retry the job has used up stays APPROVED with its earnings for
  good; the branch that fails it needs a run whose list is older than the last reset.
  `handle-stuck-payouts.ts:45`: "Maximum retry attempts before marking as permanently
  FAILED".
* `OwnerDecides` (`Payouts`).  A run that meets an exception at the dispute gate or at the
  claim fails the payout another run is sending and frees its earnings; that run's `Save`
  puts it back to PROCESSING, and the next batch pays the earnings again.
  `payout-service.ts:673-675`: "Zero rows means a concurrent run already claimed it; that
  run owns the outcome".
* `CreditsFollow` (`RefundEngine`, even under `DeliveringSpec`).  When the reconciler's
  second pass settles a row and the backstop cascades it, nobody calls
  `reverseCreditsForPayment`: the credits do not come back.  `refund.ts:948-955`: "Both
  settle paths now call reverseCreditsForPayment right after that update".
* `LegsStayWithin` (`RefundEngine`).  Every partial refund gives the last leg the remainders
  of all others, so over several refunds it gets back more than it paid: legs of 333 and
  667 refunded in two halves end at 332 and 668.  `schema.prisma:5405-5406`: "*_REVERSAL
  legs are negative refund counter-entries netting against their original sibling -
  |reversal| never exceeds the original (#786)".  Where that leg is an invoice accrual, the
  trigger `payment_legs_reversal_pair` (`payment-legs-triggers.sql:94`) refuses the commit;
  where it is a wallet, nothing does.  The trigger is not in the model.
  `EarlierLegsGiveBackTheirOwn` proves that the last leg is the only one.
* `WithdrawalRestores` (`Reschedule`).  Withdrawing the reschedule of a consultation that
  was still asked for makes it APPROVED.  `reschedule-withdraw.ts:16-17`: "the booking
  returns to exactly what it was".
* `OneForOne` (`Reschedule`).  A session of a plan that is released between the
  allocator's read and its transaction is deleted with those it read and not replaced:
  the appointment lock of the accept is another session's.
  `reschedule-proposals.ts:101-102`: "Anything else is a different booking, not a
  reschedule, and would silently change what was paid for."
* `OneSessionOnly` (`Reschedule`).  A withdrawal that commits between the allocator's
  `findMany` (`SlotAllocationService.ts:3961`) and its `deleteMany` of tentative rows
  (`:4003`) makes the old session firm; the delete matches nothing, the appointment is used
  again (`:4027`) and a second firm session is made on it.  `reschedule-withdraw.ts:71-73`:
  "matches zero rows and throws rather than un-releasing slots that a concurrent accept has
  already re-confirmed".
* `QueuedIsReleased` (`Reschedule`).  The release of a reschedule that waits for the rows a page's
  allocation has deleted matches none of them when it goes on, and none of the new ones:
  the consultation is PENDING with a firm session.
* `FreshIsNotExpired` (`Reschedule`).  The sweep expires a consultation by id and PENDING
  (`expire-stale-requests.ts:191-206`) from a list it read before: one that was answered
  and asked to move again since is expired, although its age was reset.  The subscription's
  write asks again ("both must still hold at write time"); the route resets
  `requestedAt` because "the sweep would terminalise (EXPIRED) and fully refund a live
  booking the consultee is actively trying to move".

Further departures, seen in the code while modelling, present in the models and not
stated as a property:

* `cleanup-abandoned-payments` hands referral credits back on a booking whose
  capture committed during the sweep's gateway calls (`SweepKeepsConfirmed`),
  against the comment at `cleanup-abandoned-payments.ts:627`.
* `reconcile-orphaned-confirmations` selects any SUCCEEDED payment with a
  tentative slot, so it books a capture of the wrong amount that was already
  refunded (`ReconcileOrphan` after `CaptureWrongAmount`).
* Money captured after `cancelPendingCheckout` is only reported
  (`CaptureAfterTerminal`), against `cancel-pending.ts:244`.
* After the cancel route ended an unpaid request, the sweep selects its payment
  on every run and rolls back every time (`SweepRollsBack`).
* `sync-payment-earnings` accrues earnings on a payment that was refunded before
  any existed (`SyncEarnings` after a refund).
* `runDispatchTick` looks the back-off up at `attemptNumber + 1`, so the first
  retry comes after five minutes (its test agrees) and the one-minute slot of
  `worker.ts:22` and `:105` is never used; the back-off has no length in the model.
* After an operator re-enables an auto-disabled endpoint its `failureCount` is
  still at the threshold (`Patch`): the next failed delivery disables it again.
* `logWebhookEvent` re-opens a row whose error is terminal when the gateway
  redelivers it; and its claim ignores `claimedAt`, so the sweep and a fresh
  delivery may drive one event together: `SweepsExclude` is about two sweeps.
* A run that dies between `Fail` and `ReleaseFailed` leaves earnings BATCHED under a
  FAILED payout; no job looks for them.
* FAILED does not count as settled, so a late `payout.processed` completes a payout whose
  earnings were released (`Complete`); the earnings it pays are none.
* A lost dispute leaves a BATCHED earning as it is (`DisputeLost`); the job over lost
  disputes refunds it later, but covers LOST only and not `charge_refunded`; and a
  warning that was closed and reopens holds nothing again (`DisputeUpdated`).
* A batch sums before it links, so a partial refund between the two, or of an earning in
  the batch, leaves the amount of the payout as it was (`counts`).
* `reconcile-payout-status` and the events write an earning from PAID back to READY
  (`Reverse`), which the transition table of the earnings does not have.
* `Save` and `Fail` update the payout by id whatever an event, too, has made of it since
  (`OwnerDecides` is about another run).
* Two dashboard refunds of the same amount leave a reservation that looks like both
  PENDING for ever (`Alike`), and the balance it reserves with it.
* Shares are rounded down refund by refund, so a payment refunded in parts leaves an
  earning a few paise short of REFUNDED, against "Earnings auto-transition to REFUNDED
  when fully exhausted" (`docs/payments/refunds-disputes/README.md:53`).
* The overage a member is owed back (`memberOverageRefundDue`) is acted on by
  `refundPayment` alone and lost where an event or the backstop cascades first.
* While the webhook's row and the placeholder both stand, the balance is reserved twice
  (`Spoken`); the bind ends it.
* A proposal left open by a crash between placement and `Close`, or superseded by a page
  that read before the release, can be withdrawn or accepted afterwards, against
  `SlotAllocationService.ts:1099-1107`.
* `expireApprovedUnallocatedSubscriptions` does not spare a plan whose proposal is open,
  and the withdrawal then makes sessions firm on an EXPIRED plan.
* The cancel closes the proposals opened at its own appointment; those of the sibling
  sessions of a plan stay open (`Cancel`).
* The count of tentative rows includes those the cancel or a job has given up
  (`Tentative`), and two open proposals of one plan refuse each other's placement
  (`Offered`, `Required`).

## 6. Plan

1. `BookingPayment`, `ExclusiveWindow`, the invariants and the refinement (done).
2. `WebhookEventLog`, with its theorems (done).
3. `RefundEngine`: partial amounts, placeholders, events racing the bind, both jobs, the
   cascade, with its theorems (done).
4. `Payouts`: release, batch, transfer, lost and late answers, disputes, with its
   theorems (done).
5. `OutboundWebhooks` under the cron lock, with its theorems (done).
6. `Reschedule`: proposals, their answers and the allocator, with its theorems (done).
7. `Ledger`: concurrent idempotent posts with the sorted locks of the snapshot
   rows.  Theorem: locks are taken in order, so posters never wait in a circle.
8. The organisation's wallet and overage, whose top-ups are swept while they are paid.
9. Approval-first bookings (APPROVED_PENDING_PAYMENT) as an extension of
   `BookingPayment`, and the seats of events with their waitlist.

Each passing run of these follows the pattern of the first: the smallest number
of actors that can collide (two), one fault, every actor live.

## 7. Not modelled

User interface, authentication, tax and price arithmetic, notifications,
recordings and chat content: I/O, third-party protocols and pure computation
without interleavings of their own.  The other parts of the inventory are listed
in `PROJECT.json` with the reason, or stand on the plan above.
