------------------------------- MODULE Payouts -------------------------------
(***************************************************************************)
(* Paying one consultant: the ConsultantEarnings rows, the batches that    *)
(* gather them into ConsultantPayout rows, the administrator who approves  *)
(* or rejects, the runs that submit approved payouts to the gateway, the   *)
(* gateway's events, the two reconciling jobs, and the disputes and        *)
(* refunds that change an earning under all of them.                       *)
(*                                                                         *)
(* Every database transaction and every gateway call is one step.  Batches *)
(* and runs overlap freely: the Redis locks may have run out, or Redis be  *)
(* down.  What keeps overlapping runs apart is the claim, and it only      *)
(* keeps them apart on the way to the gateway: any exception before the    *)
(* gateway's id is known, at the dispute gate and at the claim too, ends   *)
(* in a write by id that fails the payout, whoever claimed it.  The        *)
(* gateway keeps one payout per idempotency key, that is per               *)
(* ConsultantPayout row, however often it is submitted.  Tax withheld      *)
(* changes what the consultant nets, not which rows move, and is left out; *)
(* so is the account he is paid on.                                        *)
(***************************************************************************)
EXTENDS Naturals, FiniteSets, FiniteSetsExt

CONSTANTS
    Earnings,     \* ConsultantEarnings rows, each of a payment of its own
    Payouts,      \* ConsultantPayout rows, created as the batches need them
    Batchers,     \* invocations of createPayoutBatch that may overlap
    Runs,         \* invocations of processApprovedPayouts that may overlap
    Share,        \* consultantSharePaise of each earning
    Minimum,      \* MINIMUM_PAYOUT_AMOUNT
    AutoApprove,  \* AUTO_APPROVE_THRESHOLD
    MaxRetries,   \* MAX_RETRY_ATTEMPTS and MAX_RETRIES, both 3
    NoPayout,     \* payoutId null
    MaxCrashes,   \* bound: runs that die
    MaxRefunds,   \* bound: refunds that reach an earning
    MaxDisputes   \* bound: payments that are disputed

ASSUME PayoutsAssumption ==
    /\ NoPayout \notin Payouts
    /\ Share \in [Earnings -> Nat \ {0}]
    /\ Minimum \in Nat \ {0} /\ AutoApprove \in Nat
    /\ MaxRetries \in Nat \ {0} /\ MaxCrashes \in Nat /\ MaxRefunds \in Nat
    /\ MaxDisputes \in Nat

VARIABLES
    status, link, prior, refunded,   \* the earnings: status, payoutId,
                                     \* preDisputeStatus and refundedShareAmount
    dispute,                         \* the dispute on the earning's payment
    state, counts, sent, retries,    \* the payouts: status, what the amount takes from
                                     \* each earning, providerPayoutId set, retryCount
    gateway,     \* what the gateway did with the payout's key
    batch,       \* what each batch read: the payable part of the earnings it will link
    pc, list, at,       \* where each run stands, its payouts and the one it is at
    crashes, refunds,   \* counted up to their bounds
    matured,     \* history: earnings whose hold period passed
    demoted,     \* history: payouts a queued/pending event put back to PENDING
    writtenOff   \* history: payouts failed or cancelled here while the gateway had them
                 \* or another run was sending them

earning == <<status, link, prior, refunded>>
payout  == <<state, counts, sent, retries>>
books   == <<earning, dispute, payout, gateway>>
run     == <<pc, list, at>>
work    == <<batch, run>>
count   == <<crashes, refunds>>
hist    == <<matured, demoted, writtenOff>>
vars    == <<books, work, count, hist>>

EarningStatuses == {"PENDING", "READY", "HELD", "BATCHED", "PAID", "REFUNDED"}
PayoutStatuses  == {"none", "PENDING", "APPROVED", "PROCESSING",
                    "COMPLETED", "FAILED", "CANCELLED", "REVERSED"}
DisputeStatuses == {"none", "warning", "warning_closed", "open", "won", "lost", "charge_refunded"}
GatewayStates   == {"none", "queued", "processed", "failed", "cancelled", "reversed"}
RunSteps        == {"idle", "visit", "claim", "submit", "save", "fail", "release"}
Live            == {"PENDING", "APPROVED", "PROCESSING"}
AtGateway       == {"queued", "processed"}

Nothing == [e \in Earnings |-> 0]

Init ==
    /\ status = [e \in Earnings |-> "PENDING"]
    /\ link = [e \in Earnings |-> NoPayout]
    /\ prior = [e \in Earnings |-> "none"]
    /\ refunded = Nothing
    /\ dispute = [e \in Earnings |-> "none"]
    /\ state = [p \in Payouts |-> "none"]
    /\ counts = [p \in Payouts |-> Nothing]
    /\ sent = [p \in Payouts |-> FALSE]
    /\ retries = [p \in Payouts |-> 0]
    /\ gateway = [p \in Payouts |-> "none"]
    /\ batch = [b \in Batchers |-> Nothing]
    /\ pc = [r \in Runs |-> "idle"]
    /\ list = [r \in Runs |-> {}]
    /\ at = [r \in Runs |-> NoPayout]
    /\ crashes = 0 /\ refunds = 0
    /\ matured = {} /\ demoted = {} /\ writtenOff = {}

Payable(e)  == Share[e] - refunded[e]
Covered(c)  == {e \in Earnings : c[e] > 0}
Total(c)    == MapThenSumSet(LAMBDA e : c[e], Covered(c))
Ready(e)    == status[e] = "READY" /\ link[e] = NoPayout
Batched(p)  == {e \in Earnings : link[e] = p /\ status[e] = "BATCHED"}

\* DISPUTE_INACTIVE_FOR_GATING is the complement.
LiveDispute(e) == dispute[e] \in {"warning", "open"}
Contested(p)   == \E e \in Earnings : link[e] = p /\ LiveDispute(e)

Restate(es, s) == status' = [e \in Earnings |-> IF e \in es THEN s ELSE status[e]]
Relink(es, p)  == link' = [e \in Earnings |-> IF e \in es THEN p ELSE link[e]]

\* p's batched earnings go back to where the next batch finds them.
Release(p) ==
    /\ Restate(Batched(p), "READY") /\ Relink(Batched(p), NoPayout)
    /\ UNCHANGED <<prior, refunded>>

\* The amount is what the consultant gets: its earnings are paid.
PayEarnings(p) ==
    /\ Restate(Batched(p), "PAID")
    /\ UNCHANGED <<link, prior, refunded>>

SetState(p, s) == state' = [state EXCEPT ![p] = s] /\ UNCHANGED <<counts, sent, retries>>

\* A run has claimed p, and has yet to write down what the gateway said.
Sends(r, p)    == at[r] = p /\ pc[r] \in {"submit", "save"}
Sending(p)     == \E r \in Runs : Sends(r, p)
WriteOff(p)    == writtenOff' = IF gateway[p] \in AtGateway \/ Sending(p)
                                THEN writtenOff \cup {p} ELSE writtenOff

Goto(r, step)  == pc' = [pc EXCEPT ![r] = step] /\ UNCHANGED <<list, at>>
Leave(r)       == /\ pc' = [pc EXCEPT ![r] = "visit"]
                  /\ list' = [list EXCEPT ![r] = @ \ {at[r]}]
                  /\ at' = [at EXCEPT ![r] = NoPayout]
Rest(r)        == /\ pc' = [pc EXCEPT ![r] = "idle"]
                  /\ list' = [list EXCEPT ![r] = {}]
                  /\ at' = [at EXCEPT ![r] = NoPayout]

\* Slips the runs must notice: two overlapping batches link one earning; an event that
\* is not terminal completes the payout; a run claims a payout in any status; a dispute
\* that is won matures what it held; a refund is not capped; the job takes the rows with
\* an id for stuck.
LinksRegardless(b)   == batch[b] # Nothing
EarlyCompletion(p)   == /\ sent[p] /\ state[p] = "PROCESSING"
                        /\ SetState(p, "COMPLETED") /\ PayEarnings(p)
                        /\ UNCHANGED <<dispute, gateway, work, count, hist>>
ClaimsRegardless(p)  == state[p] # "none"
RestoredReady(e)     == IF status[e] = "HELD" THEN "READY" ELSE status[e]
Uncapped(e, paise)   == paise
StuckWithId(p)       == state[p] = "PROCESSING" /\ sent[p]

----------------------------------------------------------------------------
\* Earnings before a batch: the hold period, disputes and refunds

\* The release job: the hold period has passed.
Mature(e) ==
    /\ status[e] = "PENDING"
    /\ status' = [status EXCEPT ![e] = "READY"]
    /\ matured' = matured \cup {e}
    /\ UNCHANGED <<link, prior, refunded, dispute, payout, gateway, work, count, demoted, writtenOff>>

\* A dispute holds what has not been batched, and remembers what it was.
DisputeCreated(e, s) ==
    /\ dispute[e] = "none" /\ s \in {"warning", "open"}
    /\ Cardinality({f \in Earnings : dispute[f] # "none"}) < MaxDisputes
    /\ dispute' = [dispute EXCEPT ![e] = s]
    /\ IF status[e] \in {"PENDING", "READY"}
       THEN status' = [status EXCEPT ![e] = "HELD"] /\ prior' = [prior EXCEPT ![e] = status[e]]
       ELSE UNCHANGED <<status, prior>>
    /\ UNCHANGED <<link, refunded, payout, gateway, work, count, hist>>

\* isLegalDisputeTransition over the classes of statuses the handlers tell apart.
Follows(from) == CASE from = "warning" -> {"warning_closed", "open"}
                   [] from = "warning_closed" -> {"open"}
                   [] from = "open" -> {"won", "lost", "charge_refunded"}
                   [] OTHER -> {}

\* The money stays: what was held goes back to where it was.
Restored(e) == IF status[e] # "HELD" THEN status[e]
               ELSE IF prior[e] = "PENDING" THEN "PENDING" ELSE "READY"

DisputeWon(e) ==
    /\ status' = [status EXCEPT ![e] = Restored(e)]
    /\ prior' = [prior EXCEPT ![e] = IF status[e] = "HELD" THEN "none" ELSE @]
    /\ UNCHANGED refunded

\* The money is gone: what is held or paid is closed, and the part of the share that
\* the dispute is about taken back, no more than what is left of it.  An earning in any
\* other status, a batched one above all, is left as it is.
TakenBack(e, paise) == IF paise < Payable(e) THEN paise ELSE Payable(e)

DisputeLost(e) ==
    IF status[e] \in {"HELD", "PAID"}
    THEN /\ status' = [status EXCEPT ![e] = "REFUNDED"]
         /\ prior' = [prior EXCEPT ![e] = "none"]
         /\ \E paise \in 0 .. Share[e] :
               refunded' = [refunded EXCEPT ![e] = @ + TakenBack(e, paise)]
    ELSE UNCHANGED <<status, prior, refunded>>

\* A warning that escalates to "open" holds nothing again.
DisputeUpdated(e, s) ==
    /\ s \in Follows(dispute[e])
    /\ dispute' = [dispute EXCEPT ![e] = s]
    /\ \/ s \in {"won", "warning_closed"} /\ DisputeWon(e)
       \/ s \in {"lost", "charge_refunded"} /\ DisputeLost(e)
       \/ s = "open" /\ UNCHANGED <<status, prior, refunded>>
    /\ UNCHANGED <<link, payout, gateway, work, count, hist>>

\* The job over LOST disputes whose earnings are not all refunded (forceRefund).
HandleLostDispute(e) ==
    /\ dispute[e] = "lost" /\ status[e] # "REFUNDED"
    /\ status' = [status EXCEPT ![e] = "REFUNDED"]
    /\ refunded' = [refunded EXCEPT ![e] = Share[e]]
    /\ UNCHANGED <<link, prior, dispute, payout, gateway, work, count, hist>>

\* A refund's cascade takes back part of the share, in whatever status the earning is:
\* a live dispute stops the request, not the cascade of a refund that is out.
RefundEarning(e, paise) ==
    /\ refunds < MaxRefunds /\ Payable(e) > 0
    /\ refunds' = refunds + 1
    /\ refunded' = [refunded EXCEPT ![e] = @ + TakenBack(e, paise)]
    /\ status' = [status EXCEPT ![e] = IF paise >= Payable(e) THEN "REFUNDED" ELSE @]
    /\ UNCHANGED <<link, prior, dispute, payout, gateway, work, crashes, hist>>

----------------------------------------------------------------------------
\* Batches, approval and rejection

\* The transaction reads the ready earnings and sums what is payable ...
ReadReady(b) ==
    /\ batch[b] = Nothing
    /\ LET c == [e \in Earnings |-> IF Ready(e) THEN Payable(e) ELSE 0] IN
       /\ Total(c) >= Minimum
       /\ batch' = [batch EXCEPT ![b] = c]
    /\ UNCHANGED <<books, run, count, hist>>

\* ... creates the payout and links the earnings, all of them or none.
Linkable(b) == \A e \in Covered(batch[b]) : Ready(e)

Link(b) ==
    /\ batch[b] # Nothing /\ Linkable(b)
    /\ \E p \in Payouts :
          /\ state[p] = "none"
          /\ state' = [state EXCEPT ![p] =
                 IF Total(batch[b]) < AutoApprove THEN "APPROVED" ELSE "PENDING"]
          /\ counts' = [counts EXCEPT ![p] = batch[b]]
          /\ Restate(Covered(batch[b]), "BATCHED") /\ Relink(Covered(batch[b]), p)
    /\ batch' = [batch EXCEPT ![b] = Nothing]
    /\ UNCHANGED <<prior, refunded, dispute, sent, retries, gateway, run, count, hist>>

\* "Payout linking race": an earning changed state, everything is rolled back.
RollBack(b) ==
    /\ batch[b] # Nothing /\ ~Linkable(b)
    /\ batch' = [batch EXCEPT ![b] = Nothing]
    /\ UNCHANGED <<books, run, count, hist>>

Approve(p) ==
    /\ state[p] = "PENDING"
    /\ SetState(p, "APPROVED")
    /\ UNCHANGED <<earning, dispute, gateway, work, count, hist>>

Reject(p) ==
    /\ state[p] = "PENDING"
    /\ SetState(p, "CANCELLED") /\ Release(p) /\ WriteOff(p)
    /\ UNCHANGED <<dispute, gateway, work, count, matured, demoted>>

----------------------------------------------------------------------------
\* A run over the approved payouts

Start(r) ==
    /\ pc[r] = "idle"
    /\ LET due == {p \in Payouts : state[p] = "APPROVED" /\ retries[p] < MaxRetries} IN
       /\ due # {}
       /\ list' = [list EXCEPT ![r] = due]
    /\ pc' = [pc EXCEPT ![r] = "visit"]
    /\ UNCHANGED <<books, batch, at, count, hist>>

\* The next payout of the list; a live dispute on one of its earnings holds it back.
\* The gate's read may throw, and the catch does not ask who claimed the payout.
Visit(r) ==
    /\ pc[r] = "visit"
    /\ \E p \in list[r] :
          \/ /\ Contested(p)
             /\ list' = [list EXCEPT ![r] = @ \ {p}]
             /\ UNCHANGED <<pc, at>>
          \/ /\ ~Contested(p)
             /\ pc' = [pc EXCEPT ![r] = "claim"] /\ at' = [at EXCEPT ![r] = p]
             /\ UNCHANGED list
          \/ /\ pc' = [pc EXCEPT ![r] = "fail"] /\ at' = [at EXCEPT ![r] = p]
             /\ UNCHANGED list
    /\ UNCHANGED <<books, batch, count, hist>>

Finish(r) ==
    /\ pc[r] = "visit" /\ list[r] = {}
    /\ Rest(r)
    /\ UNCHANGED <<books, batch, count, hist>>

\* APPROVED -> PROCESSING, by whoever comes first.  The write may throw; one that was
\* done and whose answer is lost is a claim that Refuse follows.
Claimable(p) == state[p] = "APPROVED"

Claim(r) ==
    /\ pc[r] = "claim"
    /\ \/ Claimable(at[r]) /\ SetState(at[r], "PROCESSING") /\ Goto(r, "submit")
       \/ ~Claimable(at[r]) /\ UNCHANGED payout /\ Leave(r)
       \/ UNCHANGED payout /\ Goto(r, "fail")
    /\ UNCHANGED <<earning, dispute, gateway, batch, count, hist>>

\* The gateway takes the payout, once per key, and answers with its id; or the answer
\* is lost on the way (a timeout, a body that stalls), an exception like any other.
Submit(r) ==
    /\ pc[r] = "submit"
    /\ gateway' = [gateway EXCEPT ![at[r]] = IF @ = "none" THEN "queued" ELSE @]
    /\ Goto(r, "save") \/ Goto(r, "fail")
    /\ UNCHANGED <<earning, dispute, payout, batch, count, hist>>

\* Nothing reaches the gateway: no account, a non-resident, a refusal, a dead network.
Refuse(r) ==
    /\ pc[r] = "submit"
    /\ Goto(r, "fail")
    /\ UNCHANGED <<books, batch, count, hist>>

\* Both the write and the quarantine that follows a failed one: an update by id.
Save(r) ==
    /\ pc[r] = "save"
    /\ state' = [state EXCEPT ![at[r]] = "PROCESSING"]
    /\ sent' = [sent EXCEPT ![at[r]] = TRUE]
    /\ Leave(r)
    /\ UNCHANGED <<earning, dispute, counts, retries, gateway, batch, count, hist>>

\* The quarantine fails too: the row stays PROCESSING without the id.
SaveFails(r) ==
    /\ pc[r] = "save" /\ crashes < MaxCrashes
    /\ crashes' = crashes + 1
    /\ Leave(r)
    /\ UNCHANGED <<books, batch, refunds, hist>>

\* The catch without an id: "Genuine pre-gateway failure".  Two writes, by id and in
\* whatever status the payout is, though another run may be the one that claimed it.
Fail(r) ==
    /\ pc[r] = "fail"
    /\ state' = [state EXCEPT ![at[r]] = "FAILED"]
    /\ retries' = [retries EXCEPT ![at[r]] = @ + 1]
    /\ WriteOff(at[r]) /\ Goto(r, "release")
    /\ UNCHANGED <<earning, dispute, counts, sent, gateway, batch, count, matured, demoted>>

ReleaseFailed(r) ==
    /\ pc[r] = "release"
    /\ Release(at[r]) /\ Leave(r)
    /\ UNCHANGED <<dispute, payout, gateway, batch, count, hist>>

\* The process dies; the locks it held run out.
Crash(r) ==
    /\ pc[r] # "idle" /\ crashes < MaxCrashes
    /\ crashes' = crashes + 1
    /\ Rest(r)
    /\ UNCHANGED <<books, batch, refunds, hist>>

----------------------------------------------------------------------------
\* The gateway and what it reports, at least once and in any order

Progress(p) ==
    /\ \/ gateway[p] = "queued" /\ \E s \in {"processed", "failed", "cancelled"} :
                                      gateway' = [gateway EXCEPT ![p] = s]
       \/ gateway[p] = "processed" /\ gateway' = [gateway EXCEPT ![p] = "reversed"]
    /\ UNCHANGED <<earning, dispute, payout, work, count, hist>>

\* handlePayoutWebhook finds the row by the gateway's id; a terminal status claims any
\* row that is not settled, and FAILED does not count as settled.
Settleable(p) == sent[p] /\ state[p] \notin {"COMPLETED", "CANCELLED", "REVERSED"}

Complete(p) ==
    /\ Settleable(p)
    /\ SetState(p, "COMPLETED") /\ PayEarnings(p)
    /\ UNCHANGED <<dispute, gateway, work, count, hist>>

Bounce(p, s) ==
    /\ Settleable(p)
    /\ SetState(p, s) /\ Release(p)
    /\ UNCHANGED <<dispute, gateway, work, count, hist>>

\* queued and pending map to PENDING, the status that also awaits an administrator.
\* Bound: once per payout (the event log applies an event once).
Demote(p) ==
    /\ sent[p] /\ state[p] = "PROCESSING" /\ p \notin demoted
    /\ SetState(p, "PENDING") /\ demoted' = demoted \cup {p}
    /\ UNCHANGED <<earning, dispute, gateway, work, count, matured, writtenOff>>

\* A reversal of a completed payout reopens its paid earnings.
Reverse(p) ==
    /\ sent[p] /\ state[p] = "COMPLETED"
    /\ SetState(p, "REVERSED")
    /\ LET paid == {e \in Earnings : link[e] = p /\ status[e] = "PAID"} IN
       Restate(paid, "READY") /\ Relink(paid, NoPayout)
    /\ UNCHANGED <<prior, refunded, dispute, gateway, work, count, hist>>

\* The events a payout may deliver; without its id on a row they are dropped.
Webhook(p) ==
    \/ gateway[p] \in {"processed", "reversed"} /\ Complete(p)
    \/ gateway[p] \in {"failed", "reversed"} /\ Bounce(p, "FAILED")
    \/ gateway[p] = "reversed" /\ Reverse(p)
    \/ gateway[p] = "cancelled" /\ Bounce(p, "CANCELLED")
    \/ gateway[p] # "none" /\ Demote(p)

\* The reconciling jobs ask for the status and call the same handler.
Reconcile(p) ==
    /\ state[p] \in {"PENDING", "PROCESSING"}
    /\ \/ gateway[p] = "processed" /\ Complete(p)
       \/ gateway[p] \in {"failed", "reversed"} /\ Bounce(p, "FAILED")
       \/ gateway[p] = "cancelled" /\ Bounce(p, "CANCELLED")

\* PROCESSING for a day without an id, its run long gone: another try under the same
\* key, or the end of the payout.
Stuck(p) == state[p] = "PROCESSING" /\ ~sent[p] /\ \A r \in Runs : at[r] # p

Retry(p) ==
    /\ Stuck(p) /\ retries[p] < MaxRetries
    /\ state' = [state EXCEPT ![p] = "APPROVED"]
    /\ retries' = [retries EXCEPT ![p] = @ + 1]
    /\ UNCHANGED <<earning, dispute, counts, sent, gateway, work, count, hist>>

GiveUp(p) ==
    /\ Stuck(p) /\ retries[p] >= MaxRetries
    /\ SetState(p, "FAILED") /\ Release(p) /\ WriteOff(p)
    /\ UNCHANGED <<dispute, gateway, work, count, matured, demoted>>

----------------------------------------------------------------------------
RunStep(r) == \/ Start(r) \/ Visit(r) \/ Finish(r) \/ Claim(r) \/ Submit(r) \/ Refuse(r)
              \/ Save(r) \/ SaveFails(r) \/ Fail(r) \/ ReleaseFailed(r) \/ Crash(r)

PayoutStep(p) == \/ Approve(p) \/ Reject(p) \/ Progress(p) \/ Webhook(p)
                 \/ Reconcile(p) \/ Retry(p) \/ GiveUp(p)

EarningStep(e) ==
    \/ Mature(e) \/ HandleLostDispute(e)
    \/ \E s \in DisputeStatuses : DisputeCreated(e, s) \/ DisputeUpdated(e, s)
    \/ \E paise \in 1 .. Share[e] : RefundEarning(e, paise)

BatchStep(b) == ReadReady(b) \/ Link(b) \/ RollBack(b)

Next ==
    \/ \E e \in Earnings : EarningStep(e)
    \/ \E b \in Batchers : BatchStep(b)
    \/ \E r \in Runs : RunStep(r)
    \/ \E p \in Payouts : PayoutStep(p)

Spec == Init /\ [][Next]_vars

\* A run that started goes on until it crashes, the jobs run again and again, and the
\* gateway decides what it queued.  Nobody is obliged to approve, nor the gateway to
\* deliver an event.
Fairness ==
    /\ \A r \in Runs : WF_vars(RunStep(r) /\ ~Crash(r) /\ ~SaveFails(r))
    /\ \A p \in Payouts : /\ WF_vars(Retry(p)) /\ WF_vars(GiveUp(p)) /\ WF_vars(Reconcile(p))
                          /\ WF_vars(gateway[p] = "queued" /\ Progress(p))

FairSpec == Spec /\ Fairness

----------------------------------------------------------------------------
TypeOK ==
    /\ status \in [Earnings -> EarningStatuses]
    /\ link \in [Earnings -> Payouts \cup {NoPayout}]
    /\ prior \in [Earnings -> {"none", "PENDING", "READY"}]
    /\ refunded \in [Earnings -> Nat] /\ \A e \in Earnings : refunded[e] <= Share[e]
    /\ dispute \in [Earnings -> DisputeStatuses]
    /\ state \in [Payouts -> PayoutStatuses]
    /\ counts \in [Payouts -> [Earnings -> Nat]]
    /\ sent \in [Payouts -> BOOLEAN] /\ retries \in [Payouts -> Nat]
    /\ gateway \in [Payouts -> GatewayStates]
    /\ batch \in [Batchers -> [Earnings -> Nat]]
    /\ pc \in [Runs -> RunSteps] /\ list \in [Runs -> SUBSET Payouts]
    /\ at \in [Runs -> Payouts \cup {NoPayout}]
    /\ crashes \in 0 .. MaxCrashes /\ refunds \in 0 .. MaxRefunds
    /\ matured \subseteq Earnings
    /\ demoted \subseteq Payouts /\ writtenOff \subseteq Payouts

\* The money of earning e is with the gateway, or through it, because of payout p.
LeftWith(p, e) == gateway[p] \in AtGateway /\ counts[p][e] > 0

\* An earning leaves through two payouts only if one of them was written off here
\* while the gateway had it or a run was sending it: by a run that never heard the
\* answer, by a run that met an exception over a payout another one had claimed, or by
\* a rejection of a payout that an event had put back to PENDING (processSinglePayout's
\* catch, rejectPayout, handleStuckPayouts).  There is no other way to pay twice.
PaidOnce ==
    \A e \in Earnings : \A p, q \in Payouts :
        p # q /\ LeftWith(p, e) /\ LeftWith(q, e) => p \in writtenOff \/ q \in writtenOff

\* A payout that can still be paid keeps the earnings its amount was summed from: no
\* rejection, failed run or late event takes them away under it (approvePayout's and
\* handlePayoutWebhook's comments), unless an event demoted it, or a run failed it by
\* id while another one was sending it or the gateway had it.
LiveKeepsEarnings ==
    \A p \in Payouts : \A e \in Earnings :
        state[p] \in Live /\ p \notin demoted \cup writtenOff /\ counts[p][e] > 0
            => link[e] = p /\ status[e] \in {"BATCHED", "REFUNDED"}

\* PAID is said of an earning only when the gateway really processed the payout that
\* it is linked to and that counted it.
PaidWasProcessed ==
    \A e \in Earnings : status[e] = "PAID" =>
        \E p \in Payouts : /\ link[e] = p /\ counts[p][e] > 0
                           /\ gateway[p] \in {"processed", "reversed"}

\* No dispute cuts a hold period short: what can be batched, is batched or was paid
\* had matured (preDisputeStatus, handleDisputeUpdated).
OnlyMaturedIsPaid ==
    \A e \in Earnings : status[e] \in {"READY", "BATCHED", "PAID"} => e \in matured

\* A payout submitted or to be submitted settles, however often its run dies, unless
\* a live dispute holds it back, a rejection is possible again, or its retries are
\* used up and its earnings are with it for good.
Settles(p) ==
    state[p] \in {"APPROVED", "PROCESSING"}
        ~> \/ state[p] \in {"COMPLETED", "FAILED", "CANCELLED", "REVERSED"}
           \/ Contested(p)
           \/ state[p] = "APPROVED" /\ retries[p] >= MaxRetries

PayoutsSettle == \A p \in Payouts : Settles(p)

\* What the code says of itself and does not keep.  handle-stuck-payouts.ts: "Maximum
\* retry attempts before marking as permanently FAILED".
RetriesEndInFailure ==
    \A p \in Payouts : state[p] = "PROCESSING"
        ~> \/ state[p] \in {"COMPLETED", "FAILED", "CANCELLED", "REVERSED"}
           \/ Contested(p)

\* rejectPayout: "Validates payout is in PENDING status before rejecting. Without this, a
\* PROCESSING or COMPLETED payout could be rejected, unlinking earnings that may already be
\* paid out."
RejectedNeverSent ==
    \A p \in Payouts : state[p] = "CANCELLED" => gateway[p] \notin AtGateway

\* razorpay-payouts.ts: "a timed-out request that DID reach RazorpayX returns the original
\* payout on retry rather than paying twice."
FailedNeverPaidAgain ==
    \A e \in Earnings : \A p, q \in Payouts :
        p # q /\ LeftWith(p, e) /\ LeftWith(q, e)
            => ~(state[p] = "FAILED" \/ state[q] = "FAILED")

\* processSinglePayout on its claim, payout-service.ts:673-675: "Zero rows means a
\* concurrent run already claimed it; that run owns the outcome".  A run that meets an
\* exception at the gate or at the claim decides it all the same.
OwnerDecides ==
    [][\A p \in Payouts : Sending(p) /\ state'[p] = "FAILED" => state[p] = "FAILED"]_vars
=============================================================================
