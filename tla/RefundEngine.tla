---------------------------- MODULE RefundEngine ----------------------------
(***************************************************************************)
(* Refunding one succeeded payment: the requests of refundPayment, each    *)
(* with its two-phase reservation, the refunds an operator makes on the    *)
(* gateway's dashboard, the gateway's events, the two jobs that finish     *)
(* what the others left, and a dispute on the payment.                     *)
(*                                                                         *)
(* A gateway refund is named by the request whose reservation id is its    *)
(* idempotency key, or by the dashboard refund itself.  Two Refund rows    *)
(* may stand for it: the request's own, and one the webhook creates; the   *)
(* unique refundId lets one of them carry the gateway's id.  Every         *)
(* database transaction is one step, and so is a call of the gateway.      *)
(***************************************************************************)
EXTENDS Integers, Sequences, FiniteSets, FiniteSetsExt

CONSTANTS
    Requests,       \* invocations of refundPayment for this payment
    Dashboard,      \* refunds an operator makes at the gateway
    Amount,         \* Payment.amount
    Share,          \* consultantSharePaise of the payment's earning
    Legs,           \* the payment's positive funding legs, oldest first
    DisputeAmount,  \* what a dispute on the payment is about
    None, Hook      \* no row; the row the webhook created

Refunds == Requests \cup Dashboard

ASSUME RefundEngineAssumption ==
    /\ IsFiniteSet(Requests) /\ IsFiniteSet(Dashboard)
    /\ Requests \cap Dashboard = {} /\ None # Hook
    /\ None \notin Refunds /\ Hook \notin Refunds
    /\ Amount \in Nat \ {0} /\ DisputeAmount \in 1 .. Amount
    /\ Share \in Nat
    /\ Legs \in Seq(Nat \ {0}) /\ Legs # <<>>
    \* The legs sum to the amount; a referral credit comes on top, and its leg last.
    /\ SumFunctionOnSet(Legs, DOMAIN Legs \ {Len(Legs)}) <= Amount

VARIABLES
    rail,       \* how the payment was funded: by the gateway or by the organisation
    pc,         \* where each request stands, after the call at what the gateway answered
    asked,      \* the amount of each refund
    gateway,    \* what became of each refund at the gateway
    own, hook,  \* status of the request's row and of the webhook's row
    carrier,    \* the row that has the gateway's id of each refund
    ownDone, hookDone,  \* rows whose cascadedAt is set
    dispute,    \* the dispute on the payment
    taken,      \* refundedShareAmount of the earning
    back,       \* what each leg got back
    restored,   \* refunds whose referral credits were given back
    times,      \* history: how often each refund's cascade was applied
    late        \* history: requests that reserved once the payment was disputed

request == <<pc, asked>>
rows    == <<own, hook, carrier>>
cascade == <<ownDone, hookDone, taken, back, times>>
vars    == <<rail, request, gateway, rows, cascade, dispute, restored, late>>

RowStatuses == {"none", "PENDING", "SUCCEEDED", "FAILED"}
RequestSteps == {"check", "reserve", "submit", "pending", "processed", "failed", "settle", "over"}
Sent        == {"pending", "processed"}

Init ==
    /\ rail \in {"gateway", "internal"}
    /\ pc = [r \in Requests |-> "check"]
    /\ asked = [g \in Refunds |-> 0]
    /\ gateway = [g \in Refunds |-> "none"]
    /\ own = [r \in Requests |-> "none"] /\ hook = [g \in Refunds |-> "none"]
    /\ carrier = [g \in Refunds |-> None]
    /\ ownDone = {} /\ hookDone = {}
    /\ dispute = "none"
    /\ taken = 0 /\ back = [i \in DOMAIN Legs |-> 0] /\ restored = {}
    /\ times = [g \in Refunds |-> 0] /\ late = {}

Live(status) == status \in {"PENDING", "SUCCEEDED"}
Goto(r, step) == pc' = [pc EXCEPT ![r] = step]
SumAsked(gs) == SumFunctionOnSet(asked, gs)

\* SUCCEEDED and PENDING refunds, and what a lost dispute took through the bank.
ChargedBack == IF dispute = "lost" THEN DisputeAmount ELSE 0
Spoken == SumAsked({r \in Requests : Live(own[r])}) + SumAsked({g \in Refunds : Live(hook[g])})
             + ChargedBack
LiveDispute == dispute = "open"

\* What the gateway lets through: it knows its own refunds.
Fits(a) == SumAsked({g \in Refunds : gateway[g] \in Sent}) + a <= Amount

Proportion(n, a) == (n * a) \div Amount

\* Of the refund's row: its status, a write to it, its claim of the cascade.
StatusOf(g) == IF carrier[g] = Hook THEN hook[g] ELSE own[carrier[g]]
Put(g, s)   == IF carrier[g] = Hook
               THEN hook' = [hook EXCEPT ![g] = s] /\ UNCHANGED own
               ELSE own' = [own EXCEPT ![carrier[g]] = s] /\ UNCHANGED hook
Claimed(g)  == IF carrier[g] = Hook THEN g \in hookDone ELSE carrier[g] \in ownDone

\* Slips the runs must notice: a bind that ignores the unique id; a reservation that does
\* not look again; no cap on the share; a placeholder failed while the gateway has its
\* refund; a poll that leaves the settled rows alone; a job that takes the rows with a real
\* id for placeholders; a last leg that gets no remainder.
TakesId(g)           == TRUE
BalanceAsRead(r)     == TRUE
Uncapped(n)          == n
FindsNothing(r)      == {}
PollsFailuresOnly(g) == gateway[g] = "failed"
SkipsPlaceholder(r)  == own[r] = "PENDING" /\ pc[r] = "over" /\ \E g \in Refunds : carrier[g] = r
FlooredAll(a)        == [i \in DOMAIN Legs |-> Proportion(Legs[i], a)]

----------------------------------------------------------------------------
\* applyRefundCascade, for the row that carries g (row k of {own, hook} after binding)

\* Each leg gives back its proportion, rounded down, and the last one the rest.
Parts(a) == [i \in DOMAIN Legs |-> Proportion(Legs[i], a)]
Reversal(a) ==
    [Parts(a) EXCEPT ![Len(Legs)] = a - SumFunctionOnSet(Parts(a), DOMAIN Legs \ {Len(Legs)})]

\* The legs and the earning give back their part.
Cap(n)       == IF n < Share THEN n ELSE Share

TakeBack(g, a) ==
    /\ taken' = Cap(taken + Proportion(Share, a))
    /\ back' = [i \in DOMAIN Legs |-> back[i] + (IF Reversal(a)[i] > 0 THEN Reversal(a)[i] ELSE 0)]
    /\ times' = [times EXCEPT ![g] = @ + 1]

\* The claim of cascadedAt: whoever comes second changes nothing.
Cascade(g) ==
    IF Claimed(g)
    THEN UNCHANGED cascade
    ELSE /\ TakeBack(g, asked[g])
         /\ IF carrier[g] = Hook THEN hookDone' = hookDone \cup {g} /\ UNCHANGED ownDone
                                 ELSE ownDone' = ownDone \cup {carrier[g]} /\ UNCHANGED hookDone

\* reverseCreditsForPayment brings the credits up to the refunds that read SUCCEEDED.
RestoreCredits == restored' = {g \in Refunds : carrier'[g] # None /\
    (IF carrier'[g] = Hook THEN hook'[g] ELSE own'[carrier'[g]]) = "SUCCEEDED"}

----------------------------------------------------------------------------
\* refundPayment

\* The first read: the amount asked, or all that is left.
Check(r, a) ==
    /\ rail = "gateway" /\ pc[r] = "check"
    /\ ~LiveDispute /\ Spoken + a <= Amount
    /\ asked' = [asked EXCEPT ![r] = a]
    /\ Goto(r, "reserve")
    /\ UNCHANGED <<rail, gateway, rows, cascade, dispute, restored, late>>

\* Phase 1 reads again, in a serializable transaction with the insert.
StillFits(r) == ~LiveDispute /\ Spoken + asked[r] <= Amount

Reserve(r) ==
    /\ pc[r] = "reserve" /\ StillFits(r)
    /\ own' = [own EXCEPT ![r] = "PENDING"]
    /\ late' = IF dispute \in {"open", "lost"} THEN late \cup {r} ELSE late
    /\ Goto(r, "submit")
    /\ UNCHANGED <<rail, asked, gateway, hook, carrier, cascade, dispute, restored>>

RefuseToReserve(r) ==
    /\ pc[r] = "reserve" /\ ~StillFits(r)
    /\ Goto(r, "over")
    /\ UNCHANGED <<rail, asked, gateway, rows, cascade, dispute, restored, late>>

\* Phase 2: the gateway takes the refund, or records that it failed; the answer arrives
\* or is lost, which keeps the placeholder.
Submit(r) ==
    /\ pc[r] = "submit"
    /\ \E s \in {"pending", "processed", "failed"} :
          /\ s \in Sent => Fits(asked[r])
          /\ gateway' = [gateway EXCEPT ![r] = s]
          /\ Goto(r, s) \/ Goto(r, "over")
    /\ UNCHANGED <<rail, asked, rows, cascade, dispute, restored, late>>

\* The gateway refuses outright or is not reached: the placeholder stays too.
Refuse(r) ==
    /\ pc[r] = "submit"
    /\ Goto(r, "over")
    /\ UNCHANGED <<rail, asked, gateway, rows, cascade, dispute, restored, late>>

\* Phase 3a writes the gateway's id, which is unique: where the webhook's row has it
\* already the placeholder goes, and that row is settled in its place.
IdIsFree(g) == carrier[g] = None

Bind(r) ==
    /\ pc[r] \in Sent
    /\ IF IdIsFree(r)
       THEN carrier' = [carrier EXCEPT ![r] = r] /\ UNCHANGED own
       ELSE own' = [own EXCEPT ![r] = "none"] /\ UNCHANGED carrier
    /\ Goto(r, IF pc[r] = "processed" THEN "settle" ELSE "over")
    /\ UNCHANGED <<rail, asked, gateway, hook, cascade, dispute, restored, late>>

\* A failed refund frees the balance, under the gateway's id if that is free.
BindFailure(r) ==
    /\ pc[r] = "failed"
    /\ own' = [own EXCEPT ![r] = "FAILED"]
    /\ carrier' = IF IdIsFree(r) THEN [carrier EXCEPT ![r] = r] ELSE carrier
    /\ Goto(r, "over")
    /\ UNCHANGED <<rail, asked, gateway, hook, cascade, dispute, restored, late>>

\* Phase 3b: the cascade, SUCCEEDED and the credits, together.
Settle(r) ==
    /\ pc[r] = "settle"
    /\ Cascade(r) /\ Put(r, "SUCCEEDED") /\ UNCHANGED carrier /\ RestoreCredits
    /\ Goto(r, "over")
    /\ UNCHANGED <<rail, asked, gateway, dispute, late>>

\* The process dies after Phase 1, or a transaction fails for good: what is written stays.
Crash(r) ==
    /\ pc[r] \in {"submit", "pending", "processed", "failed", "settle"}
    /\ Goto(r, "over")
    /\ UNCHANGED <<rail, asked, gateway, rows, cascade, dispute, restored, late>>

\* refundInternalFundedPayment: no gateway, one transaction (the row owns its id).
RefundInternally(r, a) ==
    /\ rail = "internal" /\ pc[r] = "check"
    /\ Spoken + a <= Amount
    /\ asked' = [asked EXCEPT ![r] = a]
    /\ own' = [own EXCEPT ![r] = "SUCCEEDED"] /\ carrier' = [carrier EXCEPT ![r] = r]
    /\ TakeBack(r, a) /\ ownDone' = ownDone \cup {r}
    /\ UNCHANGED <<hook, hookDone>> /\ RestoreCredits
    /\ Goto(r, "over")
    /\ UNCHANGED <<rail, gateway, dispute, late>>

----------------------------------------------------------------------------
\* The gateway and its events

Progress(g) ==
    /\ gateway[g] = "pending"
    /\ \E s \in {"processed", "failed"} : gateway' = [gateway EXCEPT ![g] = s]
    /\ UNCHANGED <<rail, request, rows, cascade, dispute, restored, late>>

OperatorRefunds(g, a) ==
    /\ g \in Dashboard /\ rail = "gateway" /\ gateway[g] = "none" /\ Fits(a)
    /\ gateway' = [gateway EXCEPT ![g] = "pending"]
    /\ asked' = [asked EXCEPT ![g] = a]
    /\ UNCHANGED <<rail, pc, rows, cascade, dispute, restored, late>>

RowStatus(s) == CASE s = "processed" -> "SUCCEEDED" [] s = "failed" -> "FAILED" [] OTHER -> "PENDING"

\* Anything the refund ever was may be reported, any number of times, late or never.
Reports(g) == IF gateway[g] = "none" THEN {} ELSE {"pending", gateway[g]}

\* A row that is known leaves PENDING only, and settles with all that goes with it.
WebhookKnown(g, s) ==
    /\ s \in Reports(g) /\ carrier[g] # None
    /\ StatusOf(g) = "PENDING" /\ s # "pending"
    /\ Put(g, RowStatus(s)) /\ UNCHANGED carrier
    /\ IF s = "processed" THEN Cascade(g) /\ RestoreCredits
                          ELSE UNCHANGED <<cascade, restored>>
    /\ UNCHANGED <<rail, request, gateway, dispute, late>>

\* An unknown refund gets a row, unless it failed.
WebhookUnknown(g, s) ==
    /\ s \in Reports(g) /\ s # "failed" /\ IdIsFree(g)
    /\ hook' = [hook EXCEPT ![g] = RowStatus(s)]
    /\ carrier' = [carrier EXCEPT ![g] = Hook]
    /\ UNCHANGED own
    /\ IF s = "processed"
       THEN /\ TakeBack(g, asked[g]) /\ hookDone' = hookDone \cup {g} /\ UNCHANGED ownDone
            /\ RestoreCredits
       ELSE UNCHANGED <<cascade, restored>>
    /\ UNCHANGED <<rail, request, gateway, dispute, late>>

----------------------------------------------------------------------------
\* reconcilePendingRefunds and cascadeRefundToEarnings

\* A placeholder an hour old, its request gone.
Placeholder(r) == own[r] = "PENDING" /\ pc[r] = "over" /\ \A g \in Refunds : carrier[g] # r

\* The gateway's refund that carries the reservation id, else the only one of the same
\* amount that carries none.
Alike(r)   == {g \in Dashboard : gateway[g] # "none" /\ asked[g] = asked[r]}
Matches(r) == IF gateway[r] # "none" THEN {r}
              ELSE IF Cardinality(Alike(r)) = 1 THEN Alike(r) ELSE {}

MatchPlaceholder(r) ==
    /\ Placeholder(r)
    /\ \E g \in Matches(r) :
          IF IdIsFree(g)
          THEN /\ carrier' = [carrier EXCEPT ![g] = r]
               /\ own' = [own EXCEPT ![r] = RowStatus(gateway[g])]
          ELSE own' = [own EXCEPT ![r] = "none"] /\ UNCHANGED carrier   \* superseded
    /\ UNCHANGED <<rail, request, gateway, hook, cascade, dispute, restored, late>>

\* Nothing at the gateway after a day.
FailPlaceholder(r) ==
    /\ Placeholder(r) /\ Matches(r) = {} /\ Alike(r) = {}
    /\ own' = [own EXCEPT ![r] = "FAILED"]
    /\ UNCHANGED <<rail, request, gateway, hook, carrier, cascade, dispute, restored, late>>

\* Rows under a real id are asked about.  The cascade is left to the other job.
Polled(g) == gateway[g] \in {"processed", "failed"}

PollRow(g) ==
    /\ carrier[g] # None /\ StatusOf(g) = "PENDING" /\ Polled(g)
    /\ g \in Requests => pc[g] = "over"
    /\ Put(g, RowStatus(gateway[g])) /\ UNCHANGED carrier
    /\ UNCHANGED <<rail, request, gateway, cascade, dispute, restored, late>>

CascadeBackstop(g) ==
    /\ carrier[g] # None /\ StatusOf(g) = "SUCCEEDED" /\ ~Claimed(g)
    /\ Cascade(g)
    /\ UNCHANGED <<rail, request, gateway, rows, dispute, restored, late>>

----------------------------------------------------------------------------
\* The dispute

Dispute ==
    /\ rail = "gateway" /\ dispute = "none"
    /\ dispute' = "open"
    /\ UNCHANGED <<rail, request, gateway, rows, cascade, restored, late>>

\* The bank takes the money back.  An earning that is held or paid gives back the part the
\* dispute is about; one in a batch nothing now and all of it when handleLostDisputes comes.
Lost == {0, Proportion(Share, DisputeAmount), Share}

ResolveDispute ==
    /\ dispute = "open"
    /\ \/ dispute' = "won" /\ UNCHANGED taken
       \/ dispute' = "lost" /\ \E part \in Lost : taken' = Cap(taken + part)
    /\ UNCHANGED <<rail, request, gateway, rows, ownDone, hookDone, back, times, restored, late>>

----------------------------------------------------------------------------
RequestStep(r) == \/ \E a \in 1 .. Amount : Check(r, a) \/ RefundInternally(r, a)
                  \/ Reserve(r) \/ RefuseToReserve(r) \/ Submit(r) \/ Refuse(r)
                  \/ Bind(r) \/ BindFailure(r) \/ Settle(r) \/ Crash(r)

Webhook(g) == \E s \in {"pending", "processed", "failed"} : WebhookKnown(g, s) \/ WebhookUnknown(g, s)

Next ==
    \/ \E r \in Requests : RequestStep(r) \/ MatchPlaceholder(r) \/ FailPlaceholder(r)
    \/ \E g \in Refunds : \/ Progress(g) \/ Webhook(g) \/ PollRow(g) \/ CascadeBackstop(g)
                          \/ \E a \in 1 .. Amount : OperatorRefunds(g, a)
    \/ Dispute \/ ResolveDispute

Spec == Init /\ [][Next]_vars

\* The jobs run again and again, a request goes on or dies, the gateway decides what it
\* accepted.  No event need ever arrive.
Fairness ==
    /\ \A r \in Requests :
          WF_vars((pc[r] # "check" /\ RequestStep(r)) \/ MatchPlaceholder(r) \/ FailPlaceholder(r))
    /\ \A g \in Refunds : WF_vars(Progress(g) \/ PollRow(g) \/ CascadeBackstop(g))

FairSpec == Spec /\ Fairness

\* With events that do arrive.
DeliveringSpec == FairSpec /\ \A g \in Refunds : WF_vars(Webhook(g))

----------------------------------------------------------------------------
TypeOK ==
    /\ rail \in {"gateway", "internal"}
    /\ pc \in [Requests -> RequestSteps]
    /\ asked \in [Refunds -> 0 .. Amount]
    /\ gateway \in [Refunds -> {"none", "pending", "processed", "failed"}]
    /\ own \in [Requests -> RowStatuses] /\ hook \in [Refunds -> RowStatuses]
    /\ carrier \in [Refunds -> Requests \cup {None, Hook}]
    /\ ownDone \subseteq Requests /\ hookDone \subseteq Refunds
    /\ dispute \in {"none", "open", "won", "lost"}
    /\ taken \in 0 .. Share /\ back \in [DOMAIN Legs -> Nat]
    /\ restored \subseteq Refunds /\ late \subseteq Requests
    /\ times \in [Refunds -> Nat]

\* The earning, the legs and the ledger give back a gateway refund's money once, though
\* the request, the event, the poll and the backstop may all settle it, under one of two
\* rows (cascadedAt, and the unique refundId that picks the row).
CascadedOnce == \A g \in Refunds : times[g] <= 1

\* Money a request has moving is booked: one of its rows counts against the balance, so
\* no later request is told that there is more left than there is.
Booked(r) == Live(own[r]) \/ Live(hook[r])
MoneyIsBooked == \A r \in Requests : gateway[r] \in Sent => Booked(r)

\* However requests race with one another and with a dispute, what they have booked, and
\* what the bank took before one of them reserved, is no more than was paid.
OneBalance ==
    SumAsked({r \in Requests : Booked(r)})
        + (IF \E r \in late : Booked(r) THEN ChargedBack ELSE 0) <= Amount

\* Cascades that round down lose the consultant's share less than a paisa each, and the
\* legs give back all that was refunded.
Cascaded == {g \in Refunds : times[g] > 0}
RoundingIsBounded ==
    LET refunded == SumAsked(Cascaded) IN
    /\ SumFunction(back) = refunded
    /\ dispute # "lost" => /\ taken * Amount <= Share * refunded
                           /\ Share * refunded < taken * Amount + Amount * Cardinality(Cascaded)
                                                 + (IF Cascaded = {} THEN 1 ELSE 0)

\* What the gateway paid back for a request is taken back from earnings and legs in the
\* end, whoever died and though no event arrived (the two-phase pattern's promise).
EventuallyCascaded == \A r \in Requests : gateway[r] = "processed" ~> times[r] = 1

\* No reservation blocks the balance for ever, unless two dashboard refunds look like it.
EventuallyResolved ==
    \A r \in Requests : own[r] = "PENDING" ~> own[r] # "PENDING" \/ Cardinality(Alike(r)) > 1

\* What the code says of itself and does not keep.  refund.ts: "Both settle paths now call
\* reverseCreditsForPayment right after that update [...] This closes the #B20 gap".
CreditsFollow == \A r \in Requests : times[r] = 1 ~> r \in restored

\* prisma/schema.prisma:5406: "|reversal| never exceeds the original (#786)".  The last leg
\* gets every remainder, so several partial refunds give it back more than it paid.
LegsStayWithin == \A i \in DOMAIN Legs : back[i] <= Legs[i]
=============================================================================
