----------------------------- MODULE Reschedule -----------------------------
(***************************************************************************)
(* Moving one paid booking: the reschedule that releases its sessions, the *)
(* proposal that may go with it, the four ways a proposal is answered, the *)
(* allocator that places new sessions, the cancel and the hourly sweeps.   *)
(*                                                                         *)
(* The accept, the automatic confirmation and the consultant's allocation  *)
(* page are movers: they read, call the allocator, which reads again under *)
(* the consultee's booking lock, and write later.  The transactions are    *)
(* READ COMMITTED, so the allocator's is four steps, and the reschedule's  *)
(* reads are a step before its writes; others commit in between.  What a   *)
(* transaction has not committed is seen by nobody, and a writer of a row  *)
(* it has deleted waits for it.  The other transactions begin with the     *)
(* write that decides them and are one step each.  A session is one slot   *)
(* row; the sessions of a subscription are appointments of their own, a    *)
(* consultation's rows all hang off the appointment its checkout made.     *)
(***************************************************************************)
EXTENDS Naturals, FiniteSets

CONSTANTS
    Proposals,    \* reschedule requests
    Movers,       \* calls that may end in the allocator
    Sold,         \* sessions of a subscription
    MaxRows,      \* bound: slot rows ever created
    MaxReleases,  \* bound: reschedules of each kind; the 24-hour rule bounds them in time
    Nothing       \* no proposal

Kinds == {"consultation", "subscription"}

ASSUME RescheduleAssumption ==
    /\ Sold \in Nat \ {0} /\ MaxRows \in Nat
    /\ MaxReleases \in [Kinds -> Nat]
    /\ Sold <= MaxRows
    /\ Nothing \notin Proposals

Checkout == 0   \* the appointment that checkout made and that carries the payment
Rows == 1 .. MaxRows

VARIABLES
    kind,      \* consultation or subscription
    booking,   \* the request's status
    aged,      \* its requestedAt is past the expiry window
    made,      \* rows created so far
    row,       \* each slot row: firm, tentative, released, given up
    proposal,  \* each reschedule request
    lapsed,    \* proposals past their expiresAt
    mover,     \* each call: where it stands and what it has read
    route,     \* the reschedule call in flight, one at a time
    releases,  \* reschedules so far
    listed,    \* the consultation is in the cohort the hourly sweep has read
    failed,    \* history: proposals whose closing write matched no row
    granted,   \* history: an allocation or a sale has approved the booking
    crossed    \* history: what has committed in the middle of an allocation

sessions == <<made, row>>
calls    == <<mover, route, releases>>
hist     == <<failed, granted, crossed>>
vars     == <<kind, booking, aged, sessions, proposal, lapsed, calls, listed, hist>>

\* held: SCHEDULED and tentative; live: SCHEDULED and firm; released: RESCHEDULED
\* and tentative; dropped: CANCELLED with a tombstone; gone: deleted.
RowStatuses == {"none", "held", "live", "released", "dropped", "gone"}
Statuses == {"PENDING", "APPROVED", "CANCELLED", "EXPIRED"}
Answers  == {"ACCEPTED", "AUTO_ACCEPTED", "DECLINED", "WITHDRAWN", "EXPIRED"}

\* What a request carries: times its consultee or its consultant (or staff)
\* proposes, or only a preference.
Asks == {"consultee", "consultant", "preference"}
NoRequest == [status |-> "none", at |-> Checkout, named |-> {},
              asks |-> "preference"]
Idle == [pc |-> "idle", role |-> "page", of |-> Nothing, expected |-> 0,
         resched |-> FALSE, fresh |-> FALSE, ids |-> {}, count |-> 0, rows |-> {}]
NoCall == [pc |-> "idle", at |-> Checkout, whole |-> FALSE, seen |-> {}, found |-> {}]

RowsIn(statuses) == {r \in Rows : row[r] \in statuses}
Standing  == RowsIn({"held", "live", "released"})
Tentative == RowsIn({"held", "released", "dropped"})   \* the read asks isTentative alone
Live      == RowsIn({"live"})
Released  == RowsIn({"released"})

\* A slip a run must notice: each row of a consultation taken for an appointment.
HomeIsRow(r) == r
Home(r) == IF kind = "consultation" THEN Checkout ELSE r
HasTimes(p) == proposal[p].asks # "preference"
IsOpen(p) == proposal[p].status = "PENDING_REVIEW"
SessionsSold == IF kind = "consultation" THEN 1 ELSE Sold

\* A paid consultation, one asked for, a subscription with and without sessions.
Init ==
    /\ kind \in Kinds
    /\ \E first \in {"held", "live", "none"} :
          /\ row = [r \in Rows |-> IF r <= SessionsSold THEN first ELSE "none"]
          /\ made = IF first = "none" THEN 0 ELSE SessionsSold
          /\ booking = IF first = "held" THEN "PENDING" ELSE "APPROVED"
          /\ first \in IF kind = "consultation" THEN {"held", "live"} ELSE {"none", "live"}
    /\ aged = FALSE
    /\ proposal = [p \in Proposals |-> NoRequest]
    /\ lapsed = {}
    /\ mover = [m \in Movers |-> Idle]
    /\ route = NoCall /\ releases = 0 /\ listed = FALSE
    /\ failed = {} /\ granted = (booking = "APPROVED") /\ crossed = {}

Turned(rs, status) == [r \in Rows |-> IF r \in rs THEN status ELSE row[r]]
Answered(p, status) == [proposal EXCEPT ![p].status = status]

\* Where a mover is inside the allocator's transaction; what that has deleted.
Inside(m) == mover[m].pc \in {"checked", "found", "cleared"}
Deleting(m) == IF mover[m].pc = "cleared" THEN mover[m].rows ELSE {}
Waits(rs) == \E m \in Movers : Deleting(m) \cap rs # {}

\* The appointment lock: an accept, an automatic confirmation and the reschedule
\* hold it to their end.
Locked(a) ==
    \/ \E m \in Movers : /\ mover[m].role # "page"
                         /\ mover[m].pc \in {"asked", "read", "placed"} \/ Inside(m)
                         /\ proposal[mover[m].of].at = a
    \/ route.pc # "idle" /\ route.at = a

----------------------------------------------------------------------------
(* The reschedule route and the other party's answers. *)

Kept == RowsIn(RowStatuses \ {"none", "gone"})
Appointments == {Checkout} \cup {Home(r) : r \in Kept}

\* The rows a reschedule reads: a consultation's, all of a subscription's live
\* ones (its appointment's, when there is none), or the sessions it names.
Choices(at, whole) ==
    IF ~whole THEN SUBSET Standing
    ELSE IF Standing # {} THEN {Standing} ELSE {{r \in Kept : Home(r) = at}}

RescheduleRead(at, whole, rs) ==
    /\ route.pc = "idle" /\ releases < MaxReleases[kind]
    /\ ~Locked(at)
    /\ kind = "consultation" => whole
    /\ ~whole => rs # {}
    /\ route' = [pc |-> "read", at |-> at, whole |-> whole, seen |-> rs, found |-> {}]
    /\ releases' = releases + 1
    /\ UNCHANGED <<kind, booking, aged, sessions, proposal, lapsed, mover, listed, hist>>

\* What the release matches: whatever then stands at the appointments it has read.
Matched == IF route.whole THEN Standing ELSE route.seen \cap Standing

\* An allocation has deleted and not committed: the release has found its rows,
\* waits for them, and does not see the rows being made.
ReleaseWaits ==
    /\ route.pc = "read"
    /\ \E m \in Movers : mover[m].pc = "cleared"
    /\ route' = [route EXCEPT !.pc = "waiting", !.found = Matched]
    /\ UNCHANGED <<kind, booking, aged, sessions, proposal, lapsed, mover, releases, listed, hist>>

\* The release and the status that goes with it, in one transaction.
Release ==
    /\ \/ route.pc = "read" /\ \A m \in Movers : mover[m].pc # "cleared"
       \/ route.pc = "waiting" /\ ~Waits(route.found)
    /\ booking \in {"PENDING", "APPROVED"}
    /\ row' = Turned(IF route.pc = "read" THEN Matched ELSE route.found \cap Standing, "released")
    /\ IF route.whole
       THEN booking' = "PENDING" /\ aged' = FALSE
       ELSE UNCHANGED <<booking, aged>>
    /\ route' = NoCall
    /\ crossed' = IF route.pc = "read" THEN crossed ELSE crossed \cup {"release"}
    /\ UNCHANGED <<kind, made, lapsed, mover, releases, listed, failed, granted>>

\* Released without times or a preference.
GiveUp ==
    /\ Release
    /\ UNCHANGED proposal

\* A proposal reserves the appointment it is opened at.
Reserved(a) == \E p \in Proposals : IsOpen(p) /\ proposal[p].at = a

Propose(p, asks) ==
    /\ proposal[p].status = "none" /\ ~Reserved(route.at)
    /\ route.seen # {}
    /\ Release
    /\ proposal' = [proposal EXCEPT ![p] =
          [status |-> "PENDING_REVIEW", at |-> route.at, named |-> route.seen, asks |-> asks]]

\* Refused, or the process died: nothing is committed.
RescheduleFails ==
    /\ route.pc # "idle"
    /\ route' = NoCall
    /\ UNCHANGED <<kind, booking, aged, sessions, proposal, lapsed, mover, releases, listed, hist>>

Reschedule ==
    \/ \E at \in Appointments, whole \in BOOLEAN :
          \E rs \in Choices(at, whole) : RescheduleRead(at, whole, rs)
    \/ ReleaseWaits \/ GiveUp \/ RescheduleFails
    \/ \E p \in Proposals, asks \in Asks : Propose(p, asks)

\* Only a booking that waits in the queue is put back; a consultation that does
\* not is the lost race, and the transaction rolls back.  No lock is taken.
Restores == kind = "consultation" => booking = "PENDING"

Withdraw(p) ==
    /\ IsOpen(p)
    /\ Restores
    /\ ~Waits(proposal[p].named \cap Released)
    /\ row' = Turned(proposal[p].named \cap Released, "live")
    /\ booking' = IF booking = "PENDING" THEN "APPROVED" ELSE booking
    /\ proposal' = Answered(p, "WITHDRAWN")
    /\ crossed' = IF \E m \in Movers : Inside(m) THEN crossed \cup {"withdrawal"} ELSE crossed
    /\ UNCHANGED <<kind, aged, made, lapsed, calls, listed, failed, granted>>

Decline(p) ==
    /\ IsOpen(p)
    /\ proposal' = Answered(p, "DECLINED")
    /\ UNCHANGED <<kind, booking, aged, sessions, lapsed, calls, listed, hist>>

----------------------------------------------------------------------------
(* The movers, up to the allocator. *)

Mover(m, rec) == mover' = [mover EXCEPT ![m] = rec]
Step(m, pc)   == mover' = [mover EXCEPT ![m].pc = pc]
Leave(m, pc)  == Mover(m, [Idle EXCEPT !.pc = pc, !.role = mover[m].role, !.of = mover[m].of])
OnlyMovers ==
    UNCHANGED <<kind, booking, aged, sessions, proposal, lapsed, route, releases, listed, hist>>

\* The consultant opens the allocation page: it remembers how many rows are tentative.
OpenPage(m) ==
    /\ mover[m].pc = "idle"
    /\ booking \in {"PENDING", "APPROVED"}
    /\ Mover(m, [Idle EXCEPT !.pc = "asked", !.expected = Cardinality(Tentative)])
    /\ OnlyMovers

\* The route locks the appointment, then the proposal is read and its deadline honoured.
Accept(m, p) ==
    /\ mover[m].pc = "idle"
    /\ IsOpen(p) /\ HasTimes(p) /\ p \notin lapsed
    /\ ~Locked(proposal[p].at)
    /\ Mover(m, [Idle EXCEPT !.pc = "asked", !.role = "accept", !.of = p])
    /\ OnlyMovers

\* Tried once, after the reschedule's own lock is freed; the proposal is read
\* before the lock is taken again.
AutoConfirm(m, p) ==
    /\ mover[m].pc = "idle"
    /\ IsOpen(p) /\ proposal[p].asks = "consultee"
    /\ \A n \in Movers : ~(mover[n].role = "auto" /\ mover[n].of = p)
    /\ Mover(m, [Idle EXCEPT !.pc = "seen", !.role = "auto", !.of = p])
    /\ OnlyMovers

LockForAuto(m) ==
    /\ mover[m].pc = "seen"
    /\ ~Locked(proposal[mover[m].of].at)
    /\ Step(m, "asked")
    /\ OnlyMovers

\* A slip a run must notice: the allocator's refusal taken for a placement.
TakesRefusalForYes(m) ==
    /\ mover[m].pc \in {"seen", "asked", "read", "placed"} \/ Inside(m)
    /\ Leave(m, IF Inside(m) /\ mover[m].role # "page" THEN "placed" ELSE "over")
    /\ OnlyMovers

\* Refused, busy, or the process died: whatever was not committed is lost.
Abandon(m) ==
    /\ mover[m].pc \in {"seen", "asked", "read", "placed"} \/ Inside(m)
    /\ Leave(m, "over")
    /\ OnlyMovers

----------------------------------------------------------------------------
(* The allocator: a read under the booking locks, then its transaction. *)

Page(m) == mover[m].role = "page"

\* The page's own precondition, asserted at the read and again in the transaction.
AsExpected(m) ==
    Page(m) /\ mover[m].expected > 0 => Cardinality(Tentative) = mover[m].expected
NotYetAllocated == Live = {}

\* One session per released appointment, or the whole plan.
Required == IF kind = "consultation" THEN 1
            ELSE IF Tentative # {} THEN Cardinality(Tentative) ELSE Sold
Offered(m) == IF Page(m) THEN Required ELSE Cardinality(proposal[mover[m].of].named)

AllocatorRead(m) ==
    /\ mover[m].pc = "asked"
    /\ \A n \in Movers : mover[n].pc # "read" /\ ~Inside(n)
    /\ AsExpected(m)
    /\ Page(m) /\ mover[m].expected = 0 => NotYetAllocated
    /\ Offered(m) = Required
    /\ Mover(m, [mover[m] EXCEPT !.pc = "read",
                    !.resched = Tentative # {}, !.fresh = NotYetAllocated,
                    !.ids = Released, !.count = Required])
    /\ OnlyMovers

\* Slips the runs must notice: only what was firm and released is deleted; the
\* status is written whatever it was.
ClearsReleased(m) == IF mover[m].resched THEN Released ELSE mover[m].rows
ApprovesAnything == TRUE

\* Re-checked in the transaction, whatever was read before it.
StillFresh(m) == mover[m].fresh => NotYetAllocated

AllocatorCheck(m) ==
    /\ mover[m].pc = "read"
    /\ StillFresh(m) /\ AsExpected(m)
    /\ Step(m, "checked")
    /\ OnlyMovers

\* The appointments to clear: those with a tentative row, or all.  A consultation
\* has one; found to hold nothing tentative, it is neither cleared nor used
\* again, and the unique key refuses a second.
Found(m) == IF mover[m].resched THEN Tentative ELSE Kept

AllocatorFind(m) ==
    /\ mover[m].pc = "checked"
    /\ kind = "consultation" /\ mover[m].resched => Found(m) # {}
    /\ Mover(m, [mover[m] EXCEPT !.pc = "found", !.rows = Found(m)])
    /\ OnlyMovers

\* A consultation's rows are deleted where they are tentative now; a
\* subscription's appointments are, and their rows with them.
Doomed(m) ==
    IF kind = "consultation" /\ mover[m].resched THEN Tentative ELSE mover[m].rows

AllocatorClear(m) ==
    /\ mover[m].pc = "found"
    /\ Mover(m, [mover[m] EXCEPT !.pc = "cleared", !.rows = Doomed(m)])
    /\ OnlyMovers

Approvable == booking \in {"PENDING", "APPROVED"}
Placed(m) == made + 1 .. made + mover[m].count

\* Requests opened at a deleted appointment go with it; the other open requests
\* for rows seen released are consumed.
Superseded(m, p) ==
    IF kind = "subscription" /\ proposal[p].at \in mover[m].rows THEN "deleted"
    ELSE IF IsOpen(p) /\ p # mover[m].of /\ proposal[p].named \cap mover[m].ids # {}
    THEN IF HasTimes(p) THEN "DECLINED" ELSE "ACCEPTED"
    ELSE proposal[p].status

\* The rows are made, the status is written, and all of it is committed.
AllocatorCommit(m) ==
    /\ mover[m].pc = "cleared"
    /\ Approvable
    /\ made + mover[m].count <= MaxRows
    /\ made' = made + mover[m].count
    /\ row' = [r \in Rows |-> IF r \in Placed(m) THEN "live"
                              ELSE IF r \in mover[m].rows THEN "gone" ELSE row[r]]
    /\ proposal' = [p \in Proposals |-> [proposal[p] EXCEPT !.status = Superseded(m, p)]]
    /\ booking' = "APPROVED" /\ granted' = TRUE
    /\ Leave(m, IF Page(m) THEN "over" ELSE "placed")
    /\ UNCHANGED <<kind, aged, lapsed, route, releases, listed, failed, crossed>>

\* The confirmation closes its proposal in a transaction of its own.
Confirmation(m) == IF mover[m].role = "auto" THEN "AUTO_ACCEPTED" ELSE "ACCEPTED"

Close(m) ==
    /\ mover[m].pc = "placed"
    /\ IF IsOpen(mover[m].of)
       THEN proposal' = Answered(mover[m].of, Confirmation(m)) /\ UNCHANGED failed
       ELSE failed' = failed \cup {mover[m].of} /\ UNCHANGED proposal
    /\ Leave(m, "over")
    /\ UNCHANGED <<kind, booking, aged, sessions, lapsed, route, releases, listed, granted, crossed>>

----------------------------------------------------------------------------
(* Cancelling, the hourly jobs, and time. *)

Cancel(a) ==
    /\ ~Locked(a)
    /\ booking \in {"PENDING", "APPROVED"}
    /\ booking' = "CANCELLED"
    /\ row' = Turned(Standing, "dropped")
    /\ proposal' = [p \in Proposals |->
          IF IsOpen(p) /\ proposal[p].at = a
          THEN [proposal[p] EXCEPT !.status = "DECLINED"] ELSE proposal[p]]
    /\ UNCHANGED <<kind, aged, made, lapsed, calls, listed, hist>>

\* expiresAt passes.
Lapse(p) ==
    /\ IsOpen(p) /\ p \notin lapsed
    /\ lapsed' = lapsed \cup {p}
    /\ UNCHANGED <<kind, booking, aged, sessions, proposal, calls, listed, hist>>

\* A slip a run must notice: only requests with times expire.
ExpiresTimesOnly(p) == IsOpen(p) /\ p \in lapsed /\ HasTimes(p)
Expirable(p) == IsOpen(p) /\ p \in lapsed

ExpireProposals ==
    /\ \E p \in Proposals : Expirable(p)
    /\ proposal' = [p \in Proposals |->
          IF Expirable(p) THEN [proposal[p] EXCEPT !.status = "EXPIRED"] ELSE proposal[p]]
    /\ UNCHANGED <<kind, booking, aged, sessions, lapsed, calls, listed, hist>>

\* 48 hours for a consultation, 30 days for a subscription.
Age ==
    /\ booking = "PENDING" /\ ~aged
    /\ aged' = TRUE
    /\ UNCHANGED <<kind, booking, sessions, proposal, lapsed, calls, listed, hist>>

\* A slip a run must notice: answered requests still shield the booking.
EverAsked == \E p \in Proposals : proposal[p].status # "none"
Unanswered == \E p \in Proposals : IsOpen(p)

\* The sweep reads its cohort first.
ListStale ==
    /\ kind = "consultation" /\ booking = "PENDING" /\ aged /\ ~Unanswered /\ ~listed
    /\ listed' = TRUE
    /\ UNCHANGED <<kind, booking, aged, sessions, proposal, lapsed, calls, hist>>

\* A consultation is expired as listed: its age is not asked again.  Its holds go
\* with it; a subscription's age is, and its rows stay as they are.
ExpirePending ==
    /\ booking = "PENDING" /\ ~Unanswered
    /\ IF kind = "consultation" THEN listed ELSE aged
    /\ booking' = "EXPIRED"
    /\ row' = IF kind = "consultation" THEN Turned(Tentative, "dropped") ELSE row
    /\ listed' = FALSE
    /\ UNCHANGED <<kind, aged, made, proposal, lapsed, calls, hist>>

\* Answered or asked again before the write.
SkipListed ==
    /\ listed /\ (booking # "PENDING" \/ Unanswered)
    /\ listed' = FALSE
    /\ UNCHANGED <<kind, booking, aged, sessions, proposal, lapsed, calls, hist>>

\* An approved plan without a firm session; its own age is not kept here.
ExpireUnallocated ==
    /\ kind = "subscription" /\ booking = "APPROVED" /\ Live = {}
    /\ booking' = "EXPIRED"
    /\ UNCHANGED <<kind, aged, sessions, proposal, lapsed, calls, listed, hist>>

\* Rows released 30 days ago; no proposal lives that long.
ReleaseStale(r) ==
    /\ kind = "subscription" /\ booking = "APPROVED" /\ r \in Released
    /\ \A p \in Proposals : IsOpen(p) => r \notin proposal[p].named
    /\ row' = Turned({r}, "dropped")
    /\ UNCHANGED <<kind, booking, aged, made, proposal, lapsed, calls, listed, hist>>

----------------------------------------------------------------------------
Parties ==
    \/ Reschedule
    \/ \E p \in Proposals : Withdraw(p) \/ Decline(p)
    \/ \E a \in Appointments : Cancel(a)

Moves(m) ==
    \/ OpenPage(m) \/ LockForAuto(m) \/ Abandon(m)
    \/ \E p \in Proposals : Accept(m, p) \/ AutoConfirm(m, p)
    \/ AllocatorRead(m) \/ AllocatorCheck(m) \/ AllocatorFind(m) \/ AllocatorClear(m)
    \/ AllocatorCommit(m) \/ Close(m)

Jobs ==
    \/ Age \/ ExpireProposals \/ ListStale \/ ExpirePending \/ SkipListed \/ ExpireUnallocated
    \/ \E p \in Proposals : Lapse(p)
    \/ \E r \in Rows : ReleaseStale(r)

Next == Parties \/ (\E m \in Movers : Moves(m)) \/ Jobs

Spec == Init /\ [][Next]_vars

\* Time passes and the hourly jobs run; no party has to do anything.
Fairness ==
    /\ WF_vars(Age) /\ WF_vars(ExpireProposals)
    /\ WF_vars(ListStale) /\ WF_vars(ExpirePending) /\ WF_vars(SkipListed)
    /\ \A p \in Proposals : WF_vars(Lapse(p))

FairSpec == Spec /\ Fairness

----------------------------------------------------------------------------
Requests == [status : {"none", "PENDING_REVIEW", "deleted"} \cup Answers,
             at : {Checkout} \cup Rows, named : SUBSET Rows,
             asks : Asks]
Calls == [pc : {"idle", "seen", "asked", "read", "checked", "found", "cleared",
                "placed", "over"},
          role : {"page", "accept", "auto"}, of : Proposals \cup {Nothing},
          expected : 0 .. MaxRows, resched : BOOLEAN, fresh : BOOLEAN,
          ids : SUBSET Rows, count : 0 .. MaxRows, rows : SUBSET Rows]
Routes == [pc : {"idle", "read", "waiting"}, at : {Checkout} \cup Rows, whole : BOOLEAN,
           seen : SUBSET Rows, found : SUBSET Rows]

\* Every variable keeps its type.  Rows are numbered as they are made, a call
\* that confirms a proposal has one, and a consultation's requests are all
\* opened at its one appointment.
TypeOK ==
    /\ kind \in Kinds
    /\ booking \in Statuses /\ aged \in BOOLEAN
    /\ made \in 0 .. MaxRows
    /\ row \in [Rows -> RowStatuses]
    /\ \A r \in Rows : row[r] = "none" <=> r > made
    /\ proposal \in [Proposals -> Requests]
    /\ kind = "consultation" => \A p \in Proposals : proposal[p].at = Checkout
    /\ lapsed \subseteq Proposals /\ failed \subseteq Proposals
    /\ mover \in [Movers -> Calls]
    /\ \A m \in Movers : mover[m].role # "page" => mover[m].of \in Proposals
    /\ route \in Routes
    /\ kind = "consultation" => route.at = Checkout
    /\ releases \in 0 .. MaxReleases[kind] /\ listed \in BOOLEAN
    /\ granted \in BOOLEAN /\ crossed \subseteq {"withdrawal", "release"}

\* The one session a consultation was paid for is never lost, however its
\* reschedule, withdrawal, confirmations, the consultant's own placement, a
\* cancel and the sweeps interleave; and it is doubled only if a withdrawal has
\* committed inside an allocation's transaction.  While the booking waits in the
\* queue its session is not firm, and nothing stands once the booking is over,
\* unless a release has waited for an allocation's deletes.
ConsultationKeepsItsSession ==
    kind = "consultation" =>
       IF booking \in {"APPROVED", "PENDING"}
       THEN /\ Standing # {}
            /\ "withdrawal" \notin crossed => \E r \in Rows : Standing = {r}
            /\ booking = "PENDING" /\ "release" \notin crossed => Live = {}
       ELSE "release" \notin crossed => Standing = {}

\* A booking that was cancelled or expired is never revived, and a cancelled one
\* never holds a session again: not by an allocation that read it before, not by
\* the withdrawal of a proposal that the cancel of a sibling session left open.
CancelledHoldsNothing == booking = "CANCELLED" => Standing = {}
EndedStaysEnded ==
    [][/\ booking \in {"CANCELLED", "EXPIRED"} => booking' = booking
       /\ booking = "CANCELLED" => Standing' = {}]_vars

\* Yes means moved: once a consultation's proposal is answered with yes, the
\* session it gave up is deleted; no refusal or crash reads as a confirmation.
\* A preference alone is answered by whatever allocation consumes it, and a
\* withdrawal in the middle of that one may have kept the session.
YesMeansMoved ==
    kind = "consultation" =>
       \A p \in Proposals :
          /\ proposal[p].status \in {"ACCEPTED", "AUTO_ACCEPTED"}
          /\ HasTimes(p) \/ "withdrawal" \notin crossed
          => \A r \in proposal[p].named : row[r] = "gone"

\* Every proposal is answered in the end, whatever its parties do.
EveryProposalIsAnswered == \A p \in Proposals : IsOpen(p) ~> ~IsOpen(p)

\* A booking does not stay in the consultant's queue for ever: it is placed,
\* put back, cancelled, or expired and refunded.
QueueEmpties == booking = "PENDING" ~> booking # "PENDING"

\* A confirmation that placed the sessions fails to close its proposal only
\* because somebody else answered it (reschedule-auto-confirm.ts, finalize).
FailedOnlyIfAnswered ==
    \A p \in failed : proposal[p].status \in {"DECLINED", "WITHDRAWN", "EXPIRED"}

\* A withdrawal returns the booking to what it was: a request nobody has
\* approved does not come back approved (reschedule-withdraw.ts, header).
WithdrawalRestores == booking = "APPROVED" => granted

\* A plan keeps the sessions that were paid for: one-for-one replacement
\* (reschedule-proposals.ts, proposalCountMatches).
OneForOne ==
    made > 0 /\ booking \in {"PENDING", "APPROVED"} =>
       Cardinality(Standing \cup RowsIn({"dropped"})) = SessionsSold

\* Two answers never both take effect: a withdrawal restores the old session only
\* if no allocation replaces it (reschedule-withdraw.ts, the closing write).
OneSessionOnly ==
    kind = "consultation" => Cardinality(Standing) <= 1

\* A booking in the queue has no firm session (reschedule route, the release).
QueuedIsReleased ==
    kind = "consultation" /\ booking = "PENDING" => Live = {}

\* Nobody who has just asked to move is expired and refunded (reschedule route,
\* requestedAt).
FreshIsNotExpired ==
    [][booking = "PENDING" /\ booking' = "EXPIRED" => aged]_vars
=============================================================================
