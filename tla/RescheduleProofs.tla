-------------------------- MODULE RescheduleProofs --------------------------
(***************************************************************************)
(* Proofs about Reschedule, for every number of proposals, movers, slot    *)
(* rows and reschedules, and for every size of the plan.                   *)
(***************************************************************************)
EXTENDS Reschedule, FiniteSetTheorems, TLAPS

\* A consultation that is not over; no withdrawal has crossed an allocation.
Alive == kind = "consultation" /\ booking \in {"PENDING", "APPROVED"}
Calm == "withdrawal" \notin crossed

\* While a consultation is not over, no row of it has been given up.
NoneIsDropped == Alive => RowsIn({"dropped"}) = {}

\* The booking lock: one allocator at a time between its read and its commit.
Writing(m) == mover[m].pc = "read" \/ Inside(m)
OneWriter == \A m, n \in Movers : Writing(m) /\ Writing(n) => m = n

\* An allocator of a consultation places one session.  If it saw the consultation
\* tentative it saw no firm session, finds none in its transaction, and deletes
\* all that stands, unless a withdrawal crosses; any other deletes every row.
Readers ==
    kind = "consultation" =>
       \A m \in Movers :
          /\ Writing(m) => mover[m].count = 1
          /\ Writing(m) /\ mover[m].resched /\ Alive /\ Calm => mover[m].fresh
          /\ mover[m].pc \in {"checked", "found"} /\ mover[m].resched /\ Alive /\ Calm
             => Live = {}
          /\ mover[m].pc \in {"found", "cleared"} /\ ~mover[m].resched
             => Kept \subseteq mover[m].rows
          /\ mover[m].pc = "cleared" /\ Alive /\ Calm => Standing \subseteq mover[m].rows

\* A reschedule of a consultation releases all of it; what it has read still
\* stands or is deleted, and what it waits for is what it has read.
Routing ==
    kind = "consultation" =>
       /\ route.pc # "idle" => route.whole
       /\ Alive => \A r \in route.seen : row[r] \in {"held", "live", "released", "gone"}
       /\ Alive /\ route.pc = "waiting" =>
             \A r \in route.seen : r \in route.found \/ row[r] = "gone"

\* The appointment lock: no reschedule runs while an accept or an automatic
\* confirmation of a consultation does.
Holds(m) == mover[m].pc \in {"asked", "read", "placed"} \/ Inside(m)
Exclusive ==
    kind = "consultation" /\ route.pc # "idle" =>
       \A m \in Movers : mover[m].role # "page" => ~Holds(m)

\* A proposal names sessions that exist; a confirmation has one that was opened.
Named ==
    /\ \A p \in Proposals : \A r \in proposal[p].named : r <= made
    /\ \A r \in route.seen : r <= made
    /\ \A m \in Movers : \A r \in mover[m].rows : r <= made
    /\ \A m \in Movers : mover[m].role # "page" => proposal[mover[m].of].status # "none"
    /\ \A m \in Movers : mover[m].pc = "placed" => mover[m].role # "page"

\* One request is open at a time, and what it names is released or deleted.
OpenNames ==
    /\ kind = "consultation" =>
         \A p, q \in Proposals : IsOpen(p) /\ IsOpen(q) => p = q
    /\ Alive => \A p \in Proposals : IsOpen(p) =>
                   \A r \in proposal[p].named : row[r] \in {"released", "gone"}

\* A confirmation that has cleared for an open proposal has deleted what that
\* names; between the placement and the closing write it is gone.
Clearing ==
    Alive =>
       \A m \in Movers :
          mover[m].pc = "cleared" /\ mover[m].role # "page" /\ IsOpen(mover[m].of) =>
             \A r \in proposal[mover[m].of].named : r \in mover[m].rows \/ row[r] = "gone"
PlacedMeansGone ==
    kind = "consultation" =>
       \A m \in Movers : mover[m].pc = "placed" /\ IsOpen(mover[m].of) =>
          \A r \in proposal[mover[m].of].named : row[r] = "gone"

IInv ==
    /\ TypeOK
    /\ ConsultationKeepsItsSession
    /\ CancelledHoldsNothing
    /\ NoneIsDropped
    /\ OneWriter
    /\ Readers
    /\ Routing
    /\ Exclusive
    /\ Named
    /\ OpenNames
    /\ Clearing
    /\ PlacedMeansGone
    /\ YesMeansMoved

----------------------------------------------------------------------------
(* The steps, by what they write. *)

\* The steps that write the rows or the booking; all the others leave both alone.
LEMMA Steps ==
  ASSUME [Next]_vars
  PROVE  \/ /\ Release /\ mover' = mover
            /\ UNCHANGED proposal \/ \E p \in Proposals, asks \in Asks : Propose(p, asks)
         \/ \E p \in Proposals : Withdraw(p) /\ mover' = mover /\ route' = route
         \/ \E a \in Appointments : Cancel(a) /\ mover' = mover /\ route' = route
         \/ \E m \in Movers : AllocatorCommit(m) /\ route' = route
         \/ ExpirePending /\ mover' = mover /\ route' = route
         \/ /\ kind = "subscription" /\ kind' = kind
            /\ ExpireUnallocated \/ \E r \in Rows : ReleaseStale(r)
            /\ UNCHANGED <<mover, route, made, proposal, crossed>>
         \/ /\ UNCHANGED <<kind, booking, made, row, crossed>>
            /\ \/ UNCHANGED <<mover, route>>
               \/ UNCHANGED <<mover, proposal>> /\ (\/ ReleaseWaits \/ RescheduleFails
                     \/ \E at \in Appointments, whole \in BOOLEAN :
                           \E rs \in Choices(at, whole) : RescheduleRead(at, whole, rs))
               \/ \E m \in Movers : Moves(m) /\ ~AllocatorCommit(m) /\ route' = route
<1> USE DEF sessions, calls, hist, OnlyMovers
<1>1. CASE Reschedule
  BY <1>1 DEF Reschedule, RescheduleRead, ReleaseWaits, RescheduleFails, GiveUp, Propose, Release
<1>2. CASE \E p \in Proposals : Withdraw(p)
  BY <1>2 DEF Withdraw
<1>3. CASE \E p \in Proposals : Decline(p)
  BY <1>3 DEF Decline
<1>4. CASE \E a \in Appointments : Cancel(a)
  BY <1>4 DEF Cancel
<1>5. CASE \E m \in Movers : AllocatorCommit(m)
  BY <1>5 DEF AllocatorCommit
<1>6. ASSUME NEW m \in Movers, Moves(m), ~AllocatorCommit(m)
      PROVE  UNCHANGED <<kind, booking, made, row, crossed>> /\ route' = route
  BY <1>6 DEF Moves, OpenPage, LockForAuto, Abandon, Accept, AutoConfirm, AllocatorRead,
     AllocatorCheck, AllocatorFind, AllocatorClear, Close
<1>7. CASE ExpirePending
  BY <1>7 DEF ExpirePending
<1>8. CASE ExpireUnallocated \/ \E r \in Rows : ReleaseStale(r)
  BY <1>8 DEF ExpireUnallocated, ReleaseStale
<1>9. CASE Age \/ ExpireProposals \/ ListStale \/ SkipListed \/ \E p \in Proposals : Lapse(p)
  BY <1>9 DEF Age, ExpireProposals, ListStale, SkipListed, Lapse
<1>10. CASE UNCHANGED vars
  BY <1>10 DEF vars
<1>11. QED
  BY <1>1, <1>2, <1>3, <1>4, <1>5, <1>6, <1>7, <1>8, <1>9, <1>10 DEF Next, Parties, Jobs

\* A booking that is over stays over, and what has crossed has crossed.
LEMMA OverIsOver ==
  ASSUME TypeOK, [Next]_vars
  PROVE  /\ booking \in {"CANCELLED", "EXPIRED"} => booking' = booking
         /\ kind' = kind
         /\ Alive' => Alive
         /\ crossed \subseteq crossed'
<1>1. /\ booking \in {"CANCELLED", "EXPIRED"} => booking' = booking
      /\ kind' = kind
      /\ crossed \subseteq crossed'
  BY Steps DEF Release, Withdraw, Cancel, AllocatorCommit, Approvable, ExpirePending,
     ExpireUnallocated, ReleaseStale, sessions, hist
<1>2. booking \in Statuses
  BY DEF TypeOK
<1>3. QED
  BY <1>1, <1>2 DEF Alive, Statuses

----------------------------------------------------------------------------
(* Types. *)

\* A set of rows is no larger than the number of rows.
LEMMA TentativeFits == ASSUME TypeOK PROVE Cardinality(Tentative) \in 0 .. MaxRows
<1>1. MaxRows \in Nat
  BY RescheduleAssumption
<1>2. IsFiniteSet(Rows) /\ Cardinality(Rows) \in 0 .. MaxRows
  <2>1. IsFiniteSet(1 .. MaxRows)
        /\ Cardinality(1 .. MaxRows) = IF 1 > MaxRows THEN 0 ELSE MaxRows - 1 + 1
    BY <1>1, FS_Interval
  <2>2. QED
    BY <1>1, <2>1 DEF Rows
<1>3. Tentative \in SUBSET Rows
  BY DEF Tentative, RowsIn
<1>4. IsFiniteSet(Tentative) /\ Cardinality(Tentative) <= Cardinality(Rows)
  BY <1>2, <1>3, FS_Subset
<1>5. Cardinality(Tentative) \in Nat
  BY <1>4, FS_CardinalityType
<1>6. QED
  BY <1>1, <1>2, <1>4, <1>5

LEMMA RequiredFits ==
  ASSUME TypeOK
  PROVE  Required \in 0 .. MaxRows /\ (kind = "consultation" => Required = 1)
  BY TentativeFits, RescheduleAssumption DEF Required

\* Rows that exist take another status; no row comes into being or ceases to be one.
LEMMA TurnedTypes ==
  ASSUME TypeOK, NEW rs \in SUBSET Rows, \A r \in rs : row[r] # "none",
         NEW s \in RowStatuses \ {"none"}
  PROVE  /\ Turned(rs, s) \in [Rows -> RowStatuses]
         /\ \A r \in Rows : Turned(rs, s)[r] = IF r \in rs THEN s ELSE row[r]
         /\ \A r \in Rows : Turned(rs, s)[r] = "none" <=> r > made
<1>1. \A r \in Rows : Turned(rs, s)[r] = IF r \in rs THEN s ELSE row[r]
  BY DEF Turned
<1>2. Turned(rs, s) \in [Rows -> RowStatuses]
  BY DEF Turned, TypeOK
<1>3. \A r \in Rows : Turned(rs, s)[r] = "none" <=> r > made
  BY <1>1 DEF TypeOK
<1>4. QED
  BY <1>1, <1>2, <1>3

\* The sets of rows the steps read hold rows that exist.
LEMMA ChosenRows ==
  /\ Standing \in SUBSET Rows /\ \A r \in Standing : row[r] # "none"
  /\ Released \in SUBSET Rows /\ \A r \in Released : row[r] # "none"
  /\ Tentative \in SUBSET Rows /\ \A r \in Tentative : row[r] # "none"
  /\ Kept \in SUBSET Rows /\ \A r \in Kept : row[r] # "none"
  /\ Released \subseteq Standing
  BY DEF Standing, Released, Tentative, Kept, RowsIn

LEMMA ReadRows ==
  ASSUME NEW at, NEW whole, NEW rs \in Choices(at, whole)
  PROVE  rs \in SUBSET Rows /\ \A r \in rs : row[r] # "none"
  BY ChosenRows DEF Choices

\* What a reschedule releases: rows that stand, a consultation's all.
Turning == IF route.pc = "read" THEN Matched ELSE route.found \cap Standing

LEMMA TurningStands == Turning \subseteq Standing
  BY DEF Turning, Matched

\* What a placement does to the rows.
LEMMA PlacementTypes ==
  ASSUME TypeOK, Named, NEW m \in Movers, AllocatorCommit(m)
  PROVE  /\ made' \in 0 .. MaxRows /\ made' = made + mover[m].count /\ made <= made'
         /\ row' \in [Rows -> RowStatuses]
         /\ \A r \in Rows : row'[r] = "none" <=> r > made'
         /\ \A r \in Rows : row'[r] = IF r > made /\ r <= made' THEN "live"
                                     ELSE IF r \in mover[m].rows THEN "gone" ELSE row[r]
<1>1. made \in 0 .. MaxRows /\ mover[m].count \in 0 .. MaxRows /\ MaxRows \in Nat
  BY RescheduleAssumption DEF TypeOK, Calls
<1>2. made' = made + mover[m].count /\ made' <= MaxRows
  BY DEF AllocatorCommit
<1>3. row' = [r \in Rows |-> IF r \in Placed(m) THEN "live"
                             ELSE IF r \in mover[m].rows THEN "gone" ELSE row[r]]
  BY DEF AllocatorCommit
<1>4. \A r \in Rows : r \in Placed(m) <=> r > made /\ r <= made'
  BY <1>1, <1>2 DEF Placed, Rows
<1>5. \A r \in mover[m].rows : r \in Rows /\ r <= made /\ row[r] # "none"
  BY DEF Named, TypeOK, Calls, Rows
<1>6. row' \in [Rows -> RowStatuses]
  BY <1>3 DEF TypeOK, RowStatuses
<1>7. ASSUME NEW r \in Rows PROVE row'[r] = "none" <=> r > made'
  <2>1. r \in Nat /\ (row[r] = "none" <=> r > made)
    BY DEF Rows, TypeOK
  <2>2. QED
    BY <1>1, <1>2, <1>3, <1>4, <1>5, <2>1
<1>8. QED
  BY <1>1, <1>2, <1>3, <1>4, <1>6, <1>7

\* A mover that moves keeps the type of its call; it answers for the proposal it
\* began with; and it has placed something only if the allocator committed for it.
LEMMA MoverSteps ==
  ASSUME TypeOK, NEW m \in Movers, Moves(m)
  PROVE  /\ mover' \in [Movers -> Calls]
         /\ \A n \in Movers \ {m} : mover'[n] = mover[n]
         /\ \/ mover'[m].role = "page" /\ mover'[m].pc # "placed"
            \/ /\ mover'[m].role = mover[m].role /\ mover'[m].of = mover[m].of
               /\ mover'[m].pc = "placed" => AllocatorCommit(m) /\ mover[m].role # "page"
            \/ /\ mover'[m].pc \in {"asked", "seen"} /\ proposal' = proposal
               /\ \E p \in Proposals : mover'[m].of = p /\ IsOpen(p)
<1> USE DEF OnlyMovers
<1> DEFINE Same == mover'[m].role = mover[m].role /\ mover'[m].of = mover[m].of
<1>t. mover \in [Movers -> Calls] /\ mover[m] \in Calls /\ 0 \in 0 .. MaxRows
  BY RescheduleAssumption DEF TypeOK
<1>c. Idle \in Calls
  BY <1>t DEF Idle, Calls
<1>s. ASSUME NEW c \in Calls, mover' = [mover EXCEPT ![m] = c]
      PROVE  /\ mover' \in [Movers -> Calls] /\ mover'[m] = c
             /\ \A n \in Movers \ {m} : mover'[n] = mover[n]
  BY <1>t, <1>s
<1>l. ASSUME NEW pc \in {"placed", "over"}, Leave(m, pc)
      PROVE  /\ mover' \in [Movers -> Calls] /\ Same /\ mover'[m].pc = pc
             /\ \A n \in Movers \ {m} : mover'[n] = mover[n]
  <2>1. mover[m].role \in {"page", "accept", "auto"} /\ mover[m].of \in Proposals \cup {Nothing}
    BY <1>t DEF Calls
  <2> DEFINE c == [Idle EXCEPT !.pc = pc, !.role = mover[m].role, !.of = mover[m].of]
  <2>2. c \in Calls /\ c.pc = pc /\ c.role = mover[m].role /\ c.of = mover[m].of
    BY <1>t, <2>1 DEF Idle, Calls
  <2>3. mover' = [mover EXCEPT ![m] = c]
    BY <1>l DEF Leave, Mover
  <2> HIDE DEF c
  <2>4. QED
    BY <1>s, <2>2, <2>3
<1>1. CASE OpenPage(m)
  <2> DEFINE c == [Idle EXCEPT !.pc = "asked", !.expected = Cardinality(Tentative)]
  <2>1. c \in Calls /\ c.role = "page" /\ c.pc = "asked"
    BY <1>c, TentativeFits DEF Idle, Calls
  <2>2. mover' = [mover EXCEPT ![m] = c]
    BY <1>1 DEF OpenPage, Mover
  <2> HIDE DEF c
  <2>3. QED
    BY <1>s, <2>1, <2>2
<1>2. CASE LockForAuto(m) \/ AllocatorCheck(m)
  <2>1. PICK pc \in {"asked", "checked"} : mover' = [mover EXCEPT ![m].pc = pc]
    BY <1>2 DEF LockForAuto, AllocatorCheck, Step
  <2>2. [mover[m] EXCEPT !.pc = pc] \in Calls
    BY <1>t DEF Calls
  <2>3. mover' = [mover EXCEPT ![m] = [mover[m] EXCEPT !.pc = pc]]
    BY <1>t, <2>1
  <2>4. QED
    BY <1>s, <1>t, <2>2, <2>3 DEF Calls
<1>3. CASE Abandon(m) \/ Close(m)
  BY <1>3, <1>l DEF Abandon, Close
<1>4. ASSUME NEW p \in Proposals, Accept(m, p) \/ AutoConfirm(m, p)
      PROVE  /\ mover' \in [Movers -> Calls]
             /\ \A n \in Movers \ {m} : mover'[n] = mover[n]
             /\ mover'[m].of = p /\ mover'[m].pc \in {"asked", "seen"}
             /\ IsOpen(p) /\ proposal' = proposal
  <2>1. PICK pc \in {"asked", "seen"}, role \in {"accept", "auto"} :
           mover' = [mover EXCEPT ![m] = [Idle EXCEPT !.pc = pc, !.role = role, !.of = p]]
    BY <1>4 DEF Accept, AutoConfirm, Mover
  <2> DEFINE c == [Idle EXCEPT !.pc = pc, !.role = role, !.of = p]
  <2>2. c \in Calls /\ c.pc = pc /\ c.of = p
    BY <1>t DEF Idle, Calls
  <2>3. mover' = [mover EXCEPT ![m] = c]
    BY <2>1
  <2> HIDE DEF c
  <2>4. QED
    BY <1>4, <1>s, <2>2, <2>3 DEF Accept, AutoConfirm
<1>5. CASE AllocatorRead(m)
  <2> DEFINE c == [mover[m] EXCEPT !.pc = "read", !.resched = Tentative # {},
                      !.fresh = NotYetAllocated, !.ids = Released, !.count = Required]
  <2>1. c \in Calls /\ c.role = mover[m].role /\ c.of = mover[m].of /\ c.pc = "read"
    <3>1. Required \in 0 .. MaxRows /\ NotYetAllocated \in BOOLEAN
          /\ (Tentative # {}) \in BOOLEAN /\ Released \in SUBSET Rows
      BY RequiredFits, ChosenRows DEF NotYetAllocated
    <3>2. QED
      BY <1>t, <3>1 DEF Calls
  <2>2. mover' = [mover EXCEPT ![m] = c]
    BY <1>5 DEF AllocatorRead, Mover
  <2> HIDE DEF c
  <2>3. QED
    BY <1>s, <2>1, <2>2
<1>6. CASE AllocatorFind(m) \/ AllocatorClear(m)
  <2>1. PICK pc \in {"found", "cleared"}, rs \in SUBSET Rows :
           mover' = [mover EXCEPT ![m] = [mover[m] EXCEPT !.pc = pc, !.rows = rs]]
    <3>1. Found(m) \in SUBSET Rows /\ Doomed(m) \in SUBSET Rows
      BY <1>t, ChosenRows DEF Found, Doomed, Calls
    <3>2. QED
      BY <1>6, <3>1 DEF AllocatorFind, AllocatorClear, Mover
  <2>2. [mover[m] EXCEPT !.pc = pc, !.rows = rs] \in Calls
    BY <1>t DEF Calls
  <2>3. QED
    BY <1>s, <1>t, <2>1, <2>2 DEF Calls
<1>7. CASE AllocatorCommit(m)
  <2>1. CASE Page(m)
    BY <1>7, <2>1, <1>l DEF AllocatorCommit
  <2>2. CASE ~Page(m)
    BY <1>7, <2>2, <1>l DEF AllocatorCommit, Page
  <2>3. QED
    BY <2>1, <2>2
<1>8. QED
  BY <1>1, <1>2, <1>3, <1>4, <1>5, <1>6, <1>7 DEF Moves

\* Every step preserves the types.
LEMMA TypesArePreserved ==
  ASSUME TypeOK, Named, [Next]_vars
  PROVE  TypeOK'
<1> USE ChosenRows DEF sessions, calls, hist, OnlyMovers
<1>n. NoCall \in Routes /\ NoCall.at = Checkout
  BY DEF NoCall, Routes
<1>r. ASSUME Release,
             proposal' \in [Proposals -> Requests],
             kind = "consultation" => \A p \in Proposals : proposal'[p].at = Checkout
      PROVE  TypeOK'
  <2>1. Turning \in SUBSET Rows /\ \A r \in Turning : row[r] # "none"
    BY TurningStands
  <2>2. row' = Turned(Turning, "released")
    BY <1>r DEF Release, Turning
  <2>3. /\ row' \in [Rows -> RowStatuses]
        /\ \A r \in Rows : row'[r] = "none" <=> r > made
    BY <2>1, <2>2, TurnedTypes DEF RowStatuses
  <2>4. booking' \in Statuses /\ aged' \in BOOLEAN /\ crossed' \subseteq {"withdrawal", "release"}
    BY <1>r DEF Release, TypeOK, Statuses
  <2>5. QED
    BY <1>r, <1>n, <2>3, <2>4 DEF Release, TypeOK
<1>a. ASSUME NEW p \in Proposals, NEW s \in {"PENDING_REVIEW", "deleted"} \cup Answers
      PROVE  TypeOK => /\ Answered(p, s) \in [Proposals -> Requests]
                       /\ kind = "consultation" =>
                            \A q \in Proposals : Answered(p, s)[q].at = Checkout
  BY DEF Answered, TypeOK, Requests
<1>1. CASE GiveUp
  BY <1>1, <1>r DEF GiveUp, TypeOK
<1>2. ASSUME NEW p \in Proposals, NEW asks \in Asks, Propose(p, asks)
      PROVE  TypeOK'
  <2>1. /\ route.at \in {Checkout} \cup Rows /\ route.seen \in SUBSET Rows
        /\ kind = "consultation" => route.at = Checkout
    BY DEF TypeOK, Routes
  <2>2. proposal' \in [Proposals -> Requests]
    BY <1>2, <2>1 DEF Propose, TypeOK, Requests
  <2>3. kind = "consultation" => \A q \in Proposals : proposal'[q].at = Checkout
    BY <1>2, <2>1 DEF Propose, TypeOK
  <2>4. QED
    BY <1>2, <1>r, <2>2, <2>3 DEF Propose
<1>22. ASSUME NEW at \in Appointments, NEW whole \in BOOLEAN, NEW rs \in Choices(at, whole),
              RescheduleRead(at, whole, rs)
       PROVE  TypeOK'
  <2>1. at \in {Checkout} \cup Rows /\ (kind = "consultation" => at = Checkout)
    BY DEF Appointments, Home
  <2>2. rs \in SUBSET Rows
    BY ReadRows
  <2>3. route' \in Routes /\ route'.at = at
    BY <1>22, <2>1, <2>2 DEF RescheduleRead, Routes
  <2>4. releases' \in 0 .. MaxReleases[kind]
    <3>1. MaxReleases[kind] \in Nat
      BY RescheduleAssumption DEF TypeOK
    <3>2. QED
      BY <1>22, <3>1 DEF RescheduleRead, TypeOK
  <2>5. QED
    BY <1>22, <2>1, <2>3, <2>4 DEF RescheduleRead, TypeOK
<1>23. CASE ReleaseWaits
  <2>1. Matched \in SUBSET Rows
    BY DEF Matched
  <2>2. route' \in Routes /\ route'.at = route.at
    BY <1>23, <2>1 DEF ReleaseWaits, TypeOK, Routes
  <2>3. QED
    BY <1>23, <2>2 DEF ReleaseWaits, TypeOK
<1>24. CASE RescheduleFails
  BY <1>24, <1>n DEF RescheduleFails, TypeOK
<1>3. ASSUME NEW p \in Proposals, Withdraw(p) PROVE TypeOK'
  <2> DEFINE back == proposal[p].named \cap Released
  <2>1. back \in SUBSET Rows /\ \A r \in back : row[r] # "none"
    OBVIOUS
  <2>2. row' = Turned(back, "live")
    BY <1>3 DEF Withdraw
  <2> HIDE DEF back
  <2>3. /\ row' \in [Rows -> RowStatuses]
        /\ \A r \in Rows : row'[r] = "none" <=> r > made
    BY <2>1, <2>2, TurnedTypes DEF RowStatuses
  <2>4. booking' \in Statuses /\ crossed' \subseteq {"withdrawal", "release"}
    BY <1>3 DEF Withdraw, TypeOK, Statuses
  <2>5. /\ proposal' \in [Proposals -> Requests]
        /\ kind = "consultation" => \A q \in Proposals : proposal'[q].at = Checkout
    BY <1>3, <1>a DEF Withdraw, Answers
  <2>6. QED
    BY <1>3, <2>3, <2>4, <2>5 DEF Withdraw, TypeOK
<1>4. ASSUME NEW p \in Proposals, Decline(p) PROVE TypeOK'
  BY <1>4, <1>a DEF Decline, TypeOK, Answers
<1>5. ASSUME NEW a, Cancel(a) PROVE TypeOK'
  <2>1. /\ row' \in [Rows -> RowStatuses]
        /\ \A r \in Rows : row'[r] = "none" <=> r > made
    BY <1>5, TurnedTypes DEF Cancel, RowStatuses
  <2>2. /\ proposal' \in [Proposals -> Requests]
        /\ \A p \in Proposals : proposal'[p].at = proposal[p].at
    BY <1>5 DEF Cancel, TypeOK, Requests, Answers
  <2>3. QED
    BY <1>5, <2>1, <2>2 DEF Cancel, TypeOK, Statuses
<1>6. ASSUME NEW m \in Movers, Moves(m) PROVE TypeOK'
  <2>1. /\ mover' \in [Movers -> Calls]
        /\ \A n \in Movers : mover'[n].role # "page" => mover'[n].of \in Proposals
    BY <1>6, MoverSteps DEF TypeOK
  <2>2. CASE AllocatorCommit(m)
    <3>1. \A p \in Proposals :
             Superseded(m, p) \in {"none", "PENDING_REVIEW", "deleted"} \cup Answers
      BY DEF Superseded, TypeOK, Requests, Answers
    <3>2. /\ proposal' \in [Proposals -> Requests]
          /\ \A p \in Proposals : proposal'[p].at = proposal[p].at
      BY <2>2, <3>1 DEF AllocatorCommit, TypeOK, Requests
    <3>3. QED
      BY <2>1, <2>2, <3>2, PlacementTypes DEF AllocatorCommit, TypeOK, Statuses
  <2>3. CASE Close(m)
    <3>1. mover[m].of \in Proposals
      BY <2>3 DEF Close, Named, TypeOK
    <3>2. /\ proposal' \in [Proposals -> Requests]
          /\ kind = "consultation" => \A p \in Proposals : proposal'[p].at = Checkout
      <4>1. CASE IsOpen(mover[m].of)
        BY <2>3, <3>1, <4>1, <1>a DEF Close, Confirmation, Answers
      <4>2. CASE ~IsOpen(mover[m].of)
        BY <2>3, <4>2 DEF Close, TypeOK
      <4>3. QED
        BY <4>1, <4>2
    <3>3. failed' \subseteq Proposals
      BY <2>3, <3>1 DEF Close, TypeOK
    <3>4. QED
      BY <2>1, <2>3, <3>2, <3>3 DEF Close, TypeOK
  <2>4. CASE ~AllocatorCommit(m) /\ ~Close(m)
    <3>1. UNCHANGED <<kind, booking, aged, made, row, proposal, lapsed, route, releases, listed,
                      failed, granted, crossed>>
      BY <1>6, <2>4 DEF Moves, OpenPage, LockForAuto, Abandon, Accept, AutoConfirm,
         AllocatorRead, AllocatorCheck, AllocatorFind, AllocatorClear
    <3>2. QED
      BY <2>1, <3>1 DEF TypeOK
  <2>5. QED
    BY <2>2, <2>3, <2>4
<1>14. CASE Age
  BY <1>14 DEF Age, TypeOK
<1>15. CASE ExpireProposals
  <2>1. /\ proposal' \in [Proposals -> Requests]
        /\ \A p \in Proposals : proposal'[p].at = proposal[p].at
    BY <1>15 DEF ExpireProposals, TypeOK, Requests, Answers
  <2>2. QED
    BY <1>15, <2>1 DEF ExpireProposals, TypeOK
<1>16. CASE ExpirePending
  <2>1. /\ Turned(Tentative, "dropped") \in [Rows -> RowStatuses]
        /\ \A r \in Rows : Turned(Tentative, "dropped")[r] = "none" <=> r > made
    BY TurnedTypes DEF RowStatuses
  <2>2. QED
    BY <1>16, <2>1 DEF ExpirePending, TypeOK, Statuses
<1>17. CASE ExpireUnallocated \/ ListStale \/ SkipListed
  BY <1>17 DEF ExpireUnallocated, ListStale, SkipListed, TypeOK, Statuses
<1>18. ASSUME NEW p \in Proposals, Lapse(p) PROVE TypeOK'
  BY <1>18 DEF Lapse, TypeOK
<1>19. ASSUME NEW r \in Rows, ReleaseStale(r) PROVE TypeOK'
  <2>1. {r} \in SUBSET Rows /\ \A q \in {r} : row[q] # "none"
    BY <1>19 DEF ReleaseStale, Released, RowsIn
  <2>2. /\ row' \in [Rows -> RowStatuses]
        /\ \A q \in Rows : row'[q] = "none" <=> q > made
    BY <1>19, <2>1, TurnedTypes DEF ReleaseStale, RowStatuses
  <2>3. QED
    BY <1>19, <2>2 DEF ReleaseStale, TypeOK
<1>20. CASE UNCHANGED vars
  BY <1>20 DEF vars, TypeOK
<1>21. QED
  BY <1>1, <1>2, <1>22, <1>23, <1>24, <1>3, <1>4, <1>5, <1>6, <1>14, <1>15, <1>16, <1>17,
     <1>18, <1>19, <1>20 DEF Next, Parties, Reschedule, Jobs

----------------------------------------------------------------------------
(* The session of a consultation. *)

\* A placement for a consultation makes one firm session, and deletes every other
\* unless a withdrawal has crossed an allocation.
LEMMA PlacementReplaces ==
  ASSUME TypeOK, NoneIsDropped, Readers, Named,
         kind = "consultation", NEW m \in Movers, AllocatorCommit(m)
  PROVE  /\ Alive /\ made' = made + 1 /\ made + 1 \in Rows /\ row'[made + 1] = "live"
         /\ \A r \in Rows : r # made + 1 => row'[r] = IF r \in mover[m].rows THEN "gone" ELSE row[r]
         /\ Calm => \A r \in Rows : row'[r] = IF r <= made THEN "gone"
                                             ELSE IF r = made + 1 THEN "live" ELSE "none"
<1>1. Alive /\ mover[m].count = 1 /\ made' = made + 1 /\ made + 1 <= MaxRows
  BY DEF AllocatorCommit, Readers, Approvable, Alive, Writing, Inside
<1>2. made \in Nat /\ MaxRows \in Nat
  BY RescheduleAssumption DEF TypeOK
<1>3. \A r \in Rows : r \in Nat /\ (r > made /\ r <= made' <=> r = made + 1)
  BY <1>1, <1>2 DEF Rows
<1>4. \A r \in Rows : row'[r] = IF r = made + 1 THEN "live"
                               ELSE IF r \in mover[m].rows THEN "gone" ELSE row[r]
  BY <1>3, PlacementTypes
<1>5. made + 1 \in Rows
  BY <1>1, <1>2 DEF Rows
<1>6. \A r \in Rows : row[r] \in RowStatuses /\ (row[r] = "none" <=> r > made)
  BY DEF TypeOK
<1>7. ASSUME Calm, NEW r \in Rows
      PROVE  row'[r] = IF r <= made THEN "gone" ELSE IF r = made + 1 THEN "live" ELSE "none"
  <2>1. Standing \subseteq mover[m].rows
    BY <1>1, <1>7 DEF Readers, AllocatorCommit
  <2>2. row[r] \in {"held", "live", "released"} => r \in mover[m].rows
    BY <2>1 DEF Standing, RowsIn
  <2>3. row[r] # "dropped"
    BY <1>1 DEF NoneIsDropped, RowsIn
  <2>4. r \in mover[m].rows => r <= made
    BY DEF Named
  <2>5. CASE r <= made
    BY <1>2, <1>3, <1>4, <1>6, <2>2, <2>3, <2>5 DEF RowStatuses
  <2>6. CASE r > made
    BY <1>2, <1>3, <1>4, <1>6, <2>4, <2>6
  <2>7. QED
    BY <1>2, <1>3, <2>5, <2>6
<1>8. QED
  BY <1>1, <1>4, <1>5, <1>7

\* A reschedule of a consultation that has not waited releases all that stands.
LEMMA ReleaseReleases ==
  ASSUME TypeOK, Routing, Release
  PROVE  /\ \A r \in Rows : row'[r] = IF r \in Turning THEN "released" ELSE row[r]
         /\ Turning \subseteq Standing /\ Standing' = Standing /\ Live' \subseteq Live
         /\ Kept' = Kept /\ RowsIn({"dropped"})' = RowsIn({"dropped"})
         /\ kind = "consultation" => booking' = "PENDING"
         /\ kind = "consultation" /\ route.pc = "read" => Turning = Standing /\ Live' = {}
<1>1. \A r \in Rows : row'[r] = IF r \in Turning THEN "released" ELSE row[r]
  BY DEF Release, Turned, Turning
<1>2. Turning \subseteq Standing
  BY TurningStands
<1>3. \A r \in Turning : row[r] \in {"held", "live", "released"}
  BY <1>2 DEF Standing, RowsIn
<1>4. Standing' = Standing /\ Live' \subseteq Live
  BY <1>1, <1>3 DEF Standing, Live, RowsIn
<1>5. Kept' = Kept /\ RowsIn({"dropped"})' = RowsIn({"dropped"})
  BY <1>1, <1>3 DEF Kept, RowsIn, RowStatuses
<1>6. kind = "consultation" => route.whole
  BY DEF Routing, Release
<1>7. kind = "consultation" => booking' = "PENDING"
  BY <1>6 DEF Release
<1>8. ASSUME kind = "consultation", route.pc = "read" PROVE Turning = Standing /\ Live' = {}
  <2>1. Turning = Standing
    BY <1>6, <1>8 DEF Turning, Matched
  <2>2. QED
    BY <1>1, <2>1 DEF Standing, Live, RowsIn
<1>9. QED
  BY <1>1, <1>2, <1>4, <1>5, <1>7, <1>8

\* A withdrawal makes released rows firm and writes no other.
LEMMA WithdrawRestores ==
  ASSUME NEW p \in Proposals, Withdraw(p)
  PROVE  /\ \A r \in Rows : row'[r] = IF r \in proposal[p].named \cap Released
                                      THEN "live" ELSE row[r]
         /\ Standing' = Standing /\ Kept' = Kept
         /\ RowsIn({"dropped"})' = RowsIn({"dropped"})
         /\ (\E m \in Movers : Inside(m)) => ~Calm'
<1>1. \A r \in Rows : row'[r] = IF r \in proposal[p].named \cap Released THEN "live" ELSE row[r]
  BY DEF Withdraw, Turned
<1>2. \A r \in Rows : r \in Released <=> row[r] = "released"
  BY DEF Released, RowsIn
<1>3. Standing' = Standing /\ RowsIn({"dropped"})' = RowsIn({"dropped"})
  BY <1>1, <1>2 DEF Standing, RowsIn
<1>4. Kept' = Kept
  BY <1>1, <1>2 DEF Kept, RowsIn, RowStatuses
<1>5. (\E m \in Movers : Inside(m)) => ~Calm'
  BY DEF Withdraw, Calm
<1>6. QED
  BY <1>1, <1>3, <1>4, <1>5

\* Every step keeps the session of a consultation and the nothing of a cancelled
\* booking.
LEMMA SessionsAreKept ==
  ASSUME IInv, [Next]_vars
  PROVE  ConsultationKeepsItsSession' /\ CancelledHoldsNothing' /\ NoneIsDropped'
<1> USE DEF sessions, hist, IInv
<1> DEFINE Safe == ConsultationKeepsItsSession' /\ CancelledHoldsNothing' /\ NoneIsDropped'
<1>t. /\ row \in [Rows -> RowStatuses] /\ booking \in Statuses
      /\ kind \in Kinds /\ crossed \subseteq crossed'
  BY OverIsOver DEF TypeOK
<1>1. CASE Release
  <2>1. /\ booking \in {"PENDING", "APPROVED"} /\ booking' \in {"PENDING", "APPROVED"}
        /\ kind' = kind
        /\ "release" \notin crossed' => route.pc = "read"
    BY <1>1 DEF Release
  <2>2. Standing' = Standing /\ RowsIn({"dropped"})' = RowsIn({"dropped"})
    BY <1>1, ReleaseReleases
  <2>3. kind = "consultation" /\ "release" \notin crossed' => Live' = {}
    BY <1>1, <2>1, ReleaseReleases
  <2>4. ConsultationKeepsItsSession'
    BY <1>t, <2>1, <2>2, <2>3 DEF ConsultationKeepsItsSession
  <2>5. CancelledHoldsNothing' /\ NoneIsDropped'
    BY <2>1, <2>2 DEF CancelledHoldsNothing, NoneIsDropped, Alive
  <2>6. QED
    BY <2>4, <2>5
<1>2. ASSUME NEW p \in Proposals, Withdraw(p) PROVE Safe
  <2>1. Standing' = Standing /\ RowsIn({"dropped"})' = RowsIn({"dropped"})
    BY <1>2, WithdrawRestores
  <2>2. /\ kind' = kind /\ (kind = "consultation" => booking = "PENDING" /\ booking' = "APPROVED")
        /\ booking' = "CANCELLED" => booking = "CANCELLED"
    BY <1>2 DEF Withdraw, Restores
  <2>3. ConsultationKeepsItsSession'
    BY <1>t, <2>1, <2>2 DEF ConsultationKeepsItsSession
  <2>4. CancelledHoldsNothing' /\ NoneIsDropped'
    BY <2>1, <2>2 DEF CancelledHoldsNothing, NoneIsDropped, Alive
  <2>5. QED
    BY <2>3, <2>4
<1>3. ASSUME NEW a, Cancel(a) PROVE Safe
  <2>1. \A r \in Rows : row'[r] = IF r \in Standing THEN "dropped" ELSE row[r]
    BY <1>3 DEF Cancel, Turned
  <2>2. Standing' = {}
    BY <1>t, <2>1 DEF Standing, RowsIn
  <2>3. QED
    BY <1>3, <2>2 DEF Cancel, ConsultationKeepsItsSession, CancelledHoldsNothing, NoneIsDropped,
       Alive
<1>4. ASSUME NEW m \in Movers, AllocatorCommit(m) PROVE Safe
  <2>1. booking' = "APPROVED" /\ kind' = kind /\ crossed' = crossed
    BY <1>4 DEF AllocatorCommit
  <2>2. CASE kind = "consultation"
    <3>1. /\ Alive /\ made + 1 \in Rows /\ row'[made + 1] = "live"
          /\ \A r \in Rows : r # made + 1 =>
                row'[r] = IF r \in mover[m].rows THEN "gone" ELSE row[r]
          /\ Calm => \A r \in Rows : row'[r] = IF r <= made THEN "gone"
                                              ELSE IF r = made + 1 THEN "live" ELSE "none"
      BY <1>4, <2>2, PlacementReplaces
    <3>2. made \in Nat
      BY DEF TypeOK
    <3>3. made + 1 \in Standing'
      BY <3>1 DEF Standing, RowsIn
    <3>4. Calm => Standing' = {made + 1}
      BY <3>1, <3>2 DEF Standing, RowsIn
    <3>5. RowsIn({"dropped"})' = {}
      BY <3>1 DEF NoneIsDropped, RowsIn
    <3>6. ConsultationKeepsItsSession'
      BY <2>1, <3>1, <3>3, <3>4 DEF ConsultationKeepsItsSession, Calm
    <3>7. QED
      BY <2>1, <3>5, <3>6 DEF CancelledHoldsNothing, NoneIsDropped
  <2>3. CASE kind # "consultation"
    BY <2>1, <2>3 DEF ConsultationKeepsItsSession, CancelledHoldsNothing, NoneIsDropped, Alive
  <2>4. QED
    BY <2>2, <2>3
<1>5. CASE ExpirePending
  <2>1. booking = "PENDING" /\ booking' = "EXPIRED" /\ kind' = kind /\ crossed' = crossed
    BY <1>5 DEF ExpirePending
  <2>2. CASE kind = "consultation"
    <3>1. \A r \in Rows : row'[r] = IF r \in Tentative THEN "dropped" ELSE row[r]
      BY <1>5, <2>2 DEF ExpirePending, Turned
    <3>2. "release" \notin crossed => Live = {}
      BY <2>1, <2>2 DEF ConsultationKeepsItsSession
    <3>3. "release" \notin crossed => Standing' = {}
      BY <1>t, <3>1, <3>2 DEF Standing, Tentative, Live, RowsIn
    <3>4. QED
      BY <2>1, <3>3 DEF ConsultationKeepsItsSession, CancelledHoldsNothing, NoneIsDropped, Alive
  <2>3. CASE kind # "consultation"
    BY <2>1, <2>3 DEF ConsultationKeepsItsSession, CancelledHoldsNothing, NoneIsDropped, Alive
  <2>4. QED
    BY <2>2, <2>3
<1>6. CASE kind = "subscription" /\ (ExpireUnallocated \/ \E r \in Rows : ReleaseStale(r))
  BY <1>6 DEF ExpireUnallocated, ReleaseStale, ConsultationKeepsItsSession,
     CancelledHoldsNothing, NoneIsDropped, Alive
<1>7. CASE UNCHANGED <<kind, booking, row, crossed>>
  BY <1>7 DEF ConsultationKeepsItsSession, CancelledHoldsNothing, NoneIsDropped, Alive,
     Standing, Live, RowsIn
<1>8. QED
  BY <1>1, <1>2, <1>3, <1>4, <1>5, <1>6, <1>7, Steps

----------------------------------------------------------------------------
(* The calls to the allocator. *)

\* At most one mover moves; it enters the allocator only by the read, and leaves
\* what it has read alone until it is through.
LEMMA Movement ==
  ASSUME TypeOK, [Next]_vars
  PROVE  \/ mover' = mover
         \/ \E m \in Movers : Moves(m) /\ \A n \in Movers \ {m} : mover'[n] = mover[n]
<1>1. \/ mover' = mover
      \/ \E m \in Movers : Moves(m)
  <2>1. \A m \in Movers : AllocatorCommit(m) => Moves(m)
    BY DEF Moves
  <2>2. CASE kind = "subscription" /\ (ExpireUnallocated \/ \E r \in Rows : ReleaseStale(r))
    BY <2>2 DEF ExpireUnallocated, ReleaseStale, calls
  <2>3. QED
    BY <2>1, <2>2, Steps
<1>2. QED
  BY <1>1, MoverSteps

Same(m) ==
  /\ mover'[m].resched = mover[m].resched /\ mover'[m].fresh = mover[m].fresh
  /\ mover'[m].count = mover[m].count

LEMMA Phases ==
  ASSUME TypeOK, NEW m \in Movers, Moves(m)
  PROVE  /\ mover'[m].pc = "asked" => mover[m].pc \in {"idle", "seen"}
         /\ \/ ~Writing(m)' /\ mover'[m].rows \in {mover[m].rows, {}}
            \/ /\ AllocatorRead(m) /\ mover'[m].pc = "read"
               /\ mover'[m].resched = (Tentative # {}) /\ mover'[m].fresh = NotYetAllocated
               /\ mover'[m].count = Required /\ mover'[m].rows = mover[m].rows
            \/ /\ AllocatorCheck(m) /\ mover'[m].pc = "checked" /\ Same(m)
               /\ mover'[m].rows = mover[m].rows
            \/ /\ AllocatorFind(m) /\ mover'[m].pc = "found" /\ Same(m)
               /\ mover'[m].rows = Found(m)
            \/ /\ AllocatorClear(m) /\ mover'[m].pc = "cleared" /\ Same(m)
               /\ mover'[m].rows = Doomed(m)
<1>t. mover \in [Movers -> Calls] /\ mover[m] \in Calls
  BY DEF TypeOK
<1>s. \A c : mover' = [mover EXCEPT ![m] = c] => mover'[m] = c
  BY <1>t
<1>l. \A pc : Leave(m, pc) => mover'[m].pc = pc /\ mover'[m].rows = {}
  BY <1>t DEF Leave, Mover, Idle
<1>1. CASE OpenPage(m) \/ \E p \in Proposals : Accept(m, p) \/ AutoConfirm(m, p)
  <2>1. mover[m].pc = "idle" /\ mover'[m].pc \in {"asked", "seen"} /\ mover'[m].rows = {}
    BY <1>1, <1>t DEF OpenPage, Accept, AutoConfirm, Mover, Idle
  <2>2. QED
    BY <2>1 DEF Writing, Inside
<1>2. CASE LockForAuto(m)
  <2>1. /\ mover[m].pc = "seen" /\ mover'[m].pc = "asked"
        /\ mover'[m].rows = mover[m].rows
    BY <1>2, <1>t DEF LockForAuto, Step, Calls
  <2>2. QED
    BY <2>1 DEF Writing, Inside
<1>3. CASE Abandon(m) \/ AllocatorCommit(m) \/ Close(m)
  <2>1. mover'[m].pc \in {"over", "placed"} /\ mover'[m].rows = {}
    BY <1>3, <1>l DEF Abandon, AllocatorCommit, Close
  <2>2. QED
    BY <2>1 DEF Writing, Inside
<1>4. CASE AllocatorRead(m)
  <2> DEFINE c == [mover[m] EXCEPT !.pc = "read", !.resched = Tentative # {},
                      !.fresh = NotYetAllocated, !.ids = Released, !.count = Required]
  <2>1. /\ c.pc = "read" /\ c.resched = (Tentative # {}) /\ c.fresh = NotYetAllocated
        /\ c.count = Required /\ c.rows = mover[m].rows
    BY <1>t DEF Calls
  <2>2. mover' = [mover EXCEPT ![m] = c]
    BY <1>4 DEF AllocatorRead, Mover
  <2> HIDE DEF c
  <2>3. QED
    BY <1>4, <1>s, <2>1, <2>2
<1>5. CASE AllocatorCheck(m)
  <2>1. mover'[m].pc = "checked" /\ Same(m) /\ mover'[m].rows = mover[m].rows
    BY <1>5, <1>t DEF AllocatorCheck, Step, Calls, Same
  <2>2. QED
    BY <1>5, <2>1
<1>6. CASE AllocatorFind(m)
  <2>1. mover'[m].pc = "found" /\ Same(m) /\ mover'[m].rows = Found(m)
    BY <1>6, <1>t DEF AllocatorFind, Mover, Calls, Same
  <2>2. QED
    BY <1>6, <2>1
<1>7. CASE AllocatorClear(m)
  <2>1. mover'[m].pc = "cleared" /\ Same(m) /\ mover'[m].rows = Doomed(m)
    BY <1>7, <1>t DEF AllocatorClear, Mover, Calls, Same
  <2>2. QED
    BY <1>7, <2>1
<1>8. QED
  BY <1>1, <1>2, <1>3, <1>4, <1>5, <1>6, <1>7 DEF Moves

\* The booking lock is held by one call.
LEMMA OneWriterStays ==
  ASSUME TypeOK, OneWriter, [Next]_vars
  PROVE  OneWriter'
<1>1. CASE mover' = mover
  BY <1>1 DEF OneWriter, Writing, Inside
<1>2. ASSUME NEW m \in Movers, Moves(m), \A n \in Movers \ {m} : mover'[n] = mover[n]
      PROVE  OneWriter'
  <2>1. \A n \in Movers \ {m} : Writing(n)' => Writing(n)
    BY <1>2 DEF Writing, Inside
  <2>2. Writing(m)' => Writing(m) \/ \A n \in Movers : ~Writing(n)
    BY <1>2, Phases DEF AllocatorRead, AllocatorCheck, AllocatorFind, AllocatorClear, Writing, Inside
  <2>3. QED
    BY <2>1, <2>2 DEF OneWriter
<1>3. QED
  BY <1>1, <1>2, Movement

\* While no allocation of a consultation commits, what stands is at most what
\* stood, and no released row is made firm under an allocation, unless a
\* withdrawal crosses it.
LEMMA RowsBetweenCommits ==
  ASSUME TypeOK, Routing, [Next]_vars, kind = "consultation",
         \A m \in Movers : ~AllocatorCommit(m)
  PROVE  /\ Kept' = Kept /\ Standing' \subseteq Standing
         /\ Calm' /\ (\E m \in Movers : Inside(m)) => Live' \subseteq Live
         /\ \A r \in Rows : row[r] = "gone" <=> row'[r] = "gone"
         /\ Alive' => \A r \in Rows :
               row'[r] = row[r] \/ (row[r] \in {"held", "live", "released"}
                                    /\ row'[r] \in {"live", "released"})
<1>t. row \in [Rows -> RowStatuses]
  BY DEF TypeOK
<1> DEFINE Goal == /\ Kept' = Kept /\ Standing' \subseteq Standing
                   /\ Calm' /\ (\E m \in Movers : Inside(m)) => Live' \subseteq Live
                   /\ \A r \in Rows : row[r] = "gone" <=> row'[r] = "gone"
                   /\ Alive' => \A r \in Rows :
                         row'[r] = row[r] \/ (row[r] \in {"held", "live", "released"}
                                              /\ row'[r] \in {"live", "released"})
<1>1. CASE Release
  <2>1. \A r \in Turning : row[r] \in {"held", "live", "released"}
    BY TurningStands DEF Standing, RowsIn
  <2>2. QED
    BY <1>1, <2>1, ReleaseReleases
<1>2. ASSUME NEW p \in Proposals, Withdraw(p) PROVE Goal
  <2>1. \A r \in Released : row[r] = "released"
    BY DEF Released, RowsIn
  <2>2. QED
    BY <1>2, <2>1, WithdrawRestores
<1>3. ASSUME NEW rs \in SUBSET Kept, ~Alive',
             \A r \in Rows : row'[r] = IF r \in rs THEN "dropped" ELSE row[r]
      PROVE  Goal
  <2>1. \A r \in rs : row[r] \notin {"none", "gone"}
    BY DEF Kept, RowsIn
  <2>2. Kept' = Kept /\ Standing' \subseteq Standing /\ Live' \subseteq Live
    BY <1>t, <1>3, <2>1 DEF Kept, Standing, Live, RowsIn, RowStatuses
  <2>3. QED
    BY <1>3, <2>1, <2>2
<1>4. ASSUME NEW a, Cancel(a) PROVE Goal
  <2>1. Standing \subseteq Kept
    BY DEF Standing, Kept, RowsIn, RowStatuses
  <2>2. ~Alive' /\ \A r \in Rows : row'[r] = IF r \in Standing THEN "dropped" ELSE row[r]
    BY <1>4 DEF Cancel, Turned, Alive
  <2>3. QED
    BY <1>3, <2>1, <2>2
<1>5. CASE ExpirePending
  <2>1. Tentative \subseteq Kept
    BY DEF Tentative, Kept, RowsIn, RowStatuses
  <2>2. ~Alive' /\ \A r \in Rows : row'[r] = IF r \in Tentative THEN "dropped" ELSE row[r]
    BY <1>5 DEF ExpirePending, Turned, Alive
  <2>3. QED
    BY <1>3, <2>1, <2>2
<1>6. CASE UNCHANGED <<kind, booking, made, row, crossed>>
  BY <1>6 DEF Kept, Standing, Live, RowsIn
<1>7. QED
  BY <1>1, <1>2, <1>4, <1>5, <1>6, Steps

\* An allocator of a consultation that saw it tentative sees it fresh.
LEMMA TentativeIsFresh ==
  ASSUME TypeOK, ConsultationKeepsItsSession, NoneIsDropped, Alive, Calm, Tentative # {}
  PROVE  Live = {}
<1>1. PICK s \in Rows : Standing = {s}
  BY DEF ConsultationKeepsItsSession, Alive, Calm
<1>2. Tentative \subseteq {s}
  BY <1>1 DEF NoneIsDropped, Tentative, Standing, RowsIn
<1>3. s \in Tentative
  BY <1>2
<1>4. Live \subseteq {s}
  BY <1>1 DEF Live, Standing, RowsIn
<1>5. s \notin Live
  BY <1>3 DEF Tentative, Live, RowsIn
<1>6. QED
  BY <1>4, <1>5

\* What an allocator of a consultation has read stays good.
LEMMA ReadersStay ==
  ASSUME IInv, [Next]_vars
  PROVE  Readers'
<1> USE DEF IInv
<1>o. kind' = kind /\ (Alive' => Alive) /\ (Calm' => Calm)
  BY OverIsOver DEF Calm
<1> SUFFICES ASSUME kind = "consultation", NEW m \in Movers
             PROVE  /\ Writing(m)' => mover'[m].count = 1
                    /\ Writing(m)' /\ mover'[m].resched /\ Alive' /\ Calm' => mover'[m].fresh
                    /\ mover'[m].pc \in {"checked", "found"} /\ mover'[m].resched /\ Alive' /\ Calm'
                       => Live' = {}
                    /\ mover'[m].pc \in {"found", "cleared"} /\ ~mover'[m].resched
                       => Kept' \subseteq mover'[m].rows
                    /\ mover'[m].pc = "cleared" /\ Alive' /\ Calm' => Standing' \subseteq mover'[m].rows
  BY <1>o DEF Readers
<1>1. CASE \E n \in Movers : AllocatorCommit(n)
  <2>1. PICK n \in Movers : AllocatorCommit(n)
    BY <1>1
  <2>2. ~Writing(n)' /\ \A k \in Movers \ {n} : mover'[k] = mover[k]
    <3>1. Moves(n)
      BY <2>1 DEF Moves
    <3>2. mover'[n].pc \in {"over", "placed"}
      BY <2>1 DEF AllocatorCommit, Leave, Mover, Idle, TypeOK
    <3>3. QED
      BY <3>1, <3>2, MoverSteps DEF Writing, Inside
  <2>3. \A k \in Movers \ {n} : ~Writing(k)
    BY <2>1 DEF OneWriter, Writing, Inside, AllocatorCommit
  <2>4. ~Writing(m)'
    BY <2>2, <2>3 DEF Writing, Inside
  <2>5. QED
    BY <2>4 DEF Writing, Inside
<1>2. CASE \A n \in Movers : ~AllocatorCommit(n)
  <2>k. /\ Kept' = Kept /\ Standing' \subseteq Standing
        /\ Calm' /\ Inside(m) => Live' \subseteq Live
    BY <1>2, RowsBetweenCommits
  <2>1. CASE mover'[m] = mover[m]
    BY <1>o, <2>k, <2>1 DEF Readers, Writing, Inside
  <2>2. CASE mover'[m] # mover[m]
    <3>1. Moves(m)
      BY <2>2, Movement
    <3>2. UNCHANGED <<kind, booking, row, crossed>>
      BY <1>2, <3>1 DEF Moves, OpenPage, LockForAuto, Abandon, Accept, AutoConfirm, AllocatorRead,
         AllocatorCheck, AllocatorFind, AllocatorClear, Close, OnlyMovers, sessions, hist
    <3>3. Live' = Live /\ (Alive' <=> Alive) /\ (Calm' <=> Calm)
      BY <3>2 DEF Live, RowsIn, Alive, Calm
    <3>4. CASE ~Writing(m)'
      BY <3>4 DEF Writing, Inside
    <3>5. CASE /\ AllocatorRead(m) /\ mover'[m].pc = "read"
               /\ mover'[m].resched = (Tentative # {}) /\ mover'[m].fresh = NotYetAllocated
               /\ mover'[m].count = Required
      <4>1. Required = 1
        BY RequiredFits
      <4>2. QED
        BY <3>3, <3>5, <4>1, TentativeIsFresh DEF NotYetAllocated
    <3>6. CASE AllocatorCheck(m) /\ mover'[m].pc = "checked" /\ Same(m)
      BY <3>3, <3>6 DEF AllocatorCheck, StillFresh, NotYetAllocated, Readers, Writing, Same
    <3>7. CASE /\ AllocatorFind(m) /\ mover'[m].pc = "found" /\ Same(m)
               /\ mover'[m].rows = Found(m)
      BY <2>k, <3>3, <3>7 DEF AllocatorFind, Found, Readers, Writing, Inside, Same
    <3>8. CASE /\ AllocatorClear(m) /\ mover'[m].pc = "cleared" /\ Same(m)
               /\ mover'[m].rows = Doomed(m)
      <4>1. mover[m].pc = "found" /\ Writing(m)
        BY <3>8 DEF AllocatorClear, Writing, Inside
      <4>2. ~mover[m].resched => Kept \subseteq Doomed(m)
        BY <4>1 DEF Readers, Doomed
      <4>3. Standing \subseteq Kept
        BY DEF Standing, Kept, RowsIn, RowStatuses
      <4>4. mover[m].resched /\ Alive /\ Calm => Standing \subseteq Doomed(m)
        BY <4>1 DEF Readers, Doomed, Standing, Tentative, Live, RowsIn
      <4>5. QED
        BY <2>k, <3>3, <3>8, <4>1, <4>2, <4>3, <4>4 DEF Readers, Same
    <3>9. QED
      BY <3>1, <3>4, <3>5, <3>6, <3>7, <3>8, Phases
  <2>3. QED
    BY <2>1, <2>2
<1>3. QED
  BY <1>1, <1>2

----------------------------------------------------------------------------
(* Requests, the reschedule that opens one, and the lock. *)

\* A deleted row does not come back.
LEMMA GoneStaysGone ==
  ASSUME IInv, [Next]_vars, kind = "consultation", NEW r \in Rows, row[r] = "gone"
  PROVE  row'[r] = "gone"
<1> USE DEF IInv
<1>1. CASE \E m \in Movers : AllocatorCommit(m)
  <2>1. ~(r > made)
    BY DEF TypeOK
  <2>2. QED
    BY <1>1, <2>1, PlacementTypes
<1>2. CASE \A m \in Movers : ~AllocatorCommit(m)
  BY <1>2, RowsBetweenCommits
<1>3. QED
  BY <1>1, <1>2

\* A request once opened keeps what it names and asks; it is opened by a
\* reschedule, for the rows that has read, and never again.
LEMMA ProposalSteps ==
  ASSUME IInv, [Next]_vars, NEW p \in Proposals
  PROVE  /\ proposal[p].status # "none" =>
              /\ proposal'[p].named = proposal[p].named /\ proposal'[p].status # "none"
              /\ HasTimes(p)' <=> HasTimes(p)
         /\ \/ proposal'[p].named = proposal[p].named /\ (IsOpen(p)' => IsOpen(p))
            \/ /\ \E asks \in Asks : Propose(p, asks)
               /\ proposal[p].status = "none" /\ proposal'[p].named = route.seen
               /\ \A q \in Proposals \ {p} : proposal'[q] = proposal[q]
         /\ made' >= made
<1> USE DEF sessions, hist, OnlyMovers, HasTimes, IsOpen
<1> DEFINE Ordinary == /\ proposal'[p].named = proposal[p].named
                       /\ proposal'[p].asks = proposal[p].asks
                       /\ proposal[p].status # "none" => proposal'[p].status # "none"
                       /\ IsOpen(p)' => IsOpen(p)
                       /\ made' >= made
<1>t. proposal \in [Proposals -> Requests] /\ made \in Nat
  BY DEF IInv, TypeOK
<1>1. CASE proposal' = proposal /\ made' = made
  BY <1>t, <1>1
<1>2. ASSUME NEW q \in Proposals, NEW s \in Answers, proposal' = Answered(q, s), made' = made
      PROVE  Ordinary
  BY <1>t, <1>2 DEF Answered, Answers, Requests
<1>3. ASSUME NEW q \in Proposals, NEW asks \in Asks, Propose(q, asks)
      PROVE  /\ p = q => /\ proposal'[p].named = route.seen /\ proposal[p].status = "none"
                         /\ \A k \in Proposals \ {p} : proposal'[k] = proposal[k]
             /\ p # q => proposal'[p] = proposal[p]
             /\ made' = made
  BY <1>t, <1>3 DEF Propose, Release
<1>4. CASE Reschedule
  <2>1. CASE \E q \in Proposals, asks \in Asks : Propose(q, asks)
    <3>1. PICK q \in Proposals, asks \in Asks : Propose(q, asks)
      BY <2>1
    <3>2. CASE p = q
      BY <1>t, <1>3, <3>1, <3>2
    <3>3. CASE p # q
      BY <1>t, <1>3, <3>1, <3>3
    <3>4. QED
      BY <3>2, <3>3
  <2>2. QED
    BY <1>1, <1>4, <2>1 DEF Reschedule, RescheduleRead, ReleaseWaits, GiveUp, RescheduleFails,
       Release
<1>5. CASE \E q \in Proposals : Withdraw(q) \/ Decline(q)
  <2>1. Ordinary
    BY <1>2, <1>5 DEF Withdraw, Decline, Answers
  <2>2. QED
    BY <2>1
<1>6. ASSUME NEW a, Cancel(a) PROVE Ordinary
  BY <1>t, <1>6 DEF Cancel, Requests
<1>7. ASSUME NEW m \in Movers, AllocatorCommit(m) PROVE Ordinary
  <2>1. made' >= made
    BY <1>7, <1>t, PlacementTypes DEF IInv
  <2>2. /\ proposal[p].status # "none" => Superseded(m, p) # "none"
        /\ Superseded(m, p) = "PENDING_REVIEW" => IsOpen(p)
    BY DEF Superseded
  <2>3. proposal'[p] = [proposal[p] EXCEPT !.status = Superseded(m, p)]
    BY <1>7 DEF AllocatorCommit
  <2>4. QED
    BY <1>t, <2>1, <2>2, <2>3 DEF Requests
<1>8. ASSUME NEW m \in Movers, Close(m) PROVE Ordinary
  <2>1. mover[m].of \in Proposals /\ Confirmation(m) \in Answers
    BY <1>8 DEF Close, IInv, Named, TypeOK, Confirmation, Answers
  <2>2. CASE IsOpen(mover[m].of)
    BY <1>8, <1>2, <2>1, <2>2 DEF Close
  <2>3. CASE ~IsOpen(mover[m].of)
    BY <1>8, <1>t, <2>3 DEF Close
  <2>4. QED
    BY <2>2, <2>3
<1>9. ASSUME NEW m \in Movers, Moves(m) PROVE Ordinary
  <2>1. CASE AllocatorCommit(m) \/ Close(m)
    BY <1>7, <1>8, <2>1
  <2>2. CASE ~AllocatorCommit(m) /\ ~Close(m)
    <3>1. proposal' = proposal /\ made' = made
      BY <1>9, <2>2 DEF Moves, OpenPage, LockForAuto, Abandon, Accept, AutoConfirm,
         AllocatorRead, AllocatorCheck, AllocatorFind, AllocatorClear
    <3>2. QED
      BY <1>t, <3>1
  <2>3. QED
    BY <2>1, <2>2
<1>10. CASE ExpireProposals
  BY <1>t, <1>10 DEF ExpireProposals, Requests
<1>11. CASE \/ Age \/ ListStale \/ ExpirePending \/ SkipListed \/ ExpireUnallocated
            \/ UNCHANGED vars
            \/ \E q \in Proposals : Lapse(q)
            \/ \E r \in Rows : ReleaseStale(r)
  BY <1>1, <1>11 DEF Age, ListStale, ExpirePending, SkipListed, ExpireUnallocated, vars, Lapse,
     ReleaseStale
<1>12. QED
  BY <1>4, <1>5, <1>6, <1>9, <1>10, <1>11 DEF Next, Parties, Jobs

\* What a step does to the reschedule in flight.
LEMMA RouteSteps ==
  ASSUME [Next]_vars
  PROVE  \/ route' = route
         \/ route' = NoCall
         \/ ReleaseWaits /\ UNCHANGED <<kind, booking, row, mover>>
         \/ /\ UNCHANGED <<kind, booking, row, mover>>
            /\ \E at \in Appointments, whole \in BOOLEAN :
                  \E rs \in Choices(at, whole) : RescheduleRead(at, whole, rs)
<1>1. CASE kind = "subscription" /\ (ExpireUnallocated \/ \E r \in Rows : ReleaseStale(r))
  BY <1>1 DEF ExpireUnallocated, ReleaseStale, calls
<1>2. QED
  BY <1>1, Steps DEF Release, RescheduleFails

\* What a reschedule of a consultation has read, and waits for.
LEMMA RoutingStays ==
  ASSUME IInv, [Next]_vars
  PROVE  Routing'
<1> USE DEF IInv
<1>o. kind' = kind /\ (Alive' => Alive)
  BY OverIsOver
<1> SUFFICES ASSUME kind = "consultation"
             PROVE  /\ route'.pc # "idle" => route'.whole
                    /\ Alive' => \A r \in route'.seen :
                                    row'[r] \in {"held", "live", "released", "gone"}
                    /\ Alive' /\ route'.pc = "waiting" =>
                          \A r \in route'.seen : r \in route'.found \/ row'[r] = "gone"
  BY <1>o DEF Routing
<1>t. \A r \in route.seen : r \in Rows
  BY DEF TypeOK, Routes
<1>1. CASE route' = route
  <2>1. ASSUME Alive', NEW r \in route.seen
        PROVE  row'[r] \in {"held", "live", "released", "gone"}
    <3>1. row[r] \in {"held", "live", "released", "gone"} /\ r \in Rows
      BY <1>o, <1>t, <2>1 DEF Routing
    <3>2. CASE \E m \in Movers : AllocatorCommit(m)
      BY <3>1, <3>2, PlacementTypes
    <3>3. CASE \A m \in Movers : ~AllocatorCommit(m)
      BY <2>1, <3>1, <3>3, RowsBetweenCommits
    <3>4. QED
      BY <3>2, <3>3
  <2>2. QED
    BY <1>o, <1>t, <1>1, <2>1, GoneStaysGone DEF Routing
<1>2. CASE route' = NoCall
  BY <1>2 DEF NoCall
<1>3. CASE ReleaseWaits /\ UNCHANGED <<kind, booking, row, mover>>
  <2>1. /\ route'.whole = route.whole /\ route'.seen = route.seen /\ route'.found = Matched
        /\ route.pc # "idle"
    BY <1>3 DEF ReleaseWaits, TypeOK, Routes
  <2>2. Matched = Standing
    BY <2>1 DEF Routing, Matched
  <2>3. \A r \in Rows : row[r] \in {"held", "live", "released"} => r \in Standing
    BY DEF Standing, RowsIn
  <2>4. QED
    BY <1>o, <1>t, <1>3, <2>1, <2>2, <2>3 DEF Routing
<1>4. ASSUME NEW at \in Appointments, NEW whole \in BOOLEAN, NEW rs \in Choices(at, whole),
             RescheduleRead(at, whole, rs), UNCHANGED <<kind, booking, row, mover>>
      PROVE  /\ route'.whole /\ route'.pc = "read"
             /\ Alive' => \A r \in route'.seen : row'[r] \in {"held", "live", "released"}
  <2>1. whole /\ route'.whole = whole /\ route'.pc = "read" /\ route'.seen = rs
    BY <1>4 DEF RescheduleRead
  <2>2. Alive => rs = Standing
    BY <2>1 DEF Choices, ConsultationKeepsItsSession, Alive
  <2>3. QED
    BY <1>o, <1>4, <2>1, <2>2 DEF Standing, RowsIn
<1>5. QED
  BY <1>1, <1>2, <1>3, <1>4, RouteSteps

\* A confirmation that comes to hold the lock of a consultation found it free.
LEMMA LockTaken ==
  ASSUME IInv, kind = "consultation", NEW m \in Movers, Moves(m),
         mover'[m].role # "page", Holds(m)'
  PROVE  (Holds(m) /\ mover[m].role # "page") \/ ~Locked(Checkout)
<1> USE DEF IInv
<1>t. mover \in [Movers -> Calls] /\ \A p \in Proposals : proposal[p].at = Checkout
  BY DEF TypeOK
<1>1. CASE OpenPage(m)
  BY <1>1, <1>t DEF OpenPage, Mover, Idle
<1>2. CASE LockForAuto(m)
  <2>1. mover'[m].role = mover[m].role /\ mover'[m].of = mover[m].of
    BY <1>2, <1>t DEF LockForAuto, Step, Calls
  <2>2. mover[m].of \in Proposals
    BY <2>1 DEF TypeOK
  <2>3. QED
    BY <1>2, <1>t, <2>2 DEF LockForAuto
<1>3. CASE Abandon(m) \/ Close(m)
  BY <1>3, <1>t DEF Abandon, Close, Leave, Mover, Idle, Holds, Inside
<1>4. CASE \E p \in Proposals : Accept(m, p)
  BY <1>4, <1>t DEF Accept
<1>5. CASE \E p \in Proposals : AutoConfirm(m, p)
  BY <1>5, <1>t DEF AutoConfirm, Mover, Idle, Holds, Inside
<1>6. CASE AllocatorCommit(m) \/ AllocatorRead(m) \/ AllocatorCheck(m) \/ AllocatorFind(m)
           \/ AllocatorClear(m)
  <2>1. Holds(m)
    BY <1>6 DEF AllocatorCommit, AllocatorRead, AllocatorCheck, AllocatorFind, AllocatorClear,
       Holds, Inside
  <2>2. mover'[m].role = mover[m].role
    <3>1. CASE AllocatorCommit(m)
      BY <1>t, <3>1 DEF AllocatorCommit, Leave, Mover, Idle
    <3>2. CASE AllocatorRead(m) \/ AllocatorFind(m) \/ AllocatorClear(m)
      BY <1>t, <3>2 DEF AllocatorRead, AllocatorFind, AllocatorClear, Mover, Calls
    <3>3. CASE AllocatorCheck(m)
      BY <1>t, <3>3 DEF AllocatorCheck, Step, Calls
    <3>4. QED
      BY <1>6, <3>1, <3>2, <3>3
  <2>3. QED
    BY <2>1, <2>2
<1>7. QED
  BY <1>1, <1>2, <1>3, <1>4, <1>5, <1>6 DEF Moves

LEMMA ExclusiveStays ==
  ASSUME IInv, [Next]_vars
  PROVE  Exclusive'
<1> USE DEF IInv
<1>o. kind' = kind
  BY OverIsOver
<1> SUFFICES ASSUME kind = "consultation", route'.pc # "idle",
                    NEW m \in Movers, mover'[m].role # "page"
             PROVE  ~Holds(m)'
  BY <1>o DEF Exclusive
<1>1. CASE route'.pc # "idle" /\ route.pc # "idle"
  <2>1. Locked(Checkout)
    BY <1>1 DEF Locked, TypeOK
  <2>2. CASE mover'[m] = mover[m]
    BY <1>1, <2>2 DEF Exclusive, Holds, Inside
  <2>3. CASE mover'[m] # mover[m]
    <3>1. Moves(m)
      BY <2>3, Movement
    <3>2. QED
      BY <1>1, <2>1, <3>1, LockTaken DEF Exclusive
  <2>4. QED
    BY <2>2, <2>3
<1>2. CASE route.pc = "idle"
  <2>1. PICK at \in Appointments, whole \in BOOLEAN : \E rs \in Choices(at, whole) :
           RescheduleRead(at, whole, rs) /\ mover' = mover
    BY <1>2, RouteSteps DEF NoCall, ReleaseWaits
  <2>2. at = Checkout /\ ~Locked(at)
    BY <2>1 DEF Appointments, Home, RescheduleRead
  <2>3. mover[m].of \in Proposals /\ mover[m].role # "page"
    BY <2>1 DEF TypeOK
  <2>4. proposal[mover[m].of].at = Checkout
    BY <2>3 DEF TypeOK
  <2>5. ~Holds(m)
    BY <2>2, <2>3, <2>4 DEF Locked, Holds
  <2>6. QED
    BY <2>1, <2>5 DEF Holds, Inside
<1>3. QED
  BY <1>1, <1>2

LEMMA NamedStays ==
  ASSUME IInv, [Next]_vars
  PROVE  Named'
<1> USE DEF IInv
<1>n. made \in Nat /\ made' \in Nat
  BY TypesArePreserved DEF TypeOK
<1>m. made' >= made
  <2>1. CASE \E m \in Movers : AllocatorCommit(m)
    BY <1>n, <2>1, PlacementTypes
  <2>2. CASE \A m \in Movers : ~AllocatorCommit(m)
    <3>1. made' = made
      BY <2>2, Steps DEF Release, Propose, Withdraw, Cancel, ExpirePending, sessions
    <3>2. QED
      BY <1>n, <3>1
  <2>3. QED
    BY <2>1, <2>2
<1>e. ASSUME NEW r \in Rows, r <= made PROVE r <= made'
  <2>1. r \in Nat
    BY DEF Rows
  <2>2. QED
    BY <1>n, <1>m, <1>e, <2>1
<1>c. \A r \in Rows : row[r] # "none" => r <= made
  <2>1. ASSUME NEW r \in Rows, row[r] # "none" PROVE r <= made
    <3>1. r \in Nat /\ ~(r > made)
      BY <2>1 DEF Rows, TypeOK
    <3>2. QED
      BY <1>n, <3>1
  <2>2. QED
    BY <2>1
<1>r. /\ \A p \in Proposals : proposal[p].named \in SUBSET Rows
      /\ route.seen \in SUBSET Rows
      /\ \A m \in Movers : mover[m].rows \in SUBSET Rows
  BY DEF TypeOK, Requests, Routes, Calls
<1>1. \A p \in Proposals : \A r \in proposal'[p].named : r <= made'
  BY <1>e, <1>r, ProposalSteps DEF Named
<1>2. \A r \in route'.seen : r <= made'
  <2>1. CASE route' = route
    BY <1>e, <1>r, <2>1 DEF Named
  <2>2. CASE route' = NoCall
    BY <2>2 DEF NoCall
  <2>3. CASE ReleaseWaits
    <3>1. route'.seen = route.seen
      BY <2>3 DEF ReleaseWaits, TypeOK, Routes
    <3>2. QED
      BY <1>e, <1>r, <3>1 DEF Named
  <2>4. ASSUME NEW at \in Appointments, NEW whole \in BOOLEAN, NEW rs \in Choices(at, whole),
               RescheduleRead(at, whole, rs)
        PROVE  \A r \in route'.seen : r <= made'
    <3>1. route'.seen = rs /\ rs \in SUBSET Rows /\ \A r \in rs : row[r] # "none"
      BY <2>4, ReadRows DEF RescheduleRead
    <3>2. QED
      BY <1>c, <1>e, <3>1
  <2>5. QED
    BY <2>1, <2>2, <2>3, <2>4, RouteSteps
<1>3. ASSUME NEW m \in Movers PROVE \A r \in mover'[m].rows : r <= made'
  <2>1. CASE mover'[m].rows = mover[m].rows \/ mover'[m].rows = {}
    BY <1>e, <1>r, <2>1 DEF Named
  <2>2. CASE mover'[m].rows # mover[m].rows /\ mover'[m].rows # {}
    <3>1. Moves(m)
      BY <2>2, Movement
    <3>2. mover'[m].rows = Found(m) \/ mover'[m].rows = Doomed(m)
      BY <2>2, <3>1, Phases
    <3>3. mover'[m].rows \in SUBSET Rows /\ \A r \in mover'[m].rows : row[r] # "none" \/ r <= made
      BY <1>r, <3>2, ChosenRows DEF Found, Doomed, Named
    <3>4. QED
      BY <1>c, <1>e, <3>3
  <2>3. QED
    BY <2>1, <2>2
<1>4. ASSUME NEW m \in Movers
      PROVE  /\ mover'[m].role # "page" => proposal'[mover'[m].of].status # "none"
             /\ mover'[m].pc = "placed" => mover'[m].role # "page"
  <2>1. /\ mover[m].role # "page" =>
            mover[m].of \in Proposals /\ proposal[mover[m].of].status # "none"
        /\ mover[m].pc = "placed" => mover[m].role # "page"
    BY DEF TypeOK, Named
  <2>2. mover[m].role # "page" => proposal'[mover[m].of].status # "none"
    BY <2>1, ProposalSteps
  <2>3. CASE mover'[m] = mover[m]
    BY <2>1, <2>2, <2>3
  <2>4. CASE mover'[m] # mover[m]
    <3>1. Moves(m)
      BY <2>4, Movement
    <3>2. QED
      BY <2>1, <2>2, <3>1, MoverSteps DEF IsOpen
  <2>5. QED
    BY <2>3, <2>4
<1>5. QED
  BY <1>1, <1>2, <1>3, <1>4 DEF Named

----------------------------------------------------------------------------
(* What an open request names. *)

LEMMA OpenNamesStay ==
  ASSUME IInv, [Next]_vars
  PROVE  OpenNames'
<1> USE DEF IInv
<1>o. kind' = kind /\ (Alive' => Alive)
  BY OverIsOver
<1>a. ASSUME kind = "consultation" PROVE \A q \in Proposals : proposal[q].at = Checkout
  BY <1>a DEF TypeOK
<1>1. ASSUME kind = "consultation", NEW p \in Proposals, NEW q \in Proposals,
             IsOpen(p)', IsOpen(q)', p # q
      PROVE  FALSE
  <2>1. ASSUME NEW k \in Proposals, NEW l \in Proposals, NEW asks \in Asks, k # l,
               Propose(k, asks), \A j \in Proposals \ {k} : proposal'[j] = proposal[j]
        PROVE  ~IsOpen(l)'
    <3>1. route.at = Checkout
      BY <1>1 DEF TypeOK
    <3>2. ~IsOpen(l)
      BY <1>1, <1>a, <2>1, <3>1 DEF Propose, Reserved
    <3>3. QED
      BY <2>1, <3>2 DEF IsOpen
  <2>2. CASE IsOpen(p) /\ IsOpen(q)
    BY <1>1, <2>2 DEF OpenNames
  <2>3. CASE ~IsOpen(p) \/ ~IsOpen(q)
    BY <1>1, <2>1, <2>3, ProposalSteps
  <2>4. QED
    BY <2>2, <2>3
<1>2. ASSUME Alive', NEW p \in Proposals, IsOpen(p)', NEW r \in proposal'[p].named
      PROVE  row'[r] \in {"released", "gone"}
  <2>a. kind = "consultation" /\ Alive
    BY <1>o, <1>2 DEF Alive
  <2>r. r \in Rows
    BY TypesArePreserved, <1>2 DEF TypeOK, Requests
  <2>1. CASE proposal'[p].named = proposal[p].named /\ IsOpen(p)
    <3>1. row[r] \in {"released", "gone"}
      BY <1>2, <2>a, <2>1 DEF OpenNames
    <3>2. CASE Release
      BY <2>r, <3>1, <3>2, ReleaseReleases
    <3>3. ASSUME NEW q \in Proposals, Withdraw(q) PROVE FALSE
      <4>1. IsOpen(q)
        BY <3>3 DEF Withdraw
      <4>2. p = q
        BY <2>a, <2>1, <4>1 DEF OpenNames
      <4>3. proposal'[q].status = "WITHDRAWN"
        BY <3>3 DEF Withdraw, Answered, TypeOK, Requests
      <4>4. QED
        BY <1>2, <4>2, <4>3 DEF IsOpen
    <3>4. ASSUME NEW m \in Movers, AllocatorCommit(m) PROVE row'[r] \in {"released", "gone"}
      <4>1. r <= made
        BY <1>2, <2>1 DEF Named
      <4>2. made \in Nat /\ r \in Nat
        BY <2>r DEF TypeOK, Rows
      <4>3. ~(r > made)
        BY <4>1, <4>2
      <4>4. QED
        BY <2>r, <3>1, <3>4, <4>3, PlacementTypes
    <3>5. CASE (\E a \in Appointments : Cancel(a)) \/ ExpirePending
      BY <1>2, <3>5 DEF Cancel, ExpirePending, Alive
    <3>6. CASE row' = row
      BY <3>1, <3>6
    <3>7. QED
      BY <2>a, <3>2, <3>3, <3>4, <3>5, <3>6, Steps
  <2>2. CASE (\E asks \in Asks : Propose(p, asks)) /\ proposal'[p].named = route.seen
    <3>1. Release /\ r \in route.seen
      BY <1>2, <2>2 DEF Propose
    <3>2. row[r] \in {"held", "live", "released", "gone"}
      BY <2>a, <3>1 DEF Routing
    <3>3. row[r] # "gone" => r \in Standing
      BY <2>r, <3>2 DEF Standing, RowsIn
    <3>4. row[r] # "gone" => r \in Turning
      <4>1. CASE route.pc = "read"
        BY <2>a, <3>1, <3>3, <4>1, ReleaseReleases
      <4>2. CASE route.pc = "waiting"
        BY <2>a, <3>1, <3>3, <4>2 DEF Routing, Turning
      <4>3. QED
        BY <3>1, <4>1, <4>2 DEF Release
    <3>5. QED
      BY <2>r, <3>1, <3>4, ReleaseReleases
  <2>3. QED
    BY <1>2, <2>1, <2>2, ProposalSteps
<1>3. QED
  BY <1>o, <1>1, <1>2 DEF OpenNames

\* What the request of a confirmation names is marked, deleted and gone in turn.
LEMMA ClearingStays ==
  ASSUME IInv, [Next]_vars
  PROVE  Clearing'
<1> USE DEF IInv
<1>o. kind' = kind /\ (Alive' => Alive)
  BY OverIsOver
<1> SUFFICES ASSUME Alive', NEW m \in Movers, mover'[m].pc = "cleared", mover'[m].role # "page",
                    IsOpen(mover[m].of)', NEW r \in proposal'[mover'[m].of].named
             PROVE  r \in mover'[m].rows \/ row'[r] = "gone"
  BY DEF Clearing
<1>a. Alive /\ kind = "consultation"
  BY <1>o DEF Alive
<1>p. mover'[m].of = mover[m].of /\ mover'[m].role = mover[m].role
  <2>1. CASE mover'[m] = mover[m]
    BY <2>1
  <2>2. CASE mover'[m] # mover[m]
    <3>1. Moves(m)
      BY <2>2, Movement
    <3>2. QED
      BY <3>1, MoverSteps
  <2>3. QED
    BY <2>1, <2>2
<1> DEFINE p == mover[m].of
<1>q. p \in Proposals /\ proposal[p].status # "none"
  BY <1>p DEF TypeOK, Named
<1>r. IsOpen(p) /\ r \in proposal[p].named /\ r \in Rows
  BY <1>p, <1>q, ProposalSteps DEF TypeOK, Requests
<1> HIDE DEF p
<1>1. CASE mover'[m] = mover[m]
  <2>1. r \in mover[m].rows \/ row[r] = "gone"
    BY <1>a, <1>r, <1>1 DEF Clearing, p
  <2>2. QED
    BY <1>a, <1>r, <1>1, <2>1, GoneStaysGone
<1>2. CASE mover'[m] # mover[m]
  <2>1. Moves(m)
    BY <1>2, Movement
  <2>2. AllocatorClear(m) /\ mover'[m].rows = Doomed(m)
    BY <2>1, Phases DEF Writing, Inside
  <2>3. row[r] \in {"released", "gone"}
    BY <1>a, <1>q, <1>r DEF OpenNames
  <2>4. row[r] = "released" => r \in Tentative /\ r \in Kept
    BY <1>r DEF Tentative, Kept, RowsIn, RowStatuses
  <2>5. row[r] = "released" => r \in Doomed(m)
    BY <1>a, <2>2, <2>4 DEF Doomed, Readers, AllocatorClear
  <2>6. QED
    BY <1>a, <1>r, <2>2, <2>3, <2>5, GoneStaysGone
<1>3. QED
  BY <1>1, <1>2

----------------------------------------------------------------------------
(* Yes means moved. *)

\* A proposal is answered with yes by a placement that consumes a preference, or by
\* the closing after one.
LEMMA AnswersYes ==
  ASSUME IInv, [Next]_vars, NEW p \in Proposals,
         proposal'[p].status \in {"ACCEPTED", "AUTO_ACCEPTED"}
  PROVE  \/ proposal[p].status \in {"ACCEPTED", "AUTO_ACCEPTED"}
         \/ ~HasTimes(p) /\ \E m \in Movers : AllocatorCommit(m)
         \/ IsOpen(p) /\ \E m \in Movers : Close(m) /\ mover[m].of = p
<1> USE DEF sessions, hist, OnlyMovers
<1>t. proposal \in [Proposals -> Requests]
  BY DEF IInv, TypeOK
<1>1. CASE Reschedule
  BY <1>t, <1>1 DEF Reschedule, RescheduleRead, ReleaseWaits, RescheduleFails, GiveUp, Propose,
     Requests
<1>2. CASE \E q \in Proposals : Withdraw(q) \/ Decline(q) \/ Lapse(q)
  BY <1>t, <1>2 DEF Withdraw, Decline, Lapse, Answered, Requests
<1>3. CASE \E a \in Appointments : Cancel(a)
  BY <1>t, <1>3 DEF Cancel, Requests
<1>4. ASSUME NEW m \in Movers, AllocatorCommit(m)
      PROVE  proposal[p].status \in {"ACCEPTED", "AUTO_ACCEPTED"} \/ ~HasTimes(p)
  <2>1. proposal'[p] = [proposal[p] EXCEPT !.status = Superseded(m, p)]
    BY <1>4 DEF AllocatorCommit
  <2>2. proposal'[p].status = Superseded(m, p)
    BY <1>t, <2>1 DEF Requests
  <2>3. QED
    BY <2>2 DEF Superseded
<1>5. CASE \E m \in Movers : Close(m)
  BY <1>t, <1>5 DEF Close, Answered, Requests, IsOpen
<1>6. CASE \E m \in Movers : Moves(m)
  BY <1>4, <1>5, <1>6 DEF Moves, OpenPage, LockForAuto, Abandon, Accept, AutoConfirm,
     AllocatorRead, AllocatorCheck, AllocatorFind, AllocatorClear
<1>7. CASE ExpireProposals
  BY <1>t, <1>7 DEF ExpireProposals, Requests
<1>8. CASE \/ Age \/ ListStale \/ ExpirePending \/ SkipListed \/ ExpireUnallocated
           \/ \E r \in Rows : ReleaseStale(r)
           \/ UNCHANGED vars
  BY <1>8 DEF Age, ListStale, ExpirePending, SkipListed, ExpireUnallocated, ReleaseStale, vars
<1>9. QED
  BY <1>1, <1>2, <1>3, <1>6, <1>7, <1>8 DEF Next, Parties, Jobs

LEMMA MovedIsKept ==
  ASSUME IInv, [Next]_vars
  PROVE  PlacedMeansGone' /\ YesMeansMoved'
<1> USE DEF IInv
<1>o. kind' = kind /\ (Calm' => Calm)
  BY OverIsOver DEF Calm
<1>r. \A p \in Proposals : proposal[p].named \in SUBSET Rows
  BY DEF TypeOK, Requests
<1>1. ASSUME kind = "consultation", NEW p \in Proposals, proposal[p].status # "none",
             \A r \in proposal[p].named : row[r] = "gone"
      PROVE  \A r \in proposal'[p].named : row'[r] = "gone"
  BY <1>1, <1>r, ProposalSteps, GoneStaysGone
<1>2. ASSUME kind = "consultation", NEW m \in Movers, mover'[m].pc = "placed",
             IsOpen(mover[m].of)'
      PROVE  \A r \in proposal'[mover'[m].of].named : row'[r] = "gone"
  <2>1. CASE mover'[m] = mover[m]
    <3>1. mover[m].of \in Proposals /\ proposal[mover[m].of].status # "none"
      BY <1>2, <2>1 DEF Named, TypeOK
    <3>2. IsOpen(mover[m].of)
      BY <1>2, <2>1, <3>1, ProposalSteps
    <3>3. QED
      BY <1>1, <1>2, <2>1, <3>1, <3>2 DEF PlacedMeansGone
  <2>2. CASE mover'[m] # mover[m]
    <3>1. AllocatorCommit(m) /\ mover[m].role # "page" /\ mover'[m].of = mover[m].of
      <4>1. mover'[m].role # "page"
        BY <1>2, NamedStays DEF Named
      <4>2. Moves(m)
        BY <2>2, Movement
      <4>3. QED
        BY <1>2, <4>1, <4>2, MoverSteps
    <3> DEFINE p == mover[m].of
    <3>2. p \in Proposals /\ proposal[p].status # "none"
      BY <3>1 DEF Named, TypeOK
    <3>3. IsOpen(p) /\ proposal'[p].named = proposal[p].named
      BY <1>2, <3>1, <3>2, ProposalSteps
    <3> HIDE DEF p
    <3>4. ASSUME NEW r \in proposal[p].named PROVE row'[r] = "gone"
      <4>1. r \in Rows /\ r <= made /\ made \in Nat /\ r \in Nat
        BY <1>r, <3>2 DEF Named, TypeOK, Rows
      <4>2. r # made + 1
        BY <4>1
      <4>3. Alive /\ row'[r] = IF r \in mover[m].rows THEN "gone" ELSE row[r]
        BY <1>2, <3>1, <4>1, <4>2, PlacementReplaces
      <4>4. r \in mover[m].rows \/ row[r] = "gone"
        BY <3>1, <3>3, <4>3 DEF Clearing, AllocatorCommit, p
      <4>5. QED
        BY <4>3, <4>4
    <3>5. QED
      BY <3>1, <3>3, <3>4 DEF p
  <2>3. QED
    BY <2>1, <2>2
<1>3. ASSUME kind = "consultation", NEW p \in Proposals,
             proposal'[p].status \in {"ACCEPTED", "AUTO_ACCEPTED"},
             HasTimes(p)' \/ Calm'
      PROVE  \A r \in proposal'[p].named : row'[r] = "gone"
  <2>1. CASE proposal[p].status \in {"ACCEPTED", "AUTO_ACCEPTED"}
    <3>1. HasTimes(p) \/ Calm
      BY <1>o, <1>3, <2>1, ProposalSteps
    <3>2. QED
      BY <1>1, <1>3, <2>1, <3>1 DEF YesMeansMoved, Calm
  <2>2. ASSUME NEW m \in Movers, AllocatorCommit(m), ~HasTimes(p), p \in Proposals,
               proposal[p].status \notin {"ACCEPTED", "AUTO_ACCEPTED"}
        PROVE  \A r \in proposal'[p].named : row'[r] = "gone"
    <3>1. proposal'[p] = [proposal[p] EXCEPT !.status = Superseded(m, p)]
      BY <2>2 DEF AllocatorCommit
    <3>2. proposal'[p].named = proposal[p].named /\ (HasTimes(p)' <=> HasTimes(p))
      BY <3>1 DEF TypeOK, Requests, HasTimes
    <3>3. Calm
      BY <1>o, <1>3, <2>2, <3>2
    <3>4. ASSUME NEW r \in proposal[p].named PROVE row'[r] = "gone"
      <4>1. r \in Rows /\ r <= made
        BY <1>r DEF Named
      <4>2. QED
        BY <1>3, <2>2, <3>3, <4>1, PlacementReplaces
    <3>5. QED
      BY <3>2, <3>4
  <2>3. CASE IsOpen(p) /\ \E m \in Movers : Close(m) /\ mover[m].of = p
    <3>1. PICK m \in Movers : Close(m) /\ mover[m].of = p
      BY <2>3
    <3>2. mover[m].pc = "placed"
      BY <3>1 DEF Close
    <3>3. proposal[p].status # "none" /\ \A r \in proposal[p].named : row[r] = "gone"
      BY <1>3, <2>3, <3>1, <3>2 DEF PlacedMeansGone, IsOpen
    <3>4. QED
      BY <1>1, <1>3, <3>3
  <2>4. QED
    BY <1>3, <2>1, <2>2, <2>3, AnswersYes
<1>4. QED
  BY <1>o, <1>2, <1>3 DEF PlacedMeansGone, YesMeansMoved, Calm

----------------------------------------------------------------------------
(* The theorems. *)

LEMMA InvHolds == Spec => []IInv
<1>1. Init => IInv
  <2> SUFFICES ASSUME Init PROVE IInv
    OBVIOUS
  <2>1. PICK first \in {"held", "live", "none"} :
          /\ row = [r \in Rows |-> IF r <= SessionsSold THEN first ELSE "none"]
          /\ made = IF first = "none" THEN 0 ELSE SessionsSold
          /\ booking = IF first = "held" THEN "PENDING" ELSE "APPROVED"
          /\ first \in IF kind = "consultation" THEN {"held", "live"} ELSE {"none", "live"}
    BY DEF Init
  <2>2. SessionsSold \in 1 .. MaxRows /\ (kind = "consultation" => SessionsSold = 1)
    BY RescheduleAssumption DEF SessionsSold
  <2>3. \A r \in Rows : r \in Nat /\ r >= 1
    BY DEF Rows
  <2>4. TypeOK
    <3>1. \A r \in Rows : row[r] = "none" <=> r > made
      BY <2>1, <2>2, <2>3
    <3>2. row \in [Rows -> RowStatuses] /\ booking \in Statuses
      BY <2>1 DEF RowStatuses, Statuses
    <3>3. made \in 0 .. MaxRows
      BY <2>1, <2>2, RescheduleAssumption
    <3>4. /\ proposal \in [Proposals -> Requests]
          /\ \A p \in Proposals : proposal[p].at = Checkout
      BY DEF Init, NoRequest, Requests, Asks
    <3>5. mover \in [Movers -> Calls] /\ \A m \in Movers : mover[m].role = "page"
      <4>1. 0 \in 0 .. MaxRows
        BY RescheduleAssumption
      <4>2. QED
        BY <4>1 DEF Init, Idle, Calls
    <3>6. route \in Routes /\ route.at = Checkout
      BY DEF Init, NoCall, Routes
    <3>7. 0 \in 0 .. MaxReleases[kind]
      BY RescheduleAssumption DEF Init
    <3>8. QED
      BY <3>1, <3>2, <3>3, <3>4, <3>5, <3>6, <3>7 DEF Init, TypeOK
  <2>5. \A r \in Rows : row[r] \in {"held", "live", "none"}
    BY <2>1
  <2>6. ConsultationKeepsItsSession
    <3>1. SUFFICES ASSUME kind = "consultation"
                   PROVE  /\ Standing = {1} /\ 1 \in Rows /\ booking \in {"PENDING", "APPROVED"}
                          /\ booking = "PENDING" => Live = {}
      BY DEF ConsultationKeepsItsSession
    <3>2. \A r \in Rows : row[r] = IF r = 1 THEN first ELSE "none"
      BY <2>1, <2>2, <2>3, <3>1
    <3>3. first \in {"held", "live"} /\ 1 \in Rows
      BY <2>1, <2>2, <3>1 DEF Rows
    <3>4. QED
      BY <2>1, <3>2, <3>3 DEF Standing, Live, RowsIn
  <2>7. CancelledHoldsNothing /\ NoneIsDropped
    BY <2>1, <2>5 DEF CancelledHoldsNothing, NoneIsDropped, RowsIn
  <2>8. /\ mover = [m \in Movers |-> Idle] /\ route = NoCall
        /\ proposal = [p \in Proposals |-> NoRequest]
    BY DEF Init
  <2>9. OneWriter /\ Readers /\ Routing /\ Exclusive
    BY <2>8 DEF Idle, NoCall, OneWriter, Readers, Routing, Exclusive, Writing, Inside
  <2>10. Named /\ OpenNames /\ Clearing /\ PlacedMeansGone /\ YesMeansMoved
    BY <2>8 DEF Idle, NoCall, NoRequest, Named, OpenNames, Clearing, PlacedMeansGone,
       YesMeansMoved, IsOpen
  <2>11. QED
    BY <2>4, <2>6, <2>7, <2>9, <2>10 DEF IInv
<1>2. IInv /\ [Next]_vars => IInv'
  <2> SUFFICES ASSUME IInv, [Next]_vars PROVE IInv'
    OBVIOUS
  <2>1. TypeOK' /\ OneWriter'
    BY TypesArePreserved, OneWriterStays DEF IInv
  <2>2. Readers' /\ Routing' /\ Exclusive' /\ Named' /\ OpenNames' /\ Clearing'
    BY ReadersStay, RoutingStays, ExclusiveStays, NamedStays, OpenNamesStay, ClearingStays
  <2>3. QED
    BY <2>1, <2>2, SessionsAreKept, MovedIsKept DEF IInv
<1>3. QED
  BY <1>1, <1>2, PTL DEF Spec

\* Every variable keeps its type (the tables of booking and reschedule rows and
\* the calls in flight).
THEOREM RescheduleTypes == Spec => []TypeOK
<1>1. IInv => TypeOK
  BY DEF IInv
<1>2. QED
  BY InvHolds, <1>1, PTL

\* However reschedules, answers, placements, cancels and sweeps interleave, step
\* by step of the allocator's transaction, a paid consultation that is not over
\* has its session; it has a second one only if a withdrawal has committed inside
\* an allocation, and a firm one in the queue, or one after its end, only if a
\* release has waited for an allocation.
THEOREM SessionIsKept == Spec => []ConsultationKeepsItsSession
<1>1. IInv => ConsultationKeepsItsSession
  BY DEF IInv
<1>2. QED
  BY InvHolds, <1>1, PTL

\* A consultation's proposal of times that reads as accepted has had its old
\* session deleted, whatever crosses; a preference has, unless a withdrawal crossed.
THEOREM YesIsTrue == Spec => []YesMeansMoved
<1>1. IInv => YesMeansMoved
  BY DEF IInv
<1>2. QED
  BY InvHolds, <1>1, PTL

\* No step revives a booking that was cancelled or expired, and none gives a
\* cancelled one a session.
THEOREM OverForGood == Spec => EndedStaysEnded
<1>1. IInv /\ [Next]_vars =>
        [/\ booking \in {"CANCELLED", "EXPIRED"} => booking' = booking
         /\ booking = "CANCELLED" => Standing' = {}]_vars
  <2> SUFFICES ASSUME IInv, [Next]_vars
               PROVE  /\ booking \in {"CANCELLED", "EXPIRED"} => booking' = booking
                      /\ booking = "CANCELLED" => Standing' = {}
    OBVIOUS
  <2>1. booking \in {"CANCELLED", "EXPIRED"} => booking' = booking
    BY OverIsOver DEF IInv
  <2>2. CancelledHoldsNothing'
    BY SessionsAreKept
  <2>3. QED
    BY <2>1, <2>2 DEF CancelledHoldsNothing
<1>2. QED
  BY <1>1, InvHolds, PTL DEF Spec, EndedStaysEnded

=============================================================================
