----------------------- MODULE WebhookEventLogProofs -----------------------
(***************************************************************************)
(* Proofs about WebhookEventLog, for every number of concurrent deliveries *)
(* and entries of the sweep, and for all three thresholds.                 *)
(***************************************************************************)
EXTENDS WebhookEventLog, TLAPS

\* Where a sweep stands that has claimed the event and may still drive it.
TookOn == {"log", "retry", "restamp", "run", "mark"}

\* A sweep works on a row there is, so it never creates one.
SweepsNeedARow ==
    /\ \A s \in Sweepers : pc[s] # "create"
    /\ ~exists => readClaim = {} /\ \A s \in Sweepers : pc[s] = "idle"

\* Who is about to close the row out has run the handler to an end.
VerdictsAreKept ==
    \A d \in Drivers : pc[d] = "mark" =>
        verdict[d] # "defer" /\ (verdict[d] = "ok" => completed)

\* A read of claimedAt that is still current was made of a claim that had run out.
CurrentReadsAreOld == row.claimed => \A s \in readClaim : row.claimAge > SweepAfter

\* The claim on the row is the last one: no sweep at work has made a later one.
ClaimsAreRecorded ==
    \A s \in Sweepers : pc[s] \in TookOn => row.claimed /\ row.claimAge <= driveAge[s]

\* Of two sweeps that claimed the event, one has outlived its claim, driving or not yet.
ClaimsExclude ==
    \A s, t \in Sweepers :
        s # t /\ pc[s] \in TookOn /\ pc[t] \in TookOn
            => driveAge[s] > SweepAfter \/ driveAge[t] > SweepAfter

IInv ==
    /\ TypeOK
    /\ NoSilentSuccess
    /\ SweepsNeedARow
    /\ VerdictsAreKept
    /\ CurrentReadsAreOld
    /\ ClaimsAreRecorded
    /\ ClaimsExclude

----------------------------------------------------------------------------
LEMMA AreDrivers == Workers \subseteq Drivers /\ Sweepers \subseteq Drivers
  BY DEF Drivers

LEMMA Saturation ==
  /\ 0 \in Ages /\ SweepAfter \in Nat /\ Cap \in Nat /\ Cap > SweepAfter
  /\ \A a \in Ages : a \in Nat /\ Older(a) \in Ages /\ a <= Older(a)
  /\ \A a, b \in Ages : a <= b => Older(a) <= Older(b)
  BY WebhookAssumption DEF Ages, Cap, Older

\* The row keeps its shape, field by field.
LEMMA RowFields ==
  ASSUME row \in Rows
  PROVE  /\ row.recvAge \in Ages /\ row.claimAge \in Ages
         /\ row.processed \in BOOLEAN /\ row.claimed \in BOOLEAN /\ row.error \in Errors
  BY DEF Rows

\* A step of logWebhookEvent moves its driver alone, and takes the event on at most now.
LEMMA StartRunMoves ==
  ASSUME TypeOK, NEW d \in Drivers, StartRun(d)
  PROVE  /\ pc' = [pc EXCEPT ![d] = "run"]
         /\ driveAge' \in [Drivers -> Ages]
         /\ \A c \in Drivers : c # d => driveAge'[c] = driveAge[c]
         /\ d \in Sweepers /\ pc[d] \in {"log", "retry", "restamp"} => driveAge' = driveAge
  BY Saturation DEF StartRun, TakesOn, Goto, TypeOK

LEMMA NotNewMoves ==
  ASSUME TypeOK, NEW d \in Drivers, NotNew(d)
  PROVE  /\ \/ pc' = [pc EXCEPT ![d] = "check"] /\ d \in Sweepers
            \/ pc' = [pc EXCEPT ![d] = "run"] /\ d \notin Sweepers
            \/ pc' = [pc EXCEPT ![d] = "idle"] /\ d \notin Sweepers
         /\ driveAge' \in [Drivers -> Ages]
         /\ \A c \in Drivers : c # d => driveAge'[c] = driveAge[c]
         /\ d \in Sweepers => driveAge' = driveAge
  BY StartRunMoves DEF NotNew, TypeOK, Goto

\* The read moves its driver alone.
LEMMA LogReadMoves ==
  ASSUME TypeOK, NEW d \in Drivers, LogRead(d), d \in Sweepers => exists
  PROVE  /\ \E step \in {"create", "retry", "restamp", "run", "check", "idle"} :
              /\ pc' = [pc EXCEPT ![d] = step]
              /\ d \in Sweepers => step \in {"retry", "restamp", "check"}
         /\ driveAge' \in [Drivers -> Ages]
         /\ \A c \in Sweepers : driveAge'[c] = driveAge[c]
         /\ readRecv' \subseteq Drivers
         /\ UNCHANGED <<row, exists, readClaim, tooOld, verdict, completed>>
<1> USE NotNewMoves, AreDrivers DEF TypeOK
<1>1. readRecv' \subseteq Drivers /\ UNCHANGED <<row, exists, readClaim, tooOld, verdict, completed>>
  BY DEF LogRead
<1>2. CASE ~exists /\ Goto(d, "create") /\ UNCHANGED driveAge
  BY <1>1, <1>2 DEF Goto
<1>3. CASE NotNew(d)
  BY <1>1, <1>3
<1>4. CASE Goto(d, "retry") /\ UNCHANGED driveAge
  BY <1>1, <1>4 DEF Goto
<1>5. CASE Goto(d, "restamp") /\ UNCHANGED driveAge
  BY <1>1, <1>5 DEF Goto
<1>6. QED
  BY <1>2, <1>3, <1>4, <1>5 DEF LogRead

\* Re-opening the row leaves the sweep's claim on it alone.
LEMMA RestampMoves ==
  ASSUME TypeOK, NEW d \in Drivers, Restamp(d)
  PROVE  /\ row' \in Rows /\ row'.claimed = row.claimed /\ row'.claimAge = row.claimAge
         /\ ~row'.processed /\ row'.error = "none"
         /\ readRecv' = {} /\ life' \in Ages /\ StartRun(d)
  BY Saturation DEF Restamp, TypeOK, Rows, Errors

\* Every step preserves the types.
LEMMA TypesArePreserved ==
  ASSUME TypeOK, SweepsNeedARow, VerdictsAreKept, [Next]_vars
  PROVE  TypeOK'
<1> USE AreDrivers, Saturation, WebhookAssumption DEF TypeOK, Steps, env
<1>1. ASSUME NEW w \in Workers, Deliver(w) PROVE TypeOK'
  <2>1. w \in Drivers /\ LogRead(w) /\ w \notin Sweepers
    BY <1>1 DEF Deliver
  <2>2. deliveries' \in 0 .. MaxDeliveries /\ life' = 0 /\ UNCHANGED <<provider, faults>>
    BY <1>1 DEF Deliver
  <2>3. QED
    BY <2>1, <2>2, LogReadMoves
<1>2. ASSUME NEW w \in Workers, Create(w) PROVE TypeOK'
  <2>1. /\ w \in Drivers
        /\ UNCHANGED <<provider, readClaim, tooOld, verdict, completed, deliveries, faults>>
    BY <1>2 DEF Create
  <2>2. CASE ~exists /\ exists' = TRUE /\ row' = NewRow /\ readRecv' = {} /\ life' = 0 /\ StartRun(w)
    <3>1. NewRow \in Rows
      BY DEF NewRow, Rows, Errors
    <3>2. QED
      BY <2>1, <2>2, <3>1, StartRunMoves
  <2>3. CASE NotNew(w) /\ UNCHANGED <<row, exists, readRecv, life>>
    BY <2>1, <2>3, NotNewMoves
  <2>4. QED
    BY <1>2, <2>2, <2>3 DEF Create
<1>3. ASSUME NEW d \in Drivers, ClaimFailed(d) \/ ClaimStale(d) PROVE TypeOK'
  <2>1. UNCHANGED <<provider, exists, readClaim, tooOld, verdict, completed, deliveries, faults>>
    BY <1>3 DEF ClaimFailed, ClaimStale
  <2>2. CASE Restamp(d)
    BY <2>1, <2>2, RestampMoves, StartRunMoves
  <2>3. CASE NotNew(d) /\ UNCHANGED <<row, readRecv, life>>
    BY <2>1, <2>3, NotNewMoves
  <2>4. QED
    BY <1>3, <2>2, <2>3 DEF ClaimFailed, ClaimStale
<1>4. ASSUME NEW d \in Drivers, Handle(d) PROVE TypeOK'
  <2>1. PICK v \in Verdicts : /\ verdict' = [verdict EXCEPT ![d] = v]
                              /\ completed' = (completed \/ v = "ok")
                              /\ Goto(d, IF v = "defer" THEN AfterRun(d) ELSE "mark")
    BY <1>4 DEF Handle
  <2>2. UNCHANGED <<row, exists, readRecv, readClaim, tooOld, driveAge, env>>
    BY <1>4 DEF Handle
  <2>3. pc' \in [Drivers -> Steps] /\ verdict' \in [Drivers -> Verdicts] /\ completed' \in BOOLEAN
    BY <2>1 DEF Goto, AfterRun
  <2>4. QED
    BY <2>2, <2>3
<1>5. ASSUME NEW d \in Drivers, Mark(d) PROVE TypeOK'
  <2>1. ClosedWith(verdict[d]) \in Rows
    BY <1>5 DEF Mark, VerdictsAreKept, ClosedWith, Rows, Errors, Terminal, Verdicts
  <2>2. QED
    BY <1>5, <2>1 DEF Mark, Goto, AfterRun
<1>6. ASSUME NEW d \in Drivers, Crash(d) PROVE TypeOK'
  BY <1>6 DEF Crash, Goto
<1>7. ASSUME NEW s \in Sweepers, SweepSelect(s) PROVE TypeOK'
  BY <1>7 DEF SweepSelect, Goto
<1>8. ASSUME NEW s \in Sweepers, SweepClaim(s) PROVE TypeOK'
  <2>1. [row EXCEPT !.claimed = TRUE, !.claimAge = 0] \in Rows
    BY DEF Rows
  <2>2. QED
    BY <1>8, <2>1 DEF SweepClaim, TakesOn, Goto
<1>9. ASSUME NEW s \in Sweepers, SweepLog(s) PROVE TypeOK'
  <2>1. exists /\ s \in Drivers /\ UNCHANGED env
    BY <1>9 DEF SweepLog, SweepsNeedARow
  <2>2. CASE LogRead(s)
    BY <2>1, <2>2, LogReadMoves
  <2>3. CASE ~LogRead(s)
    BY <1>9, <2>1, <2>3 DEF SweepLog, Goto
  <2>4. QED
    BY <2>2, <2>3
<1>10. ASSUME NEW s \in Sweepers, SweepCheck(s) PROVE TypeOK'
  BY <1>10 DEF SweepCheck, Goto
<1>11. ASSUME NEW s \in Sweepers, SweepGiveUp(s) PROVE TypeOK'
  <2>1. [row EXCEPT !.processed = TRUE, !.error = "gaveup"] \in Rows
    BY DEF Rows, Errors, Terminal
  <2>2. QED
    BY <1>11, <2>1 DEF SweepGiveUp, Goto
<1>12. ASSUME NEW s \in Sweepers, SweepStampsFailure(s) PROVE TypeOK'
  <2>1. ClosedWith("failed") \in Rows
    BY DEF ClosedWith, Rows, Errors
  <2>2. QED
    BY <1>12, <2>1 DEF SweepStampsFailure, Goto
<1>13. ASSUME NEW s \in Sweepers, SweepThrows(s) PROVE TypeOK'
  BY <1>13 DEF SweepThrows, Goto
<1>14. ASSUME Tick PROVE TypeOK'
  <2>1. [row EXCEPT !.recvAge = Older(@), !.claimAge = Older(@)] \in Rows
    BY RowFields DEF Rows
  <2>2. QED
    BY <1>14, <2>1 DEF Tick
<1>15. CASE UNCHANGED vars
  BY <1>15 DEF vars
<1>16. QED
  BY <1>1, <1>2, <1>3, <1>4, <1>5, <1>6, <1>7, <1>8, <1>9, <1>10, <1>11, <1>12, <1>13,
     <1>14, <1>15
  DEF Next, DriverStep, SweepStep

\* What each step does to where the sweeps stand.
LEMMA RowsAreThere ==
  ASSUME TypeOK, SweepsNeedARow, [Next]_vars
  PROVE  SweepsNeedARow'
<1> USE AreDrivers, WebhookAssumption DEF TypeOK, SweepsNeedARow
<1>1. ASSUME NEW w \in Workers, Deliver(w) PROVE SweepsNeedARow'
  <2>1. w \in Drivers /\ LogRead(w) /\ w \notin Sweepers
    BY <1>1 DEF Deliver
  <2>2. QED
    BY <2>1, LogReadMoves
<1>2. ASSUME NEW w \in Workers, Create(w) PROVE SweepsNeedARow'
  <2>1. w \in Drivers /\ w \notin Sweepers /\ UNCHANGED readClaim
    BY <1>2 DEF Create
  <2>2. CASE exists' = TRUE /\ StartRun(w)
    BY <2>1, <2>2, StartRunMoves
  <2>3. CASE NotNew(w) /\ UNCHANGED exists
    BY <2>1, <2>3, NotNewMoves
  <2>4. QED
    BY <1>2, <2>2, <2>3 DEF Create
<1>3. ASSUME NEW d \in Drivers, ClaimFailed(d) \/ ClaimStale(d) PROVE SweepsNeedARow'
  <2>1. pc[d] # "idle" /\ UNCHANGED <<exists, readClaim>>
    BY <1>3 DEF ClaimFailed, ClaimStale
  <2>2. CASE Restamp(d)
    BY <2>1, <2>2, RestampMoves, StartRunMoves
  <2>3. CASE NotNew(d)
    BY <2>1, <2>3, NotNewMoves
  <2>4. QED
    BY <1>3, <2>2, <2>3 DEF ClaimFailed, ClaimStale
<1>4. ASSUME NEW d \in Drivers, Handle(d) \/ Mark(d) \/ Crash(d) PROVE SweepsNeedARow'
  BY <1>4 DEF Handle, Mark, Crash, Goto, AfterRun
<1>5. ASSUME NEW s \in Sweepers, SweepSelect(s) PROVE SweepsNeedARow'
  BY <1>5 DEF SweepSelect, Sweepable, Goto
<1>6. ASSUME NEW s \in Sweepers, SweepClaim(s) PROVE SweepsNeedARow'
  BY <1>6 DEF SweepClaim, TakesOn, Goto
<1>7. ASSUME NEW s \in Sweepers, SweepLog(s) PROVE SweepsNeedARow'
  <2>1. exists /\ s \in Drivers
    BY <1>7 DEF SweepLog
  <2>2. CASE LogRead(s)
    BY <2>1, <2>2, LogReadMoves
  <2>3. CASE ~LogRead(s)
    BY <1>7, <2>1, <2>3 DEF SweepLog, Goto
  <2>4. QED
    BY <2>2, <2>3
<1>8. ASSUME NEW s \in Sweepers, \/ SweepCheck(s) \/ SweepGiveUp(s)
                                 \/ SweepStampsFailure(s) \/ SweepThrows(s)
      PROVE SweepsNeedARow'
  BY <1>8 DEF SweepCheck, SweepGiveUp, SweepStampsFailure, SweepThrows, Goto
<1>9. ASSUME Tick PROVE SweepsNeedARow'
  BY <1>9 DEF Tick
<1>10. CASE UNCHANGED vars
  BY <1>10 DEF vars
<1>11. QED
  BY <1>1, <1>2, <1>3, <1>4, <1>5, <1>6, <1>7, <1>8, <1>9, <1>10
  DEF Next, DriverStep, SweepStep

\* A row is closed without an error by who has seen the handler through.
LEMMA ClosesAreHonest ==
  ASSUME TypeOK, SweepsNeedARow, VerdictsAreKept, NoSilentSuccess, [Next]_vars
  PROVE  VerdictsAreKept' /\ NoSilentSuccess'
<1> USE AreDrivers, WebhookAssumption DEF TypeOK, VerdictsAreKept, NoSilentSuccess, Succeeded
<1>1. ASSUME NEW w \in Workers, Deliver(w) PROVE VerdictsAreKept' /\ NoSilentSuccess'
  <2>1. w \in Drivers /\ LogRead(w) /\ w \notin Sweepers
    BY <1>1 DEF Deliver
  <2>2. QED
    BY <2>1, LogReadMoves
<1>2. ASSUME NEW w \in Workers, Create(w) PROVE VerdictsAreKept' /\ NoSilentSuccess'
  <2>1. w \in Drivers /\ UNCHANGED <<verdict, completed>>
    BY <1>2 DEF Create
  <2>2. CASE row' = NewRow /\ StartRun(w)
    BY <2>1, <2>2, StartRunMoves DEF NewRow
  <2>3. CASE NotNew(w) /\ UNCHANGED <<row, exists>>
    BY <2>1, <2>3, NotNewMoves
  <2>4. QED
    BY <1>2, <2>2, <2>3 DEF Create
<1>3. ASSUME NEW d \in Drivers, ClaimFailed(d) \/ ClaimStale(d)
      PROVE VerdictsAreKept' /\ NoSilentSuccess'
  <2>1. UNCHANGED <<exists, verdict, completed>>
    BY <1>3 DEF ClaimFailed, ClaimStale
  <2>2. CASE Restamp(d)
    BY <2>1, <2>2, RestampMoves, StartRunMoves
  <2>3. CASE NotNew(d) /\ UNCHANGED row
    BY <2>1, <2>3, NotNewMoves
  <2>4. QED
    BY <1>3, <2>2, <2>3 DEF ClaimFailed, ClaimStale
<1>4. ASSUME NEW d \in Drivers, Handle(d) PROVE VerdictsAreKept' /\ NoSilentSuccess'
  BY <1>4 DEF Handle, Goto, AfterRun
<1>5. ASSUME NEW d \in Drivers, Mark(d) PROVE VerdictsAreKept' /\ NoSilentSuccess'
  <2>1. VerdictsAreKept'
    BY <1>5 DEF Mark, Goto, AfterRun
  <2>2. row'.error = "none" => verdict[d] = "ok"
    BY <1>5 DEF Mark, ClosedWith, Rows, Verdicts
  <2>3. QED
    BY <1>5, <2>1, <2>2 DEF Mark
<1>6. ASSUME NEW d \in Drivers, Crash(d) PROVE VerdictsAreKept' /\ NoSilentSuccess'
  BY <1>6 DEF Crash, Goto
<1>7. ASSUME NEW s \in Sweepers, SweepSelect(s) \/ SweepCheck(s) \/ SweepThrows(s)
      PROVE VerdictsAreKept' /\ NoSilentSuccess'
  BY <1>7 DEF SweepSelect, SweepCheck, SweepThrows, Goto
<1>8. ASSUME NEW s \in Sweepers, SweepClaim(s) PROVE VerdictsAreKept' /\ NoSilentSuccess'
  BY <1>8 DEF SweepClaim, TakesOn, Goto, Rows
<1>9. ASSUME NEW s \in Sweepers, SweepLog(s) PROVE VerdictsAreKept' /\ NoSilentSuccess'
  <2>1. exists /\ s \in Drivers
    BY <1>9 DEF SweepLog, SweepsNeedARow
  <2>2. CASE LogRead(s)
    BY <2>1, <2>2, LogReadMoves
  <2>3. CASE ~LogRead(s)
    BY <1>9, <2>3 DEF SweepLog, Goto
  <2>4. QED
    BY <2>2, <2>3
<1>10. ASSUME NEW s \in Sweepers, SweepGiveUp(s) \/ SweepStampsFailure(s)
       PROVE VerdictsAreKept' /\ NoSilentSuccess'
  BY <1>10 DEF SweepGiveUp, SweepStampsFailure, ClosedWith, Goto, Rows
<1>11. ASSUME Tick PROVE VerdictsAreKept' /\ NoSilentSuccess'
  BY <1>11 DEF Tick, Rows
<1>12. CASE UNCHANGED vars
  BY <1>12 DEF vars
<1>13. QED
  BY <1>1, <1>2, <1>3, <1>4, <1>5, <1>6, <1>7, <1>8, <1>9, <1>10, <1>11, <1>12
  DEF Next, DriverStep, SweepStep

\* A write that closes or re-opens the row leaves the sweep's claim as it was.
LEMMA ClosingKeepsTheClaim ==
  ASSUME TypeOK, NEW v
  PROVE  /\ ClosedWith(v).claimed = row.claimed /\ ClosedWith(v).claimAge = row.claimAge
         /\ [row EXCEPT !.processed = TRUE, !.error = "gaveup"].claimed = row.claimed
         /\ [row EXCEPT !.processed = TRUE, !.error = "gaveup"].claimAge = row.claimAge
  BY DEF ClosedWith, TypeOK, Rows

Claims == CurrentReadsAreOld /\ ClaimsAreRecorded /\ ClaimsExclude

\* While the claim of a row stands, no step but a claim brings a sweep to work on it.
LEMMA ClaimsStand ==
  ASSUME TypeOK, Claims,
         row'.claimed = row.claimed, row'.claimAge = row.claimAge,
         readClaim' \subseteq readClaim,
         \A s \in Sweepers : pc'[s] \in TookOn => pc[s] \in TookOn /\ driveAge'[s] = driveAge[s]
  PROVE  Claims'
<1>1. CurrentReadsAreOld'
  BY DEF Claims, CurrentReadsAreOld
<1>2. ClaimsAreRecorded'
  BY DEF Claims, ClaimsAreRecorded
<1>3. ClaimsExclude'
  BY DEF Claims, ClaimsExclude
<1>4. QED
  BY <1>1, <1>2, <1>3 DEF Claims

\* The claim goes to a sweep whose read is current, so whoever claimed before it has had
\* the row for longer than the claim lasts.
LEMMA ClaimsHold ==
  ASSUME TypeOK, SweepsNeedARow, Claims, [Next]_vars
  PROVE  Claims'
<1> USE AreDrivers, Saturation, WebhookAssumption DEF TypeOK, TookOn
<1>1. ASSUME NEW w \in Workers, Deliver(w) PROVE Claims'
  <2>1. w \in Drivers /\ LogRead(w) /\ w \notin Sweepers
    BY <1>1 DEF Deliver
  <2>2. /\ UNCHANGED <<row, readClaim>>
        /\ \A s \in Sweepers : pc'[s] = pc[s] /\ driveAge'[s] = driveAge[s]
    BY <2>1, LogReadMoves
  <2>3. QED
    BY <2>2, ClaimsStand
<1>2. ASSUME NEW w \in Workers, Create(w) PROVE Claims'
  <2>1. w \in Drivers /\ w \notin Sweepers /\ UNCHANGED readClaim
    BY <1>2 DEF Create
  <2>2. CASE ~exists /\ row' = NewRow /\ StartRun(w)
    <3>1. \A s \in Sweepers : pc'[s] = "idle"
      BY <2>1, <2>2, StartRunMoves DEF SweepsNeedARow
    <3>2. ~row'.claimed
      BY <2>2 DEF NewRow
    <3>3. QED
      BY <3>1, <3>2 DEF Claims, CurrentReadsAreOld, ClaimsAreRecorded, ClaimsExclude
  <2>3. CASE NotNew(w) /\ UNCHANGED row
    BY <2>1, <2>3, NotNewMoves, ClaimsStand
  <2>4. QED
    BY <1>2, <2>2, <2>3 DEF Create
<1>3. ASSUME NEW d \in Drivers, ClaimFailed(d) \/ ClaimStale(d) PROVE Claims'
  <2>1. pc[d] \in {"retry", "restamp"} /\ UNCHANGED readClaim
    BY <1>3 DEF ClaimFailed, ClaimStale
  <2>2. CASE Restamp(d)
    <3>1. row'.claimed = row.claimed /\ row'.claimAge = row.claimAge /\ StartRun(d)
      BY <2>2, RestampMoves
    <3>2. \A s \in Sweepers : pc'[s] \in TookOn => pc[s] \in TookOn /\ driveAge'[s] = driveAge[s]
      BY <2>1, <3>1, StartRunMoves
    <3>3. QED
      BY <2>1, <3>1, <3>2, ClaimsStand
  <2>3. CASE NotNew(d) /\ UNCHANGED row
    BY <2>1, <2>3, NotNewMoves, ClaimsStand
  <2>4. QED
    BY <1>3, <2>2, <2>3 DEF ClaimFailed, ClaimStale
<1>4. ASSUME NEW d \in Drivers, Handle(d) \/ Crash(d) PROVE Claims'
  BY <1>4, ClaimsStand DEF Handle, Crash, Goto, AfterRun
<1>5. ASSUME NEW d \in Drivers, Mark(d) PROVE Claims'
  <2>1. row' = ClosedWith(verdict[d])
    BY <1>5 DEF Mark
  <2>2. row'.claimed = row.claimed /\ row'.claimAge = row.claimAge
    BY <2>1, ClosingKeepsTheClaim
  <2>3. QED
    BY <1>5, <2>2, ClaimsStand DEF Mark, Goto, AfterRun
<1>6. ASSUME NEW s \in Sweepers, SweepSelect(s) PROVE Claims'
  <2>1. UNCHANGED <<row, driveAge>> /\ pc' = [pc EXCEPT ![s] = "claim"]
    BY <1>6 DEF SweepSelect, Goto
  <2>2. CurrentReadsAreOld'
    BY <1>6 DEF SweepSelect, Sweepable, Claims, CurrentReadsAreOld
  <2>3. ClaimsAreRecorded' /\ ClaimsExclude'
    BY <2>1 DEF Claims, ClaimsAreRecorded, ClaimsExclude
  <2>4. QED
    BY <2>2, <2>3 DEF Claims
<1>7. ASSUME NEW s \in Sweepers, SweepClaim(s) PROVE Claims'
  <2>1. CASE s \notin readClaim
    BY <1>7, <2>1, ClaimsStand DEF SweepClaim, Goto
  <2>2. CASE s \in readClaim
    <3>1. /\ row' = [row EXCEPT !.claimed = TRUE, !.claimAge = 0] /\ readClaim' = {}
          /\ driveAge' = [driveAge EXCEPT ![s] = 0]
          /\ \A t \in Sweepers : t # s => pc'[t] = pc[t]
      BY <1>7, <2>2 DEF SweepClaim, TakesOn, Goto
    <3>2. row'.claimed /\ row'.claimAge = 0
      BY <3>1 DEF Rows
    <3>3. \A t \in Sweepers : driveAge'[t] \in Nat
      BY <3>1
    <3>4. CurrentReadsAreOld' /\ ClaimsAreRecorded'
      BY <3>1, <3>2, <3>3 DEF CurrentReadsAreOld, ClaimsAreRecorded
    <3>5. \A t \in Sweepers : t # s /\ pc[t] \in TookOn => driveAge[t] > SweepAfter
      BY <2>2, RowFields DEF Claims, CurrentReadsAreOld, ClaimsAreRecorded
    <3>6. ClaimsExclude'
      BY <3>1, <3>5 DEF Claims, ClaimsExclude
    <3>7. QED
      BY <3>4, <3>6 DEF Claims
  <2>3. QED
    BY <2>1, <2>2
<1>8. ASSUME NEW s \in Sweepers, SweepLog(s) PROVE Claims'
  <2>1. exists /\ s \in Drivers /\ pc[s] = "log"
    BY <1>8 DEF SweepLog, SweepsNeedARow
  <2>2. CASE LogRead(s)
    <3>1. /\ UNCHANGED <<row, readClaim>>
          /\ \A t \in Sweepers : driveAge'[t] = driveAge[t]
          /\ \A t \in Sweepers : t # s => pc'[t] = pc[t]
      BY <2>1, <2>2, LogReadMoves
    <3>2. QED
      BY <2>1, <3>1, ClaimsStand
  <2>3. CASE ~LogRead(s)
    BY <1>8, <2>3, ClaimsStand DEF SweepLog, Goto
  <2>4. QED
    BY <2>2, <2>3
<1>9. ASSUME NEW s \in Sweepers, SweepCheck(s) \/ SweepThrows(s) PROVE Claims'
  BY <1>9, ClaimsStand DEF SweepCheck, SweepThrows, Goto
<1>10. ASSUME NEW s \in Sweepers, SweepGiveUp(s) \/ SweepStampsFailure(s) PROVE Claims'
  <2>1. row'.claimed = row.claimed /\ row'.claimAge = row.claimAge
    BY <1>10, ClosingKeepsTheClaim DEF SweepGiveUp, SweepStampsFailure
  <2>2. QED
    BY <1>10, <2>1, ClaimsStand DEF SweepGiveUp, SweepStampsFailure, Goto
<1>11. ASSUME Tick PROVE Claims'
  <2>1. /\ row'.claimed = row.claimed /\ row'.claimAge = Older(row.claimAge)
        /\ \A s \in Sweepers : driveAge'[s] = Older(driveAge[s])
        /\ UNCHANGED <<pc, readClaim>>
    BY <1>11 DEF Tick, Rows
  <2>2. row.claimAge \in Ages /\ \A s \in Sweepers : driveAge[s] \in Ages
    BY RowFields
  <2>3. CurrentReadsAreOld'
    BY <2>1, <2>2 DEF Claims, CurrentReadsAreOld
  <2>4. ClaimsAreRecorded'
    BY <2>1, <2>2 DEF Claims, ClaimsAreRecorded
  <2>5. ClaimsExclude'
    <3>1. \A s \in Sweepers : driveAge[s] > SweepAfter => Older(driveAge[s]) > SweepAfter
      BY <2>2
    <3>2. QED
      BY <2>1, <3>1 DEF Claims, ClaimsExclude
  <2>6. QED
    BY <2>3, <2>4, <2>5 DEF Claims
<1>12. CASE UNCHANGED vars
  BY <1>12, ClaimsStand DEF vars
<1>13. QED
  BY <1>1, <1>2, <1>3, <1>4, <1>5, <1>6, <1>7, <1>8, <1>9, <1>10, <1>11, <1>12
  DEF Next, DriverStep, SweepStep

----------------------------------------------------------------------------
LEMMA InvariantStart == Init => IInv
<1> SUFFICES ASSUME Init PROVE IInv
  OBVIOUS
<1> USE AreDrivers, Saturation, WebhookAssumption DEF Init
<1>1. TypeOK
  <2>1. row \in Rows
    BY DEF NewRow, Rows, Errors
  <2>2. 0 \in 0 .. MaxDeliveries /\ 0 \in 0 .. MaxFaults
    OBVIOUS
  <2>3. pc \in [Drivers -> Steps] /\ verdict \in [Drivers -> Verdicts]
    BY DEF Steps, Verdicts
  <2>4. QED
    BY <2>1, <2>2, <2>3 DEF TypeOK
<1>2. NoSilentSuccess /\ SweepsNeedARow /\ VerdictsAreKept
  BY DEF NoSilentSuccess, Succeeded, SweepsNeedARow, VerdictsAreKept
<1>3. CurrentReadsAreOld /\ ClaimsAreRecorded /\ ClaimsExclude
  BY DEF CurrentReadsAreOld, ClaimsAreRecorded, ClaimsExclude, TookOn
<1>4. QED
  BY <1>1, <1>2, <1>3 DEF IInv

LEMMA InvariantStep == IInv /\ [Next]_vars => IInv'
<1> SUFFICES ASSUME IInv, [Next]_vars PROVE IInv'
  OBVIOUS
<1>1. TypeOK' /\ SweepsNeedARow'
  BY TypesArePreserved, RowsAreThere DEF IInv
<1>2. VerdictsAreKept' /\ NoSilentSuccess'
  BY ClosesAreHonest DEF IInv
<1>3. CurrentReadsAreOld' /\ ClaimsAreRecorded' /\ ClaimsExclude'
  BY ClaimsHold DEF IInv, Claims
<1>4. QED
  BY <1>1, <1>2, <1>3 DEF IInv

LEMMA Invariance == Spec => []IInv
  BY InvariantStart, InvariantStep, PTL DEF Spec

----------------------------------------------------------------------------
\* The row, the drivers and the ages stay in their ranges, whoever crashes where; a row
\* is never closed with the verdict of a handler run that deferred.
THEOREM EventTypes == Spec => []TypeOK
<1>1. IInv => TypeOK
  BY DEF IInv
<1>2. QED
  BY <1>1, Invariance, PTL

\* A WebhookEvent row that reads processed without an error belongs to an event whose
\* handler has returned, however many deliveries and sweeps drove it and died.
THEOREM SuccessIsNeverSilent == Spec => []NoSilentSuccess
<1>1. IInv => NoSilentSuccess
  BY DEF IInv
<1>2. QED
  BY <1>1, Invariance, PTL

\* Two entries of the sweep drive one event together only if one of them has outlived
\* the staleMinutes its claim of claimedAt stands for.
THEOREM ClaimKeepsSweepsApart == Spec => []SweepsExclude
<1>1. IInv => SweepsExclude
  BY DEF IInv, ClaimsExclude, SweepsExclude, Driving, TookOn
<1>2. QED
  BY <1>1, Invariance, PTL
=============================================================================
