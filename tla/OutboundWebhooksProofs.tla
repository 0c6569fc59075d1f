----------------------- MODULE OutboundWebhooksProofs -----------------------
(***************************************************************************)
(* Proofs about OutboundWebhooks, for every number of ticks and deliveries *)
(* and every bound: types, and what the cron lock buys as long as it       *)
(* outlives its ticks.                                                     *)
(***************************************************************************)
EXTENDS OutboundWebhooks, TLAPS

Queueing == {"PENDING", "RETRY", "IN_FLIGHT"}
Sending  == {"post"} \cup Answers

\* A delivery that is not settled has an attempt left, in the table and in every
\* copy, and only such a delivery is ever copied.
AttemptsAreLeft ==
    /\ \A d \in Deliveries :
          /\ delivery[d].status = "none" => delivery[d].attempts = 0
          /\ ~IsSettled(d) => delivery[d].attempts < MaxAttempts
          /\ delivery[d].status = "DEAD_LETTER" => delivery[d].attempts = MaxAttempts
    /\ \A t \in Ticks : \A c \in batch[t] :
          c.status \in Queueing /\ c.attempts < MaxAttempts
    /\ \A t \in Ticks : pc[t] \in Sending => current[t].attempts < MaxAttempts

\* Whoever is in the middle of a tick holds the lock, and only there a tick has
\* copies.
LockIsHeld ==
    /\ \A t \in Ticks : pc[t] \in {"idle", "select", "release"} => batch[t] = {}
    /\ overruns = 0 => \A t \in Ticks : pc[t] # "idle" => lock = t

\* The copies still to be visited are the rows as they stand, and the delivery
\* being sent is in flight with the attempts its copy says.
CopiesAreCurrent ==
    overruns = 0 =>
        \A t \in Ticks :
           /\ \A c \in batch[t] : c = CopyOf(c.id)
           /\ pc[t] \in Sending =>
                 /\ \A c \in batch[t] : c.id # current[t].id
                 /\ delivery[current[t].id].status = "IN_FLIGHT"
                 /\ delivery[current[t].id].attempts = current[t].attempts

\* The POSTs and the 2xx answers of a round, with those not yet written down.
PostsAreRecorded ==
    overruns = 0 =>
        /\ \A t \in Ticks :
              /\ pc[t] \in Answers => current[t].attempts + 1 <= posts[current[t].id]
              /\ pc[t] = "accepted" => current[t].id \in accepted
        /\ \A d \in Deliveries :
              /\ delivery[d].attempts <= posts[d]
              /\ posts[d] <= delivery[d].attempts + faults + 1
              /\ ~Recording(d) => posts[d] <= delivery[d].attempts + faults
              /\ delivery[d].status = "SUCCESS" => d \in accepted

IInv ==
    /\ TypeOK
    /\ AttemptsAreLeft
    /\ LockIsHeld
    /\ CopiesAreCurrent
    /\ PostsAreRecorded

----------------------------------------------------------------------------

\* Only the last attempt makes a dead letter, and only another one leaves the
\* delivery unsettled.
LEMMA OutcomeOfAttempt ==
  ASSUME NEW t \in Ticks, pc[t] \in Answers,
         MaxAttempts \in Nat, current[t].attempts \in Nat,
         current[t].attempts < MaxAttempts
  PROVE  /\ Outcome(t) \notin Settled => Attempt(t) < MaxAttempts
         /\ Outcome(t) = "DEAD_LETTER" => Attempt(t) = MaxAttempts
         /\ Outcome(t) = "SUCCESS" => pc[t] = "accepted"
         /\ Outcome(t) \in {"SUCCESS", "FAILED", "DEAD_LETTER", "RETRY"}
<1>1. CASE pc[t] = "accepted"
  BY <1>1 DEF Outcome, Settled
<1>2. CASE pc[t] = "rejected"
  BY <1>2 DEF Outcome, Settled
<1>3. CASE pc[t] = "transient" /\ LastAttempt(t)
  <2>1. Outcome(t) = "DEAD_LETTER"
    BY <1>3 DEF Outcome
  <2>2. Attempt(t) = MaxAttempts
    BY <1>3 DEF LastAttempt, Attempt
  <2>3. QED
    BY <2>1, <2>2 DEF Settled
<1>4. CASE pc[t] = "transient" /\ ~LastAttempt(t)
  <2>1. Outcome(t) = "RETRY"
    BY <1>4 DEF Outcome
  <2>2. Attempt(t) < MaxAttempts
    BY <1>4 DEF LastAttempt, Attempt
  <2>3. QED
    BY <2>1, <2>2
<1>5. QED
  BY <1>1, <1>2, <1>3, <1>4 DEF Answers

\* Every step preserves the types.
LEMMA TypesArePreserved ==
  ASSUME TypeOK, AttemptsAreLeft, [Next]_vars
  PROVE  TypeOK'
<1> USE OutboundAssumption DEF TypeOK, AttemptsAreLeft, Rows, Copies, Statuses, Settled,
      Endpoints, Answers, Steps, Queueing, Sending, Goto, Write, Restate, IsSettled, Queued,
      Unqueued
<1>1. ASSUME NEW t \in Ticks, Acquire(t) PROVE TypeOK'
  BY <1>1 DEF Acquire, rows, table, tick, count, hist
<1>2. ASSUME NEW t \in Ticks, Select(t) PROVE TypeOK'
  <2>1. \A e \in Deliveries : CopyOf(e) \in Copies
    BY DEF CopyOf
  <2>2. batch' \in [Ticks -> SUBSET Copies]
    BY <1>2, <2>1 DEF Select
  <2>3. QED
    BY <1>2, <2>2 DEF Select, rows, table, count, hist
<1>3. ASSUME NEW t \in Ticks, Abort(t) PROVE TypeOK'
  <2>1. PICK c \in batch[t] :
              /\ Visit(t, c)
              /\ Restate(c.id, "FAILED")
    BY <1>3 DEF Abort
  <2>2. c \in Copies /\ c.id \in Deliveries
    OBVIOUS
  <2>3. [status |-> "FAILED", attempts |-> delivery[c.id].attempts] \in Rows
    BY <2>2
  <2>4. delivery' \in [Deliveries -> Rows]
    BY <2>1, <2>2, <2>3
  <2>5. batch' \in [Ticks -> SUBSET Copies]
    BY <2>1 DEF Visit
  <2>6. QED
    BY <1>3, <2>1, <2>4, <2>5 DEF Abort, Visit, table, hist, count
<1>4. ASSUME NEW t \in Ticks, NEW c \in batch[t], Claim(t, c) PROVE TypeOK'
  <2>1. c \in Copies /\ c.id \in Deliveries
    OBVIOUS
  <2>2. [status |-> "IN_FLIGHT", attempts |-> delivery[c.id].attempts] \in Rows
    BY <2>1
  <2>3. delivery' \in [Deliveries -> Rows]
    BY <1>4, <2>1, <2>2 DEF Claim
  <2>4. batch' \in [Ticks -> SUBSET Copies] /\ current' \in [Ticks -> Copies \cup {Nobody}]
    BY <1>4, <2>1 DEF Claim, Visit
  <2>5. \A u \in Ticks : pc'[u] \in {"post"} \cup Answers => current'[u] \in Copies
    BY <1>4, <2>1 DEF Claim
  <2>6. QED
    BY <1>4, <2>3, <2>4, <2>5 DEF Claim, Visit, table, hist, count
<1>5. ASSUME NEW t \in Ticks, NEW c \in batch[t], LoseClaim(t, c) PROVE TypeOK'
  BY <1>5 DEF LoseClaim, Visit, table, hist, count
<1>6. ASSUME NEW t \in Ticks, Post(t) PROVE TypeOK'
  BY <1>6 DEF Post, rows, table, tick, count, hist
<1>7. ASSUME NEW t \in Ticks, Record(t) PROVE TypeOK'
  <2>1. current[t] \in Copies /\ current[t].id \in Deliveries
    BY <1>7 DEF Record
  <2>2. Outcome(t) \in Statuses /\ Attempt(t) \in 0 .. MaxAttempts
    BY <1>7, <2>1 DEF Record, Outcome, Attempt
  <2>3. delivery' \in [Deliveries -> Rows]
    BY <1>7, <2>1, <2>2 DEF Record
  <2>4. QED
    BY <1>7, <2>3 DEF Record, count, hist
<1>8. ASSUME NEW t \in Ticks, Credit(t) PROVE TypeOK'
  BY <1>8 DEF Credit, rows, table, tick, count, hist
<1>9. ASSUME NEW t \in Ticks, Blame(t) PROVE TypeOK'
  BY <1>9 DEF Blame, rows, table, tick, count, hist
<1>10. ASSUME NEW t \in Ticks, Disable(t) PROVE TypeOK'
  BY <1>10 DEF Disable, rows, table, tick, count, hist
<1>11. ASSUME NEW t \in Ticks, Finish(t) PROVE TypeOK'
  BY <1>11 DEF Finish, rows, table, tick, count, hist
<1>12. ASSUME NEW t \in Ticks, Release(t) PROVE TypeOK'
  BY <1>12 DEF Release, rows, table, tick, count, hist
<1>13. ASSUME NEW t \in Ticks, Throw(t) PROVE TypeOK'
  BY <1>13 DEF Throw, Fails, rows, table, hist
<1>14. ASSUME NEW t \in Ticks, Crash(t) PROVE TypeOK'
  BY <1>14 DEF Crash, Fails, rows, table, hist
<1>15. ASSUME NEW d \in Deliveries, Ripen(d) PROVE TypeOK'
  BY <1>15 DEF Ripen, rows, table, tick, count, hist
<1>16. ASSUME NEW d \in Deliveries, Dispatch(d) PROVE TypeOK'
  BY <1>16 DEF Dispatch, rows, table, tick, count, hist
<1>17. ASSUME NEW d \in Deliveries, Redeliver(d) PROVE TypeOK'
  BY <1>17 DEF Redeliver, Replayable, Requeued, tick
<1>18. ASSUME NEW e \in Endpoints, Patch(e) PROVE TypeOK'
  BY <1>18 DEF Patch, rows, table, tick, count, hist
<1>19. ASSUME Expire PROVE TypeOK'
  BY <1>19 DEF Expire, rows, table, tick, count, hist
<1>20. ASSUME Overrun PROVE TypeOK'
  BY <1>20 DEF Overrun, rows, table, tick, count, hist
<1>21. ASSUME UNCHANGED vars PROVE TypeOK'
  BY <1>21 DEF vars, rows, table, tick, count, hist
<1>22. QED
  BY <1>1, <1>2, <1>3, <1>4, <1>5, <1>6, <1>7, <1>8, <1>9, <1>10, <1>11, <1>12, <1>13, <1>14,
        <1>15, <1>16, <1>17, <1>18, <1>19, <1>20, <1>21 DEF Next, Work

\* Every step leaves an unsettled delivery an attempt.
LEMMA AttemptsArePreserved ==
  ASSUME TypeOK, AttemptsAreLeft, [Next]_vars
  PROVE  AttemptsAreLeft'
<1> USE OutboundAssumption DEF TypeOK, AttemptsAreLeft, Rows, Copies, Statuses, Settled,
      Endpoints, Answers, Steps, Queueing, Sending, Goto, Write, Restate, IsSettled, Queued,
      Unqueued
<1>1. ASSUME NEW t \in Ticks, Acquire(t) PROVE AttemptsAreLeft'
  BY <1>1 DEF Acquire, rows, table, tick, count, hist
<1>2. ASSUME NEW t \in Ticks, Select(t) PROVE AttemptsAreLeft'
  <2>1. \A e \in Deliveries :
              Selectable(e) =>
                 CopyOf(e).status \in Queueing /\ CopyOf(e).attempts < MaxAttempts
    BY DEF Selectable, CopyOf
  <2>2. QED
    BY <1>2, <2>1 DEF Select, rows, table
<1>3. ASSUME NEW t \in Ticks, Abort(t) PROVE AttemptsAreLeft'
  BY <1>3 DEF Abort, Visit, table, hist, count
<1>4. ASSUME NEW t \in Ticks, NEW c \in batch[t], Claim(t, c) PROVE AttemptsAreLeft'
  BY <1>4 DEF Claim, Visit, table, hist, count
<1>5. ASSUME NEW t \in Ticks, NEW c \in batch[t], LoseClaim(t, c) PROVE AttemptsAreLeft'
  BY <1>5 DEF LoseClaim, Visit, table, hist, count
<1>6. ASSUME NEW t \in Ticks, Post(t) PROVE AttemptsAreLeft'
  BY <1>6 DEF Post, rows, table, tick, count, hist
<1>7. ASSUME NEW t \in Ticks, Record(t) PROVE AttemptsAreLeft'
  <2>1. current[t] \in Copies /\ current[t].id \in Deliveries
    BY <1>7 DEF Record
  <2>2. current[t].attempts + 1 <= MaxAttempts
    BY <1>7, <2>1 DEF Record
  <2>3. ASSUME NEW d \in Deliveries
        PROVE  /\ ~IsSettled(d)' => delivery'[d].attempts < MaxAttempts
               /\ delivery'[d].status = "DEAD_LETTER" => delivery'[d].attempts = MaxAttempts
               /\ delivery'[d].status = "none" => delivery'[d].attempts = 0
    <3>1. CASE d = current[t].id
      <4>1. delivery'[d].status = Outcome(t) /\ delivery'[d].attempts = Attempt(t)
        BY <1>7, <2>1, <3>1 DEF Record
      <4>2. /\ Outcome(t) \notin Settled => Attempt(t) < MaxAttempts
            /\ Outcome(t) = "DEAD_LETTER" => Attempt(t) = MaxAttempts
            /\ Outcome(t) # "none"
        BY <1>7, <2>1, <2>2, OutcomeOfAttempt DEF Record
      <4>3. QED
        BY <4>1, <4>2
    <3>2. CASE d # current[t].id
      BY <1>7, <2>1, <3>2 DEF Record
    <3>3. QED
      BY <3>1, <3>2
  <2>4. QED
    BY <1>7, <2>3 DEF Record
<1>8. ASSUME NEW t \in Ticks, Credit(t) PROVE AttemptsAreLeft'
  BY <1>8 DEF Credit, rows, table, tick, count, hist
<1>9. ASSUME NEW t \in Ticks, Blame(t) PROVE AttemptsAreLeft'
  BY <1>9 DEF Blame, rows, table, tick, count, hist
<1>10. ASSUME NEW t \in Ticks, Disable(t) PROVE AttemptsAreLeft'
  BY <1>10 DEF Disable, rows, table, tick, count, hist
<1>11. ASSUME NEW t \in Ticks, Finish(t) PROVE AttemptsAreLeft'
  BY <1>11 DEF Finish, rows, table, tick, count, hist
<1>12. ASSUME NEW t \in Ticks, Release(t) PROVE AttemptsAreLeft'
  BY <1>12 DEF Release, rows, table, tick, count, hist
<1>13. ASSUME NEW t \in Ticks, Throw(t) PROVE AttemptsAreLeft'
  BY <1>13 DEF Throw, Fails, rows, table, hist
<1>14. ASSUME NEW t \in Ticks, Crash(t) PROVE AttemptsAreLeft'
  BY <1>14 DEF Crash, Fails, rows, table, hist
<1>15. ASSUME NEW d \in Deliveries, Ripen(d) PROVE AttemptsAreLeft'
  BY <1>15 DEF Ripen, rows, table, tick, count, hist
<1>16. ASSUME NEW d \in Deliveries, Dispatch(d) PROVE AttemptsAreLeft'
  BY <1>16 DEF Dispatch, rows, table, tick, count, hist
<1>17. ASSUME NEW d \in Deliveries, Redeliver(d) PROVE AttemptsAreLeft'
  BY <1>17 DEF Redeliver, Replayable, Requeued, tick
<1>18. ASSUME NEW e \in Endpoints, Patch(e) PROVE AttemptsAreLeft'
  BY <1>18 DEF Patch, rows, table, tick, count, hist
<1>19. ASSUME Expire PROVE AttemptsAreLeft'
  BY <1>19 DEF Expire, rows, table, tick, count, hist
<1>20. ASSUME Overrun PROVE AttemptsAreLeft'
  BY <1>20 DEF Overrun, rows, table, tick, count, hist
<1>21. ASSUME UNCHANGED vars PROVE AttemptsAreLeft'
  BY <1>21 DEF vars, rows, table, tick, count, hist
<1>22. QED
  BY <1>1, <1>2, <1>3, <1>4, <1>5, <1>6, <1>7, <1>8, <1>9, <1>10, <1>11, <1>12, <1>13, <1>14,
        <1>15, <1>16, <1>17, <1>18, <1>19, <1>20, <1>21 DEF Next, Work

\* Every step leaves a live tick its lock, overruns apart.
LEMMA LockIsKept ==
  ASSUME TypeOK, LockIsHeld, [Next]_vars
  PROVE  LockIsHeld'
<1> USE OutboundAssumption DEF TypeOK, LockIsHeld, Steps, Answers, Goto
<1>1. ASSUME NEW t \in Ticks, Acquire(t) PROVE LockIsHeld'
  BY <1>1 DEF Acquire, rows, table, tick, count, hist
<1>2. ASSUME NEW t \in Ticks, Select(t) PROVE LockIsHeld'
  BY <1>2 DEF Select, Selectable, CopyOf, rows, table, count, hist
<1>3. ASSUME NEW t \in Ticks, Abort(t) PROVE LockIsHeld'
  <2>1. pc' = pc /\ lock' = lock /\ overruns' = overruns
    BY <1>3 DEF Abort, Visit, count
  <2>2. \A u \in Ticks : u # t => batch'[u] = batch[u]
    BY <1>3 DEF Abort, Visit
  <2>3. pc[t] = "abort"
    BY <1>3 DEF Abort
  <2>4. QED
    BY <2>1, <2>2, <2>3
<1>4. ASSUME NEW t \in Ticks, NEW c \in batch[t], Claim(t, c) PROVE LockIsHeld'
  BY <1>4 DEF Claim, Visit, table, hist, count
<1>5. ASSUME NEW t \in Ticks, NEW c \in batch[t], LoseClaim(t, c) PROVE LockIsHeld'
  BY <1>5 DEF LoseClaim, Visit, table, hist, count
<1>6. ASSUME NEW t \in Ticks, Post(t) PROVE LockIsHeld'
  BY <1>6 DEF Post, rows, table, tick, count, hist
<1>7. ASSUME NEW t \in Ticks, Record(t) PROVE LockIsHeld'
  BY <1>7 DEF Record, count, hist
<1>8. ASSUME NEW t \in Ticks, Credit(t) PROVE LockIsHeld'
  BY <1>8 DEF Credit, rows, table, tick, count, hist
<1>9. ASSUME NEW t \in Ticks, Blame(t) PROVE LockIsHeld'
  BY <1>9 DEF Blame, rows, table, tick, count, hist
<1>10. ASSUME NEW t \in Ticks, Disable(t) PROVE LockIsHeld'
  BY <1>10 DEF Disable, rows, table, tick, count, hist
<1>11. ASSUME NEW t \in Ticks, Finish(t) PROVE LockIsHeld'
  BY <1>11 DEF Finish, rows, table, tick, count, hist
<1>12. ASSUME NEW t \in Ticks, Release(t) PROVE LockIsHeld'
  BY <1>12 DEF Release, rows, table, tick, count, hist
<1>13. ASSUME NEW t \in Ticks, Throw(t) PROVE LockIsHeld'
  BY <1>13 DEF Throw, Fails, rows, table, hist
<1>14. ASSUME NEW t \in Ticks, Crash(t) PROVE LockIsHeld'
  BY <1>14 DEF Crash, Fails, rows, table, hist
<1>15. ASSUME NEW d \in Deliveries, Ripen(d) PROVE LockIsHeld'
  BY <1>15 DEF Ripen, rows, table, tick, count, hist
<1>16. ASSUME NEW d \in Deliveries, Dispatch(d) PROVE LockIsHeld'
  BY <1>16 DEF Dispatch, rows, table, tick, count, hist
<1>17. ASSUME NEW d \in Deliveries, Redeliver(d) PROVE LockIsHeld'
  BY <1>17 DEF Redeliver, Replayable, Requeued, tick
<1>18. ASSUME NEW e \in Endpoints, Patch(e) PROVE LockIsHeld'
  BY <1>18 DEF Patch, rows, table, tick, count, hist
<1>19. ASSUME Expire PROVE LockIsHeld'
  BY <1>19 DEF Expire, rows, table, tick, count, hist
<1>20. ASSUME Overrun PROVE LockIsHeld'
  BY <1>20 DEF Overrun, rows, table, tick, count, hist
<1>21. ASSUME UNCHANGED vars PROVE LockIsHeld'
  BY <1>21 DEF vars, rows, table, tick, count, hist
<1>22. QED
  BY <1>1, <1>2, <1>3, <1>4, <1>5, <1>6, <1>7, <1>8, <1>9, <1>10, <1>11, <1>12, <1>13, <1>14,
        <1>15, <1>16, <1>17, <1>18, <1>19, <1>20, <1>21 DEF Next, Work

\* While the lock is held by its tick, nobody else is in a tick.
LEMMA OthersRest ==
  ASSUME LockIsHeld, overruns = 0, NEW t \in Ticks, pc[t] # "idle"
  PROVE  \A u \in Ticks : u # t => pc[u] = "idle" /\ batch[u] = {}
BY DEF LockIsHeld

\* Every step keeps the copies current: nobody but the tick itself writes the rows
\* it has copied.
LEMMA CopiesStayCurrent ==
  ASSUME TypeOK, AttemptsAreLeft, LockIsHeld, CopiesAreCurrent, [Next]_vars
  PROVE  CopiesAreCurrent'
<1> USE OutboundAssumption DEF TypeOK, CopiesAreCurrent, Copies, Rows, Answers, Sending,
      CopyOf, Goto, Write, Restate, Steps
<1>1. ASSUME NEW t \in Ticks, Acquire(t) PROVE CopiesAreCurrent'
  BY <1>1 DEF Acquire, rows, table, tick, count, hist
<1>2. ASSUME NEW t \in Ticks, Select(t) PROVE CopiesAreCurrent'
  BY <1>2, OthersRest DEF Select, rows, table, count, hist
<1>3. ASSUME NEW t \in Ticks, Abort(t) PROVE CopiesAreCurrent'
  BY <1>3, OthersRest DEF Abort, Visit, hist, count
<1>4. ASSUME NEW t \in Ticks, NEW c \in batch[t], Claim(t, c) PROVE CopiesAreCurrent'
  BY <1>4, OthersRest DEF Claim, Visit, hist, count
<1>5. ASSUME NEW t \in Ticks, NEW c \in batch[t], LoseClaim(t, c) PROVE CopiesAreCurrent'
  BY <1>5 DEF LoseClaim, Visit, table, hist, count
<1>6. ASSUME NEW t \in Ticks, Post(t) PROVE CopiesAreCurrent'
  BY <1>6 DEF Post, rows, table, tick, count, hist
<1>7. ASSUME NEW t \in Ticks, Record(t) PROVE CopiesAreCurrent'
  BY <1>7, OthersRest DEF Record, count, hist
<1>8. ASSUME NEW t \in Ticks, Credit(t) PROVE CopiesAreCurrent'
  BY <1>8 DEF Credit, rows, table, tick, count, hist
<1>9. ASSUME NEW t \in Ticks, Blame(t) PROVE CopiesAreCurrent'
  BY <1>9 DEF Blame, rows, table, tick, count, hist
<1>10. ASSUME NEW t \in Ticks, Disable(t) PROVE CopiesAreCurrent'
  BY <1>10 DEF Disable, rows, table, tick, count, hist
<1>11. ASSUME NEW t \in Ticks, Finish(t) PROVE CopiesAreCurrent'
  BY <1>11 DEF Finish, rows, table, tick, count, hist
<1>12. ASSUME NEW t \in Ticks, Release(t) PROVE CopiesAreCurrent'
  BY <1>12 DEF Release, rows, table, tick, count, hist
<1>13. ASSUME NEW t \in Ticks, Throw(t) PROVE CopiesAreCurrent'
  BY <1>13 DEF Throw, Fails, rows, table, hist
<1>14. ASSUME NEW t \in Ticks, Crash(t) PROVE CopiesAreCurrent'
  BY <1>14 DEF Crash, Fails, rows, table, hist
<1>15. ASSUME NEW d \in Deliveries, Ripen(d) PROVE CopiesAreCurrent'
  BY <1>15 DEF Ripen, tick, count, hist
<1>16. ASSUME NEW d \in Deliveries, Dispatch(d) PROVE CopiesAreCurrent'
  BY <1>16 DEF Dispatch, tick, count, hist, AttemptsAreLeft, Queueing, Queued
<1>17. ASSUME NEW d \in Deliveries, Redeliver(d) PROVE CopiesAreCurrent'
  BY <1>17 DEF Redeliver, tick, AttemptsAreLeft, Queueing, Replayable, Settled, Requeued, Queued
<1>18. ASSUME NEW e \in Endpoints, Patch(e) PROVE CopiesAreCurrent'
  BY <1>18 DEF Patch, rows, table, tick, count, hist
<1>19. ASSUME Expire PROVE CopiesAreCurrent'
  BY <1>19 DEF Expire, rows, table, tick, count, hist
<1>20. ASSUME Overrun PROVE CopiesAreCurrent'
  BY <1>20 DEF Overrun, rows, table, tick, count, hist
<1>21. ASSUME UNCHANGED vars PROVE CopiesAreCurrent'
  BY <1>21 DEF vars, rows, table, tick, count, hist
<1>22. QED
  BY <1>1, <1>2, <1>3, <1>4, <1>5, <1>6, <1>7, <1>8, <1>9, <1>10, <1>11, <1>12, <1>13, <1>14,
        <1>15, <1>16, <1>17, <1>18, <1>19, <1>20, <1>21 DEF Next, Work

\* Every step keeps the account of the POSTs.
LEMMA PostsStayRecorded ==
  ASSUME TypeOK, AttemptsAreLeft, LockIsHeld, CopiesAreCurrent, PostsAreRecorded, [Next]_vars
  PROVE  PostsAreRecorded'
<1> USE OutboundAssumption DEF TypeOK, PostsAreRecorded, Copies, Rows, Answers, Goto, Write,
      Restate, Steps, Recording
<1>1. ASSUME NEW t \in Ticks, Acquire(t) PROVE PostsAreRecorded'
  BY <1>1 DEF Acquire, rows, table, tick, count, hist
<1>2. ASSUME NEW t \in Ticks, Select(t) PROVE PostsAreRecorded'
  BY <1>2 DEF Select, Selectable, CopyOf, rows, table, count, hist
<1>3. ASSUME NEW t \in Ticks, Abort(t) PROVE PostsAreRecorded'
  BY <1>3 DEF Abort, Visit, table, hist, count
<1>4. ASSUME NEW t \in Ticks, NEW c \in batch[t], Claim(t, c) PROVE PostsAreRecorded'
  BY <1>4 DEF Claim, Visit, table, hist, count
<1>5. ASSUME NEW t \in Ticks, NEW c \in batch[t], LoseClaim(t, c) PROVE PostsAreRecorded'
  BY <1>5 DEF LoseClaim, Visit, table, hist, count
<1>6. ASSUME NEW t \in Ticks, Post(t) PROVE PostsAreRecorded'
  <2> SUFFICES ASSUME overruns' = 0 PROVE PostsAreRecorded'
    BY DEF PostsAreRecorded
  <2> DEFINE e == current[t].id
  <2>1. /\ overruns = 0 /\ delivery' = delivery /\ faults' = faults
        /\ current' = current /\ pc[t] = "post"
        /\ posts' = [posts EXCEPT ![e] = posts[e] + 1]
        /\ accepted \subseteq accepted'
        /\ e \in Deliveries
    BY <1>6 DEF Post, rows, table, tick, count
  <2>2. \A u \in Ticks : u # t => pc[u] = "idle" /\ pc'[u] = "idle"
    BY <1>6, <2>1, OthersRest DEF Post
  <2>3. delivery[e].attempts = current[t].attempts
    BY <2>1 DEF CopiesAreCurrent, Sending
  <2>4. posts[e] <= delivery[e].attempts + faults /\ delivery[e].attempts <= posts[e]
    BY <2>1, <2>2
  <2>5. \A u \in Ticks :
           /\ pc'[u] \in Answers => current'[u].attempts + 1 <= posts'[current'[u].id]
           /\ pc'[u] = "accepted" => current'[u].id \in accepted'
    <3>1. posts'[e] = posts[e] + 1
      BY <2>1
    <3>2. pc'[t] = "accepted" => e \in accepted'
      BY <1>6, <2>1 DEF Post
    <3>3. QED
      BY <2>1, <2>2, <2>3, <2>4, <3>1, <3>2
  <2>6. \E u \in Ticks : pc'[u] \in Answers /\ current'[u].id = e
    BY <1>6, <2>1 DEF Post
  <2>7. ASSUME NEW d \in Deliveries
        PROVE  /\ delivery'[d].attempts <= posts'[d]
               /\ posts'[d] <= delivery'[d].attempts + faults' + 1
               /\ ~Recording(d)' => posts'[d] <= delivery'[d].attempts + faults'
               /\ delivery'[d].status = "SUCCESS" => d \in accepted'
    <3>1. CASE d = e
      BY <2>1, <2>4, <2>6, <3>1
    <3>2. CASE d # e
      <4>1. ~Recording(d)
        BY <2>1, <2>2
      <4>2. QED
        BY <2>1, <3>2, <4>1
    <3>3. QED
      BY <3>1, <3>2
  <2>8. QED
    BY <2>5, <2>7
<1>7. ASSUME NEW t \in Ticks, Record(t) PROVE PostsAreRecorded'
  <2> SUFFICES ASSUME overruns' = 0 PROVE PostsAreRecorded'
    BY DEF PostsAreRecorded
  <2> DEFINE e == current[t].id
  <2>1. /\ overruns = 0 /\ faults' = faults /\ posts' = posts /\ accepted' = accepted
        /\ pc[t] \in Answers /\ e \in Deliveries
        /\ current[t].attempts \in Nat /\ current[t].attempts < MaxAttempts
    BY <1>7 DEF Record, count, hist, AttemptsAreLeft, Sending
  <2>2. \A u \in Ticks : pc'[u] \notin Answers
    BY <1>7, <2>1, OthersRest DEF Record
  <2>3. delivery'[e].attempts = delivery[e].attempts + 1
    BY <1>7, <2>1 DEF Record, Attempt, CopiesAreCurrent, Sending
  <2>4. delivery'[e].status = "SUCCESS" => e \in accepted
    <3>1. delivery'[e].status = Outcome(t)
      BY <1>7, <2>1 DEF Record
    <3>2. QED
      BY <2>1, <3>1, OutcomeOfAttempt
  <2>5. delivery[e].attempts + 1 <= posts[e]
    BY <2>1 DEF CopiesAreCurrent, Sending
  <2>6. ASSUME NEW d \in Deliveries
        PROVE  /\ delivery'[d].attempts <= posts'[d]
               /\ posts'[d] <= delivery'[d].attempts + faults'
               /\ posts'[d] <= delivery'[d].attempts + faults' + 1
               /\ delivery'[d].status = "SUCCESS" => d \in accepted'
    <3>1. CASE d = e
      BY <2>1, <2>3, <2>4, <2>5, <3>1
    <3>2. CASE d # e
      <4>1. delivery'[d] = delivery[d]
        BY <1>7, <3>2 DEF Record
      <4>2. ~Recording(d)
        BY <2>1, <3>2, OthersRest
      <4>3. QED
        BY <2>1, <4>1, <4>2
    <3>3. QED
      BY <3>1, <3>2
  <2>7. QED
    BY <2>1, <2>2, <2>6
<1>8. ASSUME NEW t \in Ticks, Credit(t) PROVE PostsAreRecorded'
  BY <1>8 DEF Credit, rows, table, tick, count, hist
<1>9. ASSUME NEW t \in Ticks, Blame(t) PROVE PostsAreRecorded'
  BY <1>9 DEF Blame, rows, table, tick, count, hist
<1>10. ASSUME NEW t \in Ticks, Disable(t) PROVE PostsAreRecorded'
  BY <1>10 DEF Disable, rows, table, tick, count, hist
<1>11. ASSUME NEW t \in Ticks, Finish(t) PROVE PostsAreRecorded'
  BY <1>11 DEF Finish, rows, table, tick, count, hist
<1>12. ASSUME NEW t \in Ticks, Release(t) PROVE PostsAreRecorded'
  BY <1>12 DEF Release, rows, table, tick, count, hist
<1>13. ASSUME NEW t \in Ticks, Throw(t) PROVE PostsAreRecorded'
  BY <1>13 DEF Throw, Fails, rows, table, hist
<1>14. ASSUME NEW t \in Ticks, Crash(t) PROVE PostsAreRecorded'
  BY <1>14 DEF Crash, Fails, rows, table, hist
<1>15. ASSUME NEW d \in Deliveries, Ripen(d) PROVE PostsAreRecorded'
  BY <1>15 DEF Ripen, rows, table, tick, count, hist
<1>16. ASSUME NEW d \in Deliveries, Dispatch(d) PROVE PostsAreRecorded'
  BY <1>16 DEF Dispatch, tick, count, hist, Queued, AttemptsAreLeft
<1>17. ASSUME NEW d \in Deliveries, Redeliver(d) PROVE PostsAreRecorded'
  BY <1>17 DEF Redeliver, tick, Queued, Requeued, Replayable, Settled, CopiesAreCurrent, Sending
<1>18. ASSUME NEW e \in Endpoints, Patch(e) PROVE PostsAreRecorded'
  BY <1>18 DEF Patch, rows, table, tick, count, hist
<1>19. ASSUME Expire PROVE PostsAreRecorded'
  BY <1>19 DEF Expire, rows, table, tick, count, hist
<1>20. ASSUME Overrun PROVE PostsAreRecorded'
  BY <1>20 DEF Overrun, rows, table, tick, count, hist
<1>21. ASSUME UNCHANGED vars PROVE PostsAreRecorded'
  BY <1>21 DEF vars, rows, table, tick, count, hist
<1>22. QED
  BY <1>1, <1>2, <1>3, <1>4, <1>5, <1>6, <1>7, <1>8, <1>9, <1>10, <1>11, <1>12, <1>13, <1>14,
        <1>15, <1>16, <1>17, <1>18, <1>19, <1>20, <1>21 DEF Next, Work

----------------------------------------------------------------------------
\* The invariant.

LEMMA InvariantStart == Init => IInv
<1> SUFFICES ASSUME Init PROVE IInv
  OBVIOUS
<1> USE OutboundAssumption DEF Init, Unqueued
<1>1. TypeOK
  BY DEF TypeOK, Rows, Copies, Statuses, Settled, Endpoints, Answers, Steps
<1>2. AttemptsAreLeft
  BY DEF AttemptsAreLeft, IsSettled, Settled, Sending, Answers
<1>3. LockIsHeld /\ CopiesAreCurrent
  BY DEF LockIsHeld, CopiesAreCurrent, Sending, Answers
<1>4. PostsAreRecorded
  BY DEF PostsAreRecorded, Answers
<1>5. QED
  BY <1>1, <1>2, <1>3, <1>4 DEF IInv

LEMMA InvariantStep == IInv /\ [Next]_vars => IInv'
BY TypesArePreserved, AttemptsArePreserved, LockIsKept, CopiesStayCurrent,
   PostsStayRecorded DEF IInv

LEMMA Invariance == Spec => []IInv
BY InvariantStart, InvariantStep, PTL DEF Spec

\* Types, for every number of ticks and deliveries: no sequence of crashes,
\* overruns and replays gives a row more than MAX_ATTEMPTS attempts.
THEOREM OutboundTypes == Spec => []TypeOK
<1>1. IInv => TypeOK
  BY DEF IInv
<1>2. QED
  BY <1>1, Invariance, PTL

\* The attempts of a delivery are the POSTs its receiver got, those lost to a
\* fault apart; a dead letter used up its attempts.
THEOREM AttemptsAreHonest == Spec => []PostsAreCounted
<1>1. IInv => PostsAreCounted
  BY DEF IInv, PostsAreRecorded, PostsAreCounted, AttemptsAreLeft, TypeOK, Rows
<1>2. QED
  BY <1>1, Invariance, PTL

\* A delivery is marked SUCCESS only if the receiver accepted it in this round.
THEOREM SuccessIsHonest == Spec => []SuccessWasAccepted
<1>1. IInv => SuccessWasAccepted
  BY DEF IInv, PostsAreRecorded, SuccessWasAccepted
<1>2. QED
  BY <1>1, Invariance, PTL

\* While the lock outlives its ticks only a replay touches a settled delivery.
THEOREM SettledForGood == Spec => SettledStaysSettled
<1> DEFINE Kept == \A d \in Deliveries :
              IsSettled(d) /\ overruns' = 0 => delivery'[d] \in {delivery[d], Queued}
<1>1. ASSUME IInv, [Next]_vars PROVE Kept
  <2> SUFFICES ASSUME NEW d \in Deliveries, IsSettled(d), overruns' = 0
               PROVE  delivery'[d] \in {delivery[d], Queued}
    OBVIOUS
  <2>1. TypeOK /\ AttemptsAreLeft /\ CopiesAreCurrent
    BY <1>1 DEF IInv
  <2>2. ASSUME NEW t \in Ticks, Abort(t) PROVE delivery'[d] = delivery[d]
    <3>1. PICK c \in batch[t] : Visit(t, c) /\ Restate(c.id, "FAILED")
      BY <2>2 DEF Abort
    <3>2. c.id # d
      <4>1. overruns = 0
        BY <3>1 DEF Visit, count
      <4>2. c = CopyOf(c.id) /\ c.status \in Queueing
        BY <2>1, <4>1 DEF CopiesAreCurrent, AttemptsAreLeft
      <4>3. delivery[c.id].status = c.status
        BY <4>2 DEF CopyOf
      <4>4. QED
        BY <4>2, <4>3 DEF Queueing, IsSettled, Settled
    <3>3. QED
      BY <2>1, <3>1, <3>2 DEF Restate, Write, TypeOK
  <2>3. ASSUME NEW t \in Ticks, NEW c \in batch[t], Claim(t, c)
        PROVE delivery'[d] = delivery[d]
    BY <2>1, <2>3 DEF Claim, AttemptsAreLeft, Queueing, IsSettled, Settled, Restate, Write, TypeOK
  <2>4. ASSUME NEW t \in Ticks, Record(t) PROVE delivery'[d] = delivery[d]
    BY <2>1, <2>4 DEF Record, CopiesAreCurrent, Sending, IsSettled, Settled, Write, TypeOK, count
  <2>5. ASSUME NEW e \in Deliveries, Redeliver(e)
        PROVE delivery'[d] \in {delivery[d], Queued}
    BY <2>1, <2>5 DEF Redeliver, Requeued, Write, TypeOK
  <2>6. ASSUME NEW e \in Deliveries, Dispatch(e) PROVE delivery'[d] = delivery[d]
    BY <2>1, <2>6 DEF Dispatch, Write, IsSettled, Settled, TypeOK
  <2>7. ASSUME NEW t \in Ticks,
               \/ Acquire(t) \/ Select(t) \/ Post(t) \/ Credit(t) \/ Blame(t)
               \/ Disable(t) \/ Finish(t) \/ Release(t) \/ Throw(t) \/ Crash(t)
               \/ \E c \in batch[t] : LoseClaim(t, c)
        PROVE delivery' = delivery
    BY <2>7 DEF Acquire, Select, Post, Credit, Blame, Disable, Finish, Release, Throw,
                Crash, Fails, LoseClaim, rows, table
  <2>8. ASSUME \/ \E e \in Deliveries : Ripen(e)
               \/ \E s \in Endpoints : Patch(s)
               \/ Expire \/ Overrun \/ UNCHANGED vars
        PROVE delivery' = delivery
    BY <2>8 DEF Ripen, Patch, Expire, Overrun, vars, rows, table
  <2>9. QED
    BY <1>1, <2>2, <2>3, <2>4, <2>5, <2>6, <2>7, <2>8 DEF Next, Work
<1>2. QED
  BY <1>1, Invariance, PTL DEF Spec, SettledStaysSettled

\* While the cron lock outlives its ticks, one tick at most is at work.
TicksExclude ==
    overruns = 0 => \A t, u \in Ticks : pc[t] # "idle" /\ pc[u] # "idle" => t = u

\* withCronLock lets the next tick in only when the last one is over.
THEOREM OneTickAtATime == Spec => []TicksExclude
<1>1. IInv => TicksExclude
  BY DEF IInv, LockIsHeld, TicksExclude
<1>2. QED
  BY <1>1, Invariance, PTL

\* What a tick copied at its start and sends minutes later is still what the table says.
THEOREM CopiesAreNeverStale == Spec => []CopiesAreCurrent
<1>1. IInv => CopiesAreCurrent
  BY DEF IInv
<1>2. QED
  BY <1>1, Invariance, PTL
=============================================================================
