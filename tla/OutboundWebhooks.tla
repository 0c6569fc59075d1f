-------------------------- MODULE OutboundWebhooks --------------------------
(***************************************************************************)
(* The outbound webhook queue of one endpoint: the delivery rows, the      *)
(* endpoint row, the worker ticks that drain the queue under the cron lock *)
(* and the operator who patches the endpoint and replays deliveries.       *)
(*                                                                         *)
(* Every database call and every Redis call is one step, and the POST is   *)
(* one between them.  A tick acts on the copy of the rows it selected; the *)
(* copy grows old while the tick works through it.  The lock is a Redis    *)
(* key with a TTL: it outlives a tick that crashed and, if the instance    *)
(* is frozen long enough, a live tick outlives it (an overrun).  A batch   *)
(* is MAX_BATCH = 50 rows; the queues modelled fit into one.               *)
(***************************************************************************)
EXTENDS Naturals

CONSTANTS
    Ticks,         \* invocations of the worker that may overlap
    Deliveries,    \* the OutboundWebhookDelivery rows of the endpoint
    MaxAttempts,   \* MAX_ATTEMPTS, 5
    DisableAfter,  \* ENDPOINT_AUTO_DISABLE_FAILURES, 25
    Nobody,        \* the lock is free; a tick works on no row
    MaxFaults,     \* bound: ticks that die, calls of a tick that throw
    MaxOverruns,   \* bound: times the lock expires under a live tick
    MaxPatches,    \* bound: changes of the endpoint's status by an operator
    MaxReplays     \* bound: deliveries replayed by an operator

ASSUME OutboundAssumption ==
    /\ Nobody \notin Ticks
    /\ MaxAttempts \in Nat \ {0} /\ DisableAfter \in Nat \ {0}
    /\ MaxFaults \in Nat /\ MaxOverruns \in Nat
    /\ MaxPatches \in Nat /\ MaxReplays \in Nat

VARIABLES
    delivery,   \* the delivery rows: status and attempts
    ripe,       \* deliveries whose nextRetryAt has passed (RETRY) or whose last
                \* touch is more than IN_FLIGHT_STALE_MS ago (IN_FLIGHT)
    endpoint,   \* the endpoint row
    lock,       \* whose token the key cron:lock:dispatch-outbound-webhooks holds
    pc,         \* where each tick stands
    batch,      \* the rows a tick selected, as they were, and has still to visit
    current,    \* the one it is working on
    faults, overruns, patches, replays,   \* counted up to their bounds
    posts,      \* history: POSTs made for the delivery since it was last queued
    accepted    \* history: deliveries answered 2xx since they were last queued

table == <<delivery, ripe>>
rows  == <<table, endpoint>>
tick  == <<batch, current>>
count == <<faults, overruns, patches, replays>>
hist  == <<posts, accepted>>
vars  == <<rows, lock, pc, tick, count, hist>>

Settled   == {"SUCCESS", "FAILED", "DEAD_LETTER"}
Statuses  == {"none", "PENDING", "IN_FLIGHT", "RETRY"} \cup Settled
Endpoints == {"ACTIVE", "PAUSED", "DISABLED"}
Answers   == {"accepted", "rejected", "transient"}

\* "none": not inserted yet.
Rows == [status : Statuses, attempts : 0 .. MaxAttempts]

\* What a tick remembers of a row.
Copies == [id : Deliveries, status : Statuses, attempts : 0 .. MaxAttempts]

Unqueued == [status |-> "none", attempts |-> 0]
Queued   == [status |-> "PENDING", attempts |-> 0]

Init ==
    /\ delivery = [d \in Deliveries |-> Unqueued]
    /\ ripe = {}
    /\ endpoint = [status |-> "ACTIVE", failures |-> 0]
    /\ lock = Nobody
    /\ pc = [t \in Ticks |-> "idle"]
    /\ batch = [t \in Ticks |-> {}]
    /\ current = [t \in Ticks |-> Nobody]
    /\ faults = 0 /\ overruns = 0 /\ patches = 0 /\ replays = 0
    /\ posts = [d \in Deliveries |-> 0]
    /\ accepted = {}

Goto(t, step)  == pc' = [pc EXCEPT ![t] = step]
Write(d, r)    == delivery' = [delivery EXCEPT ![d] = r] /\ ripe' = ripe \ {d}
Restate(d, s)  == Write(d, [status |-> s, attempts |-> delivery[d].attempts])
IsSettled(d)   == delivery[d].status \in Settled

\* Slips the runs must notice: a delivery left in flight is never picked up again;
\* the lock is taken although it is held; a row may be replayed in any status; a
\* replay keeps the attempts; the last attempt is not the last.
NeverReaped(d)        == \/ delivery[d].status = "PENDING"
                         \/ delivery[d].status = "RETRY" /\ d \in ripe
AcquiredRegardless(t) == /\ pc[t] = "idle" /\ lock' = t /\ Goto(t, "select")
                         /\ UNCHANGED <<rows, tick, count, hist>>
AnyStatus             == Statuses \ {"none"}
KeepsAttempts(d)      == [status |-> "PENDING", attempts |-> delivery[d].attempts]
OneTooMany(t)         == current[t].attempts >= MaxAttempts

----------------------------------------------------------------------------
\* The cron lock

\* SET NX PX.  A key that is held, or a Redis that does not answer, is a skip.
Acquire(t) ==
    /\ pc[t] = "idle"
    /\ lock = Nobody
    /\ lock' = t
    /\ Goto(t, "select")
    /\ UNCHANGED <<rows, tick, count, hist>>

\* Compare-and-delete of the tick's own token: an overrun tick frees nobody's lock.
\* A release that fails is like a crash just before it.
Release(t) ==
    /\ pc[t] = "release"
    /\ lock' = IF lock = t THEN Nobody ELSE lock
    /\ Goto(t, "idle")
    /\ UNCHANGED <<rows, tick, count, hist>>

\* The key's TTL runs out; its holder crashed or could not release it.
Expire ==
    /\ lock # Nobody
    /\ pc[lock] = "idle"
    /\ lock' = Nobody
    /\ UNCHANGED <<rows, pc, tick, count, hist>>

\* The key's TTL runs out while its holder is frozen in the middle of the tick.
Overrun ==
    /\ lock # Nobody
    /\ pc[lock] # "idle"
    /\ overruns < MaxOverruns
    /\ overruns' = overruns + 1
    /\ lock' = Nobody
    /\ UNCHANGED <<rows, pc, tick, faults, patches, replays, hist>>

----------------------------------------------------------------------------
\* runDispatchTick

Selectable(d) ==
    \/ delivery[d].status = "PENDING"
    \/ delivery[d].status \in {"RETRY", "IN_FLIGHT"} /\ d \in ripe

CopyOf(d) ==
    [id |-> d, status |-> delivery[d].status, attempts |-> delivery[d].attempts]

\* findMany: the due rows and their endpoint, as they are at this moment.
Select(t) ==
    /\ pc[t] = "select"
    /\ batch' = [batch EXCEPT ![t] =
                    {CopyOf(d) : d \in {e \in Deliveries : Selectable(e)}}]
    /\ Goto(t, IF endpoint.status = "ACTIVE" THEN "next" ELSE "abort")
    /\ UNCHANGED <<rows, lock, current, count, hist>>

Visit(t, c) ==
    /\ batch' = [batch EXCEPT ![t] = @ \ {c}]
    /\ UNCHANGED <<endpoint, lock, count, hist>>

\* The endpoint was not ACTIVE when the row was selected: give the delivery up.
Abort(t) ==
    /\ pc[t] = "abort"
    /\ \E c \in batch[t] :
          /\ Visit(t, c)
          /\ Restate(c.id, "FAILED")
    /\ UNCHANGED <<pc, current>>

\* updateMany where the status is still the selected one.
Claim(t, c) ==
    /\ pc[t] = "next"
    /\ Visit(t, c)
    /\ delivery[c.id].status = c.status
    /\ Restate(c.id, "IN_FLIGHT")
    /\ current' = [current EXCEPT ![t] = c]
    /\ Goto(t, "post")

\* The claim matched no row: another tick was faster.
LoseClaim(t, c) ==
    /\ pc[t] = "next"
    /\ Visit(t, c)
    /\ delivery[c.id].status # c.status
    /\ UNCHANGED <<table, pc, current>>

\* The POST: 2xx; a 4xx other than 408 and 429; or anything else, a time-out, a
\* network error and a refused address included.
Post(t) ==
    /\ pc[t] = "post"
    /\ \E a \in Answers :
          /\ Goto(t, a)
          /\ accepted' = IF a = "accepted" THEN accepted \cup {current[t].id}
                                           ELSE accepted
    /\ posts' = [posts EXCEPT ![current[t].id] = @ + 1]
    /\ UNCHANGED <<rows, lock, tick, count>>

\* The number of this attempt comes from the copy, not from the row.
Attempt(t) == current[t].attempts + 1

LastAttempt(t) == Attempt(t) >= MaxAttempts

Outcome(t) ==
    CASE pc[t] = "accepted"  -> "SUCCESS"
      [] pc[t] = "rejected"  -> "FAILED"
      [] pc[t] = "transient" -> IF LastAttempt(t) THEN "DEAD_LETTER" ELSE "RETRY"

\* update by id.  A retry leaves the endpoint alone.
Record(t) ==
    /\ pc[t] \in Answers
    /\ Write(current[t].id, [status |-> Outcome(t), attempts |-> Attempt(t)])
    /\ current' = [current EXCEPT ![t] = Nobody]
    /\ Goto(t, CASE Outcome(t) = "SUCCESS" -> "credit"
                 [] Outcome(t) = "RETRY"   -> "next"
                 [] OTHER                  -> "blame")
    /\ UNCHANGED <<endpoint, lock, batch, count, hist>>

\* The endpoint answered: failureCount starts over.
Credit(t) ==
    /\ pc[t] = "credit"
    /\ endpoint' = [endpoint EXCEPT !.failures = 0]
    /\ Goto(t, "next")
    /\ UNCHANGED <<table, lock, tick, count, hist>>

\* A delivery failed for good: failureCount goes up.  Only its distance to the
\* threshold is ever looked at, so it stops there.
Blame(t) ==
    /\ pc[t] = "blame"
    /\ endpoint' = [endpoint EXCEPT !.failures = IF @ < DisableAfter THEN @ + 1 ELSE @]
    /\ Goto(t, "disable")
    /\ UNCHANGED <<table, lock, tick, count, hist>>

\* maybeAutoDisableEndpoint
Disable(t) ==
    /\ pc[t] = "disable"
    /\ endpoint' = IF endpoint.status = "ACTIVE" /\ endpoint.failures >= DisableAfter
                   THEN [endpoint EXCEPT !.status = "DISABLED"]
                   ELSE endpoint
    /\ Goto(t, "next")
    /\ UNCHANGED <<table, lock, tick, count, hist>>

\* The whole batch has been visited.
Finish(t) ==
    /\ pc[t] \in {"next", "abort"}
    /\ batch[t] = {}
    /\ Goto(t, "release")
    /\ UNCHANGED <<rows, lock, tick, count, hist>>

\* The tick is over before its batch is: a call threw, and the lock is released on
\* the way out, or the instance died, and the lock stays until its TTL runs out.
Fails(t, step) ==
    /\ faults < MaxFaults
    /\ faults' = faults + 1
    /\ batch' = [batch EXCEPT ![t] = {}]
    /\ current' = [current EXCEPT ![t] = Nobody]
    /\ Goto(t, step)
    /\ UNCHANGED <<rows, lock, overruns, patches, replays, hist>>

Throw(t) == pc[t] \notin {"idle", "release"} /\ Fails(t, "release")

Crash(t) == pc[t] # "idle" /\ Fails(t, "idle")

Work(t) ==
    \/ Select(t) \/ Abort(t) \/ Post(t) \/ Record(t) \/ Credit(t) \/ Blame(t)
    \/ Disable(t) \/ Finish(t) \/ Release(t)
    \/ \E c \in batch[t] : Claim(t, c) \/ LoseClaim(t, c)

----------------------------------------------------------------------------
\* Time, the producers and the operator

\* nextRetryAt passes; ten minutes pass since the claim.
Ripen(d) ==
    /\ delivery[d].status \in {"RETRY", "IN_FLIGHT"}
    /\ d \notin ripe
    /\ ripe' = ripe \cup {d}
    /\ UNCHANGED <<delivery, endpoint, lock, pc, tick, count, hist>>

\* dispatchWebhookEvent: one row for an ACTIVE subscriber.
Dispatch(d) ==
    /\ delivery[d].status = "none"
    /\ endpoint.status = "ACTIVE"
    /\ Write(d, Queued)
    /\ UNCHANGED <<endpoint, lock, pc, tick, count, hist>>

\* PATCH of the endpoint: any status, and failureCount is left as it is.
Patch(s) ==
    /\ endpoint.status # s
    /\ patches < MaxPatches
    /\ patches' = patches + 1
    /\ endpoint' = [endpoint EXCEPT !.status = s]
    /\ UNCHANGED <<table, lock, pc, tick, faults, overruns, replays, hist>>

Replayable == Settled

Requeued(d) == Queued

\* The redeliver route: only settled rows, only to an ACTIVE endpoint.
Redeliver(d) ==
    /\ endpoint.status = "ACTIVE"
    /\ delivery[d].status \in Replayable
    /\ replays < MaxReplays
    /\ replays' = replays + 1
    /\ Write(d, Requeued(d))
    /\ posts' = [posts EXCEPT ![d] = 0]
    /\ accepted' = accepted \ {d}
    /\ UNCHANGED <<endpoint, lock, pc, tick, faults, overruns, patches>>

Next ==
    \/ \E t \in Ticks : Acquire(t) \/ Work(t) \/ Throw(t) \/ Crash(t)
    \/ \E d \in Deliveries : Ripen(d) \/ Dispatch(d) \/ Redeliver(d)
    \/ \E s \in Endpoints : Patch(s)
    \/ Expire \/ Overrun

Spec == Init /\ [][Next]_vars

\* The cron comes round every minute and somebody gets the lock; a live tick
\* goes on until it is done; time passes.  Nothing makes an operator act.
Fairness ==
    /\ WF_vars(\E t \in Ticks : Acquire(t))
    /\ \A t \in Ticks : WF_vars(Work(t))
    /\ \A d \in Deliveries : WF_vars(Ripen(d))
    /\ WF_vars(Expire)

FairSpec == Spec /\ Fairness

----------------------------------------------------------------------------
Steps == {"idle", "select", "abort", "next", "post", "credit", "blame", "disable",
          "release"} \cup Answers

\* Every variable keeps its type: attempts never pass MAX_ATTEMPTS, and a tick
\* between its claim and the outcome works on some delivery.
TypeOK ==
    /\ delivery \in [Deliveries -> Rows]
    /\ ripe \subseteq Deliveries
    /\ endpoint \in [status : Endpoints, failures : 0 .. DisableAfter]
    /\ lock \in Ticks \cup {Nobody}
    /\ pc \in [Ticks -> Steps]
    /\ batch \in [Ticks -> SUBSET Copies]
    /\ current \in [Ticks -> Copies \cup {Nobody}]
    /\ \A t \in Ticks : pc[t] \in {"post"} \cup Answers => current[t] \in Copies
    /\ faults \in 0 .. MaxFaults /\ overruns \in 0 .. MaxOverruns
    /\ patches \in 0 .. MaxPatches /\ replays \in 0 .. MaxReplays
    /\ posts \in [Deliveries -> Nat]
    /\ accepted \subseteq Deliveries

\* A tick has made the POST for d and not written its outcome yet.
Recording(d) == \E t \in Ticks : pc[t] \in Answers /\ current[t].id = d

\* As long as the lock outlives its ticks, the row's attempts are the POSTs the
\* receiver got since the delivery was queued; only a POST whose outcome a
\* crash lost is missing.  So a receiver never sees more than MAX_ATTEMPTS
\* POSTs and one per fault, and a dead letter was really tried MAX_ATTEMPTS
\* times (worker.ts: attemptNumber, the claim, the stale-IN_FLIGHT selector).
PostsAreCounted ==
    /\ \A d \in Deliveries :
          delivery[d].status = "DEAD_LETTER" => delivery[d].attempts = MaxAttempts
    /\ overruns = 0 =>
          \A d \in Deliveries :
             /\ delivery[d].attempts <= posts[d]
             /\ posts[d] <= delivery[d].attempts + faults
                               + IF Recording(d) THEN 1 ELSE 0

\* As long as the lock outlives its ticks, a delivery marked SUCCESS was answered
\* 2xx, and was so after its last replay: no tick still at work on an earlier
\* round speaks for the new one (redeliver/route.ts: the CAS on settled rows).
SuccessWasAccepted ==
    overruns = 0 =>
        \A d \in Deliveries : delivery[d].status = "SUCCESS" => d \in accepted

\* As long as the lock outlives its ticks, a settled delivery is never touched by
\* a worker: it changes only when an operator queues it afresh.  This needs the
\* lock, the stale window and the order of claim, POST and outcome together.
SettledStaysSettled ==
    [][\A d \in Deliveries :
          IsSettled(d) /\ overruns' = 0 => delivery'[d] \in {delivery[d], Queued}]_vars

\* worker.ts:211-214 says the guarded claim keeps two ticks from re-claiming one
\* orphan: a row selected as stale is claimed only while nobody has touched it.
OrphanClaimedOnce ==
    [][\A t \in Ticks : \A c \in batch[t] :
          Claim(t, c) /\ c.status = "IN_FLIGHT" => c.id \in ripe]_vars

\* Every queued delivery settles in the end, crashes, overruns, pauses and
\* replays notwithstanding (worker.ts: #812, the stale-IN_FLIGHT selector).
EveryDeliverySettles ==
    \A d \in Deliveries : delivery[d].status = "PENDING" ~> IsSettled(d)
=============================================================================
