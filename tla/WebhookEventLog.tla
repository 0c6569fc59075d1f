-------------------------- MODULE WebhookEventLog --------------------------
(***************************************************************************)
(* One row of the WebhookEvent table and everybody who drives it: the      *)
(* gateway's deliveries (a route records the event, acknowledges it and    *)
(* runs the handler in an after() callback) and the stuck-event sweeper    *)
(* (a cron that re-drives rows nobody finished).  Rows of different events *)
(* never touch each other, so one row is the whole component.              *)
(*                                                                         *)
(* Every database call is one step; a process may stop between any two.    *)
(* Time is kept as saturating ages, because the code only ever compares    *)
(* "now - timestamp" with three thresholds.  A compare-and-set on a        *)
(* timestamp succeeds iff nobody re-stamped the row since it was read, so  *)
(* the readers whose copy is still current are kept as a set.              *)
(***************************************************************************)
EXTENDS Naturals, FiniteSets

CONSTANTS
    Workers,        \* concurrent deliveries: one serverless invocation each
    Sweepers,       \* concurrent entries of the sweep
    Providers,      \* the gateways modelled: "razorpay", "stream"
    StaleAfter,     \* 5 minutes: STALE_THRESHOLD_MS in logWebhookEvent
    SweepAfter,     \* 6 minutes: the sweep's staleMinutes
    GiveUpAfter,    \* 168 hours: the sweep's giveUpAfterHours
    MaxDeliveries,  \* bound: how often the gateway delivers this event
    MaxFaults       \* bound: drivers that stop half-way, calls that throw

ASSUME WebhookAssumption ==
    /\ Workers \cap Sweepers = {}
    /\ Providers \subseteq {"razorpay", "stream"}
    /\ StaleAfter \in Nat /\ SweepAfter \in Nat /\ GiveUpAfter \in Nat
    /\ StaleAfter <= SweepAfter /\ SweepAfter < GiveUpAfter
    /\ MaxDeliveries \in Nat /\ MaxFaults \in Nat

Drivers == Workers \cup Sweepers
Cap     == GiveUpAfter + 1          \* ages saturate one past the last threshold
Ages    == 0 .. Cap

\* TERMINAL_ERROR_PREFIXES: an error carrying one of these is never re-driven.
Terminal == {"permanent", "gaveup"}
Errors   == {"none", "failed"} \cup Terminal
Verdicts == {"ok", "failed", "permanent", "defer"}

VARIABLES
    provider,    \* the gateway whose event this is; never changes
    row,         \* the WebhookEvent row
    exists,      \* has the row been created
    pc,          \* where each driver stands
    readRecv,    \* drivers whose read of receivedAt is still the stored one
    readClaim,   \* sweepers whose read of claimedAt is still the stored one
    tooOld,      \* sweeper: the selected row was already past the give-up age
    verdict,     \* what the driver's handler run came to
    driveAge,    \* how long ago the driver took the event on: a delivery by its
                 \* claim of the row, a sweep by its claim of claimedAt
    deliveries,  \* deliveries the gateway has made
    faults,      \* drivers that stopped half-way, database calls that threw
    life,        \* history: time since a delivery last came in or wrote the row
    completed    \* history: some handler run has returned without an error

vars == <<provider, row, exists, pc, readRecv, readClaim, tooOld, verdict, driveAge,
          deliveries, faults, life, completed>>
env  == <<provider, deliveries, faults, life>>

Rows == [processed : BOOLEAN, error : Errors, recvAge : Ages,
         claimed : BOOLEAN, claimAge : Ages]

NewRow == [processed |-> FALSE, error |-> "none", recvAge |-> 0,
           claimed |-> FALSE, claimAge |-> 0]

Steps == {"idle", "create", "retry", "restamp", "run", "mark",
          "claim", "log", "check", "giveup", "failed"}

Init ==
    /\ provider \in Providers
    /\ row = NewRow
    /\ exists = FALSE
    /\ pc = [d \in Drivers |-> "idle"]
    /\ readRecv = {}
    /\ readClaim = {}
    /\ tooOld = {}
    /\ verdict = [d \in Drivers |-> "ok"]
    /\ driveAge = [d \in Drivers |-> 0]
    /\ deliveries = 0
    /\ faults = 0
    /\ life = 0
    /\ completed = FALSE

Succeeded  == exists /\ row.processed /\ row.error = "none"
InProgress == exists /\ ~row.processed /\ row.error = "none"
Errored    == exists /\ row.error # "none"

Goto(d, step) == pc' = [pc EXCEPT ![d] = step]

TakesOn(d, step) ==
    /\ Goto(d, step)
    /\ driveAge' = [driveAge EXCEPT ![d] = 0]

\* The handler run.  A sweep that still had to log the event took it on earlier.
StartRun(d) ==
    IF pc[d] \in {"log", "retry", "restamp"} /\ d \in Sweepers
    THEN Goto(d, "run") /\ UNCHANGED driveAge
    ELSE TakesOn(d, "run")

\* logWebhookEvent said isNew = false.  The Razorpay route answers "duplicate";
\* the Stream route ignores the answer and dispatches with claimAlreadyHeld;
\* the sweep's dispatch returns and the sweep re-reads the row.
NotNew(d) ==
    IF d \in Sweepers
    THEN Goto(d, "check") /\ UNCHANGED driveAge
    ELSE IF provider = "stream"
         THEN StartRun(d)
         ELSE Goto(d, "idle") /\ UNCHANGED driveAge

----------------------------------------------------------------------------
\* logWebhookEvent, step by step

\* findUnique, and the branch the row's state selects.
LogRead(d) ==
    /\ readRecv' = readRecv \cup {d}
    /\ \/ ~exists /\ Goto(d, "create") /\ UNCHANGED driveAge
       \/ Succeeded /\ NotNew(d)
       \/ Errored /\ Goto(d, "retry") /\ UNCHANGED driveAge
       \/ InProgress /\ row.recvAge > StaleAfter /\ Goto(d, "restamp")
                     /\ UNCHANGED driveAge
       \/ InProgress /\ row.recvAge <= StaleAfter /\ NotNew(d)
    /\ UNCHANGED <<row, exists, readClaim, tooOld, verdict, completed>>

\* The gateway delivers the event to a free worker, whose first call is the read.
Deliver(w) ==
    /\ pc[w] = "idle"
    /\ deliveries < MaxDeliveries
    /\ deliveries' = deliveries + 1
    /\ life' = 0
    /\ UNCHANGED <<provider, faults>>
    /\ LogRead(w)

\* create, or P2002: another delivery created the row first.
Create(w) ==
    /\ pc[w] = "create"
    /\ \/ /\ ~exists
          /\ exists' = TRUE
          /\ row' = NewRow
          /\ readRecv' = {}
          /\ life' = 0
          /\ StartRun(w)
       \/ exists /\ NotNew(w) /\ UNCHANGED <<row, exists, readRecv, life>>
    /\ UNCHANGED <<provider, readClaim, tooOld, verdict, completed, deliveries, faults>>

\* Both claims write the same columns: back to in-progress, re-stamped now.
Restamp(d) ==
    /\ row' = [row EXCEPT !.processed = FALSE, !.error = "none", !.recvAge = 0]
    /\ readRecv' = {}
    /\ life' = IF d \in Workers THEN 0 ELSE life
    /\ StartRun(d)

\* updateMany where error is not null: re-open a failed row.
ClaimFailed(d) ==
    /\ pc[d] = "retry"
    /\ \/ row.error # "none" /\ Restamp(d)
       \/ row.error = "none" /\ NotNew(d) /\ UNCHANGED <<row, readRecv, life>>
    /\ UNCHANGED <<provider, exists, readClaim, tooOld, verdict, completed, deliveries,
                   faults>>

\* updateMany where receivedAt is the value read: take over a stale row.
ClaimStale(d) ==
    /\ pc[d] = "restamp"
    /\ \/ d \in readRecv /\ Restamp(d)
       \/ d \notin readRecv /\ NotNew(d) /\ UNCHANGED <<row, readRecv, life>>
    /\ UNCHANGED <<provider, exists, readClaim, tooOld, verdict, completed, deliveries,
                   faults>>

----------------------------------------------------------------------------
\* The dispatch: run the handler, then close the row out

AfterRun(d) == IF d \in Sweepers THEN "check" ELSE "idle"

\* The handler returns, throws, finds the payload malformed (Stream only) or
\* defers (for Stream: the database probe failed, before any claim).  A
\* deferral leaves the row as it is.
Handle(d) ==
    /\ pc[d] = "run"
    /\ \E v \in Verdicts :
          /\ v = "permanent" => provider = "stream"
          /\ v = "defer" => provider = "razorpay" \/ d \in Workers
          /\ verdict' = [verdict EXCEPT ![d] = v]
          /\ completed' = (completed \/ v = "ok")
          /\ Goto(d, IF v = "defer" THEN AfterRun(d) ELSE "mark")
    /\ UNCHANGED <<row, exists, readRecv, readClaim, tooOld, driveAge, env>>

\* Slips the runs must notice: an error message that collapses to null, and a
\* success recorded as an error of its own.
ErrorLostOnClose(v)     == [row EXCEPT !.processed = TRUE, !.error = "none"]
SuccessClosedAsError(v) == [row EXCEPT !.processed = TRUE, !.error = v]

\* markWebhookEventProcessed: always processed, and the error if there was one.
ClosedWith(v) ==
    [row EXCEPT !.processed = TRUE, !.error = IF v = "ok" THEN "none" ELSE v]

Mark(d) ==
    /\ pc[d] = "mark"
    /\ row' = ClosedWith(verdict[d])
    /\ Goto(d, AfterRun(d))
    /\ UNCHANGED <<exists, readRecv, readClaim, tooOld, verdict, driveAge,
                   completed, env>>

----------------------------------------------------------------------------
\* The sweep

\* Slips in the selector: it forgets the claim column, or the rows whose driver
\* died before it wrote anything.
SelectsClaimedRows ==
    /\ exists /\ row.recvAge > SweepAfter
    /\ InProgress \/ (row.error = "failed" /\ row.recvAge <= GiveUpAfter)
SelectsOnlyFailures ==
    /\ exists /\ row.recvAge > SweepAfter /\ row.error = "failed"
    /\ row.claimed => row.claimAge > SweepAfter

\* The rows the sweep selects: quiet for SweepAfter, not claimed since, and
\* either never closed or failed with an error worth another attempt.
Sweepable ==
    /\ exists
    /\ row.recvAge > SweepAfter
    /\ row.claimed => row.claimAge > SweepAfter
    /\ \/ InProgress
       \/ /\ row.error \in Errors \ ({"none"} \cup Terminal)
          /\ row.recvAge <= GiveUpAfter

SweepSelect(s) ==
    /\ pc[s] = "idle"
    /\ Sweepable
    /\ readClaim' = readClaim \cup {s}
    /\ tooOld' = IF row.recvAge > GiveUpAfter THEN tooOld \cup {s}
                                             ELSE tooOld \ {s}
    /\ Goto(s, "claim")
    /\ UNCHANGED <<row, exists, readRecv, verdict, driveAge,
                   completed, env>>

\* The claim is on claimedAt alone; it looks at nothing else of the row.
SweepClaim(s) ==
    /\ pc[s] = "claim"
    /\ \/ /\ s \in readClaim
          /\ row' = [row EXCEPT !.claimed = TRUE, !.claimAge = 0]
          /\ readClaim' = {}
          /\ TakesOn(s, IF provider = "stream" THEN "log" ELSE "run")
       \/ s \notin readClaim /\ Goto(s, "idle") /\ UNCHANGED <<row, readClaim, driveAge>>
    /\ UNCHANGED <<exists, readRecv, tooOld, verdict, completed, env>>

\* processStreamEvent from the sweep claims like a delivery does, unless the
\* database probe sends it away first.
SweepLog(s) ==
    /\ pc[s] = "log"
    /\ \/ LogRead(s)
       \/ Goto(s, "check") /\ UNCHANGED <<row, exists, readRecv, readClaim,
                                          tooOld, verdict, driveAge, completed>>
    /\ UNCHANGED env

\* Re-read: a row still open and already past the give-up age is capped.
SweepCheck(s) ==
    /\ pc[s] = "check"
    /\ Goto(s, IF InProgress /\ s \in tooOld THEN "giveup" ELSE "idle")
    /\ UNCHANGED <<row, exists, readRecv, readClaim, tooOld, verdict, driveAge,
                   completed, env>>

SweepGiveUp(s) ==
    /\ pc[s] = "giveup"
    /\ row' = [row EXCEPT !.processed = TRUE, !.error = "gaveup"]
    /\ Goto(s, "idle")
    /\ UNCHANGED <<exists, readRecv, readClaim, tooOld, verdict, driveAge,
                   completed, env>>

\* A database call of the sweep throws.  The Stream dispatch swallows what its
\* own calls throw; what reaches the sweep's catch is stamped on the row.
SweepThrows(s) ==
    /\ faults < MaxFaults
    /\ faults' = faults + 1
    /\ \/ pc[s] = "mark" /\ Goto(s, IF provider = "stream" THEN "check" ELSE "failed")
       \/ pc[s] \in {"log", "retry", "restamp"} /\ Goto(s, "check")
       \/ pc[s] = "check" /\ Goto(s, "failed")
    /\ UNCHANGED <<row, exists, readRecv, readClaim, tooOld, verdict, driveAge,
                   completed, provider, deliveries, life>>

SweepStampsFailure(s) ==
    /\ pc[s] = "failed"
    /\ row' = ClosedWith("failed")
    /\ Goto(s, "idle")
    /\ UNCHANGED <<exists, readRecv, readClaim, tooOld, verdict, driveAge,
                   completed, env>>

----------------------------------------------------------------------------
\* The environment

\* A serverless instance is frozen or killed, or its call fails and nothing
\* catches it: the driver is gone and whatever it had not written is lost.
Crash(d) ==
    /\ pc[d] # "idle"
    /\ faults < MaxFaults
    /\ faults' = faults + 1
    /\ Goto(d, "idle")
    /\ UNCHANGED <<row, exists, readRecv, readClaim, tooOld, verdict, driveAge,
                   completed, provider, deliveries, life>>

Older(age) == IF age < Cap THEN age + 1 ELSE Cap

Tick ==
    /\ exists
    /\ row' = [row EXCEPT !.recvAge = Older(@), !.claimAge = Older(@)]
    /\ driveAge' = [d \in Drivers |-> Older(driveAge[d])]
    /\ life' = Older(life)
    /\ UNCHANGED <<provider, exists, pc, readRecv, readClaim, tooOld, verdict,
                   deliveries, faults, completed>>

DriverStep(d) == ClaimFailed(d) \/ ClaimStale(d) \/ Handle(d) \/ Mark(d)
SweepStep(s)  == \/ SweepSelect(s) \/ SweepClaim(s) \/ SweepLog(s) \/ SweepCheck(s)
                 \/ SweepGiveUp(s) \/ SweepStampsFailure(s)

Next ==
    \/ \E w \in Workers : Deliver(w) \/ Create(w)
    \/ \E d \in Drivers : DriverStep(d) \/ Crash(d)
    \/ \E s \in Sweepers : SweepStep(s) \/ SweepThrows(s)
    \/ Tick

Spec == Init /\ [][Next]_vars

\* Time passes; the cron runs again and again and an entry that does not crash
\* finishes; a live callback finishes too (the gateway SDK times out).  Nothing
\* is assumed of the gateway: it may never deliver again.
Fairness ==
    /\ WF_vars(Tick)
    /\ \A d \in Drivers : WF_vars(DriverStep(d))
    /\ \A w \in Workers : WF_vars(Create(w))
    /\ \A s \in Sweepers : WF_vars(SweepStep(s))

FairSpec == Spec /\ Fairness

----------------------------------------------------------------------------
Driving(d) == pc[d] \in {"run", "mark"}

\* Every variable keeps its type.
TypeOK ==
    /\ provider \in Providers
    /\ row \in Rows
    /\ exists \in BOOLEAN
    /\ pc \in [Drivers -> Steps]
    /\ readRecv \subseteq Drivers
    /\ readClaim \subseteq Sweepers
    /\ tooOld \subseteq Sweepers
    /\ verdict \in [Drivers -> Verdicts]
    /\ driveAge \in [Drivers -> Ages]
    /\ deliveries \in 0 .. MaxDeliveries
    /\ faults \in 0 .. MaxFaults
    /\ life \in Ages
    /\ completed \in BOOLEAN

\* A row that reads "processed, no error" - the shape no delivery and no sweep
\* will ever look at again - belongs to an event some handler run completed:
\* no failure, crash or give-up ever collapses into success.
NoSilentSuccess == Succeeded => completed

\* The claim on claimedAt keeps two entries of the sweep from driving one event
\* together: of two that do, one has outlived the window the claim protects.
SweepsExclude ==
    \A s, t \in Sweepers :
        s # t /\ Driving(s) /\ Driving(t)
            => driveAge[s] > SweepAfter \/ driveAge[t] > SweepAfter

\* A failed event is not picked for another attempt once its last delivery is
\* older than the give-up window, however often the sweep itself re-drove it.
GiveUpIsMeasuredFromDelivery ==
    [][\A s \in Sweepers : SweepSelect(s) /\ Errored => life <= GiveUpAfter]_vars

\* Every recorded event is settled: handled, or closed with an error that says
\* why.  No crash, deferral or lost callback leaves it open for ever.
EveryEventSettles == exists ~> Succeeded \/ Errored
=============================================================================
