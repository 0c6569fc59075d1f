---------------------------- MODULE PayoutsProofs ----------------------------
(***************************************************************************)
(* Proofs about Payouts, for every number of earnings, payouts, batches    *)
(* and runs and every bound: types, and where an earning's money is.       *)
(***************************************************************************)
EXTENDS Payouts, TLAPS

\* A run in its catch need not have claimed the payout it is at.
Releases(r, p) == at[r] = p /\ pc[r] = "release"

\* A run that is between two payouts is at none, any other is at one.
RunsAreSomewhere ==
    \A r \in Runs : at[r] = NoPayout <=> pc[r] \in {"idle", "visit"}

\* The id on the row is the gateway's, and a row that does not exist yet is nobody's.
IdsAreReal ==
    /\ \A p \in Payouts : sent[p] => gateway[p] # "none"
    /\ \A r \in Runs : \A p \in Payouts : at[r] = p =>
          /\ state[p] # "none"
          /\ pc[r] = "save" => gateway[p] # "none"
    /\ \A r \in Runs : \A p \in list[r] : state[p] # "none"
    /\ \A p \in Payouts : state[p] = "none" => gateway[p] = "none"

\* Of the runs at a payout one at most has claimed it and not yet written down what the
\* gateway said, and until then the payout is PROCESSING, or was failed under it and so
\* written off.  Once the id is known a run sends it again only if it was demoted.
OneRunPerPayout ==
    \A p \in Payouts :
        /\ ~sent[p] =>
              /\ p \notin demoted
              /\ \A r, s \in Runs : Sends(r, p) /\ Sends(s, p) => r = s
              /\ Sending(p) => \/ state[p] = "PROCESSING"
                               \/ state[p] = "FAILED" /\ p \in writtenOff
        /\ sent[p] /\ p \notin demoted => state[p] \notin {"PENDING", "APPROVED"} /\ ~Sending(p)

\* A payout whose earnings are about to be released, and which was not written off, is
\* closed, not with the gateway, and sent by nobody.
ReleasesAreWrittenOff ==
    \A r \in Runs : \A p \in Payouts :
        Releases(r, p) /\ p \notin writtenOff =>
            state[p] \notin Live /\ gateway[p] \notin AtGateway /\ ~Sending(p)

\* An earning is linked to a payout whose amount it is part of.
LinksAreCounted ==
    \A e \in Earnings :
        /\ status[e] \in {"BATCHED", "PAID"} => link[e] # NoPayout
        /\ \A p \in Payouts : link[e] = p =>
              state[p] # "none" /\ counts[p][e] > 0

\* The money the gateway has, and was not written off, is that of earnings linked to
\* the payout.
SentEarningsAreTied ==
    \A p \in Payouts : \A e \in Earnings :
        LeftWith(p, e) /\ p \notin writtenOff =>
            link[e] = p /\ status[e] \in {"BATCHED", "PAID", "REFUNDED"}

\* What returns to READY after a dispute had been READY before it.
HeldRemembers ==
    \A e \in Earnings : status[e] = "HELD" /\ prior[e] # "PENDING" => e \in matured

IInv ==
    /\ TypeOK
    /\ RunsAreSomewhere
    /\ IdsAreReal
    /\ OneRunPerPayout
    /\ ReleasesAreWrittenOff
    /\ LinksAreCounted
    /\ LiveKeepsEarnings
    /\ SentEarningsAreTied
    /\ PaidWasProcessed
    /\ OnlyMaturedIsPaid /\ HeldRemembers

\* The events and the reconciling jobs, with what the gateway must have done.
Completing(p) == gateway[p] \in {"processed", "reversed"} /\ Complete(p)
Bouncing(p)   == /\ gateway[p] \in {"failed", "cancelled", "reversed"}
                 /\ \E s \in {"FAILED", "CANCELLED"} : Bounce(p, s)
Reversing(p)  == gateway[p] = "reversed" /\ Reverse(p)

----------------------------------------------------------------------------

\* Every step preserves the types.
LEMMA TypesArePreserved ==
  ASSUME TypeOK, RunsAreSomewhere, [Next]_vars
  PROVE  TypeOK'
<1> USE PayoutsAssumption DEF TypeOK, EarningStatuses, PayoutStatuses, DisputeStatuses,
    GatewayStates, RunSteps, books, earning, payout, work, run, count, hist
<1>1. ASSUME NEW e \in Earnings, Mature(e) PROVE TypeOK'
  BY <1>1 DEF Mature
<1>2. ASSUME NEW e \in Earnings, HandleLostDispute(e) PROVE TypeOK'
  BY <1>2 DEF HandleLostDispute
<1>3. ASSUME NEW e \in Earnings, NEW s \in DisputeStatuses, DisputeCreated(e, s)
    PROVE TypeOK'
  BY <1>3 DEF DisputeCreated
<1>4. ASSUME NEW e \in Earnings, NEW s \in DisputeStatuses, DisputeUpdated(e, s)
    PROVE TypeOK'
  <2>1. DisputeWon(e) \/ DisputeLost(e) \/ UNCHANGED <<status, prior, refunded>>
    BY <1>4 DEF DisputeUpdated
  <2>2. dispute' \in [Earnings -> DisputeStatuses]
    BY <1>4 DEF DisputeUpdated
  <2>3. CASE DisputeWon(e)
    BY <1>4, <2>2, <2>3 DEF DisputeUpdated, DisputeWon, Restored
  <2>4. CASE DisputeLost(e)
    <3>1. \/ UNCHANGED refunded
          \/ \E paise \in 0 .. Share[e] :
                refunded' = [refunded EXCEPT ![e] = @ + TakenBack(e, paise)]
      BY <2>4 DEF DisputeLost
    <3>2. \A paise \in 0 .. Share[e] : TakenBack(e, paise) \in Nat
             /\ refunded[e] + TakenBack(e, paise) <= Share[e]
      BY DEF TakenBack, Payable
    <3>3. refunded' \in [Earnings -> Nat] /\ \A i \in Earnings : refunded'[i] <= Share[i]
      <4>1. CASE UNCHANGED refunded
        BY <4>1
      <4>2. ASSUME NEW paise \in 0 .. Share[e],
                   refunded' = [refunded EXCEPT ![e] = @ + TakenBack(e, paise)]
            PROVE  refunded' \in [Earnings -> Nat] /\ \A i \in Earnings : refunded'[i] <= Share[i]
        <5>1. refunded[e] + TakenBack(e, paise) \in Nat /\ refunded[e] + TakenBack(e, paise) <= Share[e]
          BY <3>2
        <5> DEFINE left == refunded[e] + TakenBack(e, paise)
        <5>2. refunded' = [refunded EXCEPT ![e] = left]
          BY <4>2
        <5> HIDE DEF left
        <5>3. left \in Nat /\ left <= Share[e]
          BY <5>1 DEF left
        <5>. QED
          BY <5>2, <5>3
      <4>. QED
        BY <3>1, <4>1, <4>2
    <3>5. status' \in [Earnings -> EarningStatuses] /\ prior' \in [Earnings -> {"none",
        "PENDING", "READY"}]
      BY <2>4 DEF DisputeLost
    <3>. QED
      BY <1>4, <2>2, <3>3, <3>5 DEF DisputeUpdated
  <2>5. CASE UNCHANGED <<status, prior, refunded>>
    BY <1>4, <2>2, <2>5 DEF DisputeUpdated
  <2>. QED
    BY <2>1, <2>3, <2>4, <2>5
<1>5. ASSUME NEW e \in Earnings, NEW paise \in 1 .. Share[e], RefundEarning(e, paise)
    PROVE TypeOK'
  BY <1>5 DEF RefundEarning, TakenBack, Payable
<1>6. ASSUME NEW b \in Batchers, ReadReady(b) PROVE TypeOK'
  BY <1>6 DEF ReadReady, Payable, Ready
<1>7. ASSUME NEW b \in Batchers, Link(b) PROVE TypeOK'
  <2>1. PICK p \in Payouts :
          /\ state' = [state EXCEPT ![p] =
                 IF Total(batch[b]) < AutoApprove THEN "APPROVED" ELSE "PENDING"]
          /\ counts' = [counts EXCEPT ![p] = batch[b]]
          /\ status' = [e \in Earnings |-> IF e \in Covered(batch[b]) THEN "BATCHED" ELSE status[e]]
          /\ link' = [e \in Earnings |-> IF e \in Covered(batch[b]) THEN p ELSE link[e]]
    BY <1>7 DEF Link, Restate, Relink
  <2>2. batch' \in [Batchers -> [Earnings -> Nat]]
    BY <1>7 DEF Link, Nothing
  <2>3. batch[b] \in [Earnings -> Nat]
    OBVIOUS
  <2>4. counts' \in [Payouts -> [Earnings -> Nat]] /\ state' \in [Payouts -> PayoutStatuses]
    BY <2>1, <2>3
  <2>5. status' \in [Earnings -> EarningStatuses] /\ link' \in [Earnings -> Payouts \cup {NoPayout}]
    BY <2>1
  <2>. QED
    BY <1>7, <2>2, <2>4, <2>5 DEF Link
<1>8. ASSUME NEW b \in Batchers, RollBack(b) PROVE TypeOK'
  BY <1>8 DEF RollBack, Nothing
<1>9. ASSUME NEW r \in Runs, Start(r) PROVE TypeOK'
  BY <1>9 DEF Start
<1>10. ASSUME NEW r \in Runs, Visit(r) PROVE TypeOK'
  <2>1. /\ pc' \in [Runs -> RunSteps] /\ list' \in [Runs -> SUBSET Payouts]
        /\ at' \in [Runs -> Payouts \cup {NoPayout}]
    <3>1. PICK p \in list[r] :
             \/ list' = [list EXCEPT ![r] = list[r] \ {p}] /\ UNCHANGED <<pc, at>>
             \/ /\ \E step \in {"claim", "fail"} : pc' = [pc EXCEPT ![r] = step]
                /\ at' = [at EXCEPT ![r] = p] /\ UNCHANGED list
      BY <1>10 DEF Visit
    <3>2. list[r] \subseteq Payouts
      OBVIOUS
    <3>3. CASE list' = [list EXCEPT ![r] = list[r] \ {p}] /\ UNCHANGED <<pc, at>>
      <4>1. list[r] \ {p} \in SUBSET Payouts
        BY <3>2
      <4>. QED
        BY <3>3, <4>1
    <3>4. CASE /\ \E step \in {"claim", "fail"} : pc' = [pc EXCEPT ![r] = step]
               /\ at' = [at EXCEPT ![r] = p] /\ UNCHANGED list
      <4>1. p \in Payouts
        BY <3>2
      <4>. QED
        BY <3>4, <4>1
    <3>. QED
      BY <3>1, <3>3, <3>4
  <2>. QED
    BY <1>10, <2>1 DEF Visit
<1>11. ASSUME NEW r \in Runs, Finish(r) PROVE TypeOK'
  BY <1>11 DEF Finish, Rest
<1>12. ASSUME NEW r \in Runs, Claim(r) PROVE TypeOK'
  <2>1. CASE SetState(at[r], "PROCESSING") /\ Goto(r, "submit")
    BY <1>12, <2>1 DEF Claim, SetState, Goto
  <2>2. CASE UNCHANGED payout /\ Leave(r)
    <3>1. list' \in [Runs -> SUBSET Payouts]
      <4>1. list[r] \subseteq Payouts
        OBVIOUS
      <4>. QED
        BY <2>2, <4>1 DEF Leave
    <3>. QED
      BY <1>12, <2>2, <3>1 DEF Claim, Leave
  <2>3. CASE UNCHANGED payout /\ Goto(r, "fail")
    BY <1>12, <2>3 DEF Claim, Goto
  <2>. QED
    BY <1>12, <2>1, <2>2, <2>3 DEF Claim
<1>13. ASSUME NEW r \in Runs, Submit(r) PROVE TypeOK'
  BY <1>13 DEF Submit, Goto
<1>14. ASSUME NEW r \in Runs, Refuse(r) PROVE TypeOK'
  BY <1>14 DEF Refuse, Goto
<1>15. ASSUME NEW r \in Runs, Save(r) PROVE TypeOK'
  BY <1>15 DEF Save, Leave
<1>16. ASSUME NEW r \in Runs, SaveFails(r) PROVE TypeOK'
  BY <1>16 DEF SaveFails, Leave
<1>17. ASSUME NEW r \in Runs, Fail(r) PROVE TypeOK'
  <2>1. at[r] \in Payouts
    BY <1>17 DEF Fail, RunsAreSomewhere
  <2>2. retries' \in [Payouts -> Nat] /\ state' \in [Payouts -> PayoutStatuses]
    BY <1>17, <2>1 DEF Fail
  <2>3. writtenOff' \subseteq Payouts /\ pc' \in [Runs -> RunSteps] /\ UNCHANGED <<list,
      at>>
    BY <1>17, <2>1 DEF Fail, WriteOff, Goto
  <2>. QED
    BY <1>17, <2>2, <2>3 DEF Fail
<1>18. ASSUME NEW r \in Runs, ReleaseFailed(r) PROVE TypeOK'
  BY <1>18 DEF ReleaseFailed, Release, Restate, Relink, Batched, Leave
<1>19. ASSUME NEW r \in Runs, Crash(r) PROVE TypeOK'
  BY <1>19 DEF Crash, Rest
<1>20. ASSUME NEW p \in Payouts, Approve(p) PROVE TypeOK'
  BY <1>20 DEF Approve, SetState
<1>21. ASSUME NEW p \in Payouts, Reject(p) PROVE TypeOK'
  BY <1>21 DEF Reject, SetState, Release, Restate, Relink, Batched, WriteOff
<1>22. ASSUME NEW p \in Payouts, Progress(p) PROVE TypeOK'
  <2>1. \E s \in GatewayStates : gateway' = [gateway EXCEPT ![p] = s]
    BY <1>22 DEF Progress
  <2>2. gateway' \in [Payouts -> GatewayStates]
    BY <2>1
  <2>. QED
    BY <1>22, <2>2 DEF Progress
<1>23. ASSUME NEW p \in Payouts, Completing(p) PROVE TypeOK'
  BY <1>23 DEF Completing, Complete, Settleable, SetState, PayEarnings, Restate, Batched
<1>24. ASSUME NEW p \in Payouts, Bouncing(p) PROVE TypeOK'
  BY <1>24 DEF Bouncing, Bounce, Settleable, SetState, Release, Restate, Relink, Batched
<1>25. ASSUME NEW p \in Payouts, Demote(p) PROVE TypeOK'
  BY <1>25 DEF Demote, SetState
<1>26. ASSUME NEW p \in Payouts, Reversing(p) PROVE TypeOK'
  BY <1>26 DEF Reversing, Reverse, SetState, Restate, Relink
<1>27. ASSUME NEW p \in Payouts, Retry(p) PROVE TypeOK'
  BY <1>27 DEF Retry, Stuck
<1>28. ASSUME NEW p \in Payouts, GiveUp(p) PROVE TypeOK'
  BY <1>28 DEF GiveUp, Stuck, SetState, Release, Restate, Relink, Batched, WriteOff
<1>29. CASE UNCHANGED vars
  BY <1>29 DEF vars
<1>30. QED
  BY <1>1, <1>2, <1>3, <1>4, <1>5, <1>6, <1>7, <1>8, <1>9, <1>10, <1>11, <1>12, <1>13,
      <1>14, <1>15,
     <1>16, <1>17, <1>18, <1>19, <1>20, <1>21, <1>22, <1>23, <1>24, <1>25, <1>26, <1>27,
         <1>28, <1>29
  DEF Next, EarningStep, BatchStep, RunStep, PayoutStep, Webhook, Reconcile, Completing,
      Bouncing, Reversing

\* A run's step moves it between being at a payout and being at none.
LEMMA RunsStaySomewhere ==
  ASSUME TypeOK, RunsAreSomewhere, [Next]_vars
  PROVE  RunsAreSomewhere'
<1> USE PayoutsAssumption DEF TypeOK, RunsAreSomewhere, RunSteps, books, earning, payout,
    work, run, count, hist
<1>1. ASSUME NEW e \in Earnings, Mature(e) PROVE RunsAreSomewhere'
  BY <1>1 DEF Mature
<1>2. ASSUME NEW e \in Earnings, HandleLostDispute(e) PROVE RunsAreSomewhere'
  BY <1>2 DEF HandleLostDispute
<1>3. ASSUME NEW e \in Earnings, NEW s \in DisputeStatuses, DisputeCreated(e, s)
    PROVE RunsAreSomewhere'
  BY <1>3 DEF DisputeCreated
<1>4. ASSUME NEW e \in Earnings, NEW s \in DisputeStatuses, DisputeUpdated(e, s)
    PROVE RunsAreSomewhere'
  BY <1>4 DEF DisputeUpdated, DisputeWon, DisputeLost, Restored
<1>5. ASSUME NEW e \in Earnings, NEW paise \in 1 .. Share[e], RefundEarning(e, paise)
    PROVE RunsAreSomewhere'
  BY <1>5 DEF RefundEarning, TakenBack, Payable
<1>6. ASSUME NEW b \in Batchers, ReadReady(b) PROVE RunsAreSomewhere'
  BY <1>6 DEF ReadReady, Payable, Ready
<1>7. ASSUME NEW b \in Batchers, Link(b) PROVE RunsAreSomewhere'
  BY <1>7 DEF Link, Linkable, Restate, Relink, Covered, Ready
<1>8. ASSUME NEW b \in Batchers, RollBack(b) PROVE RunsAreSomewhere'
  BY <1>8 DEF RollBack, Nothing
<1>9. ASSUME NEW r \in Runs, Start(r) PROVE RunsAreSomewhere'
  BY <1>9 DEF Start
<1>10. ASSUME NEW r \in Runs, Visit(r) PROVE RunsAreSomewhere'
  BY <1>10 DEF Visit
<1>11. ASSUME NEW r \in Runs, Finish(r) PROVE RunsAreSomewhere'
  BY <1>11 DEF Finish, Rest
<1>12. ASSUME NEW r \in Runs, Claim(r) PROVE RunsAreSomewhere'
  BY <1>12 DEF Claim, Claimable, SetState, Goto, Leave
<1>13. ASSUME NEW r \in Runs, Submit(r) PROVE RunsAreSomewhere'
  BY <1>13 DEF Submit, Goto
<1>14. ASSUME NEW r \in Runs, Refuse(r) PROVE RunsAreSomewhere'
  BY <1>14 DEF Refuse, Goto
<1>15. ASSUME NEW r \in Runs, Save(r) PROVE RunsAreSomewhere'
  BY <1>15 DEF Save, Leave
<1>16. ASSUME NEW r \in Runs, SaveFails(r) PROVE RunsAreSomewhere'
  BY <1>16 DEF SaveFails, Leave
<1>17. ASSUME NEW r \in Runs, Fail(r) PROVE RunsAreSomewhere'
  BY <1>17 DEF Fail, WriteOff, Goto
<1>18. ASSUME NEW r \in Runs, ReleaseFailed(r) PROVE RunsAreSomewhere'
  BY <1>18 DEF ReleaseFailed, Release, Restate, Relink, Batched, Leave
<1>19. ASSUME NEW r \in Runs, Crash(r) PROVE RunsAreSomewhere'
  BY <1>19 DEF Crash, Rest
<1>20. ASSUME NEW p \in Payouts, Approve(p) PROVE RunsAreSomewhere'
  BY <1>20 DEF Approve, SetState
<1>21. ASSUME NEW p \in Payouts, Reject(p) PROVE RunsAreSomewhere'
  BY <1>21 DEF Reject, SetState, Release, Restate, Relink, Batched, WriteOff
<1>22. ASSUME NEW p \in Payouts, Progress(p) PROVE RunsAreSomewhere'
  BY <1>22 DEF Progress
<1>23. ASSUME NEW p \in Payouts, Completing(p) PROVE RunsAreSomewhere'
  BY <1>23 DEF Completing, Complete, Settleable, SetState, PayEarnings, Restate, Batched
<1>24. ASSUME NEW p \in Payouts, Bouncing(p) PROVE RunsAreSomewhere'
  BY <1>24 DEF Bouncing, Bounce, Settleable, SetState, Release, Restate, Relink, Batched
<1>25. ASSUME NEW p \in Payouts, Demote(p) PROVE RunsAreSomewhere'
  BY <1>25 DEF Demote, SetState
<1>26. ASSUME NEW p \in Payouts, Reversing(p) PROVE RunsAreSomewhere'
  BY <1>26 DEF Reversing, Reverse, SetState, Restate, Relink
<1>27. ASSUME NEW p \in Payouts, Retry(p) PROVE RunsAreSomewhere'
  BY <1>27 DEF Retry, Stuck
<1>28. ASSUME NEW p \in Payouts, GiveUp(p) PROVE RunsAreSomewhere'
  BY <1>28 DEF GiveUp, Stuck, SetState, Release, Restate, Relink, Batched, WriteOff
<1>29. CASE UNCHANGED vars
  BY <1>29 DEF vars
<1>30. QED
  BY <1>1, <1>2, <1>3, <1>4, <1>5, <1>6, <1>7, <1>8, <1>9, <1>10, <1>11, <1>12, <1>13,
      <1>14, <1>15,
     <1>16, <1>17, <1>18, <1>19, <1>20, <1>21, <1>22, <1>23, <1>24, <1>25, <1>26, <1>27,
         <1>28, <1>29
  DEF Next, EarningStep, BatchStep, RunStep, PayoutStep, Webhook, Reconcile, Completing,
      Bouncing, Reversing

\* Ids stay the gateway's, and the rows of runs exist.
LEMMA IdsStayReal ==
  ASSUME TypeOK, RunsAreSomewhere, IdsAreReal, [Next]_vars
  PROVE  IdsAreReal'
<1> USE PayoutsAssumption DEF TypeOK, RunsAreSomewhere, IdsAreReal, RunSteps, books,
    earning, payout, work, run, count, hist
<1>1. ASSUME NEW e \in Earnings, Mature(e) PROVE IdsAreReal'
  BY <1>1 DEF Mature
<1>2. ASSUME NEW e \in Earnings, HandleLostDispute(e) PROVE IdsAreReal'
  BY <1>2 DEF HandleLostDispute
<1>3. ASSUME NEW e \in Earnings, NEW s \in DisputeStatuses, DisputeCreated(e, s)
    PROVE IdsAreReal'
  BY <1>3 DEF DisputeCreated
<1>4. ASSUME NEW e \in Earnings, NEW s \in DisputeStatuses, DisputeUpdated(e, s)
    PROVE IdsAreReal'
  BY <1>4 DEF DisputeUpdated, DisputeWon, DisputeLost, Restored
<1>5. ASSUME NEW e \in Earnings, NEW paise \in 1 .. Share[e], RefundEarning(e, paise)
    PROVE IdsAreReal'
  BY <1>5 DEF RefundEarning, TakenBack, Payable
<1>6. ASSUME NEW b \in Batchers, ReadReady(b) PROVE IdsAreReal'
  BY <1>6 DEF ReadReady, Payable, Ready
<1>7. ASSUME NEW b \in Batchers, Link(b) PROVE IdsAreReal'
  BY <1>7 DEF Link, Linkable, Restate, Relink, Covered, Ready
<1>8. ASSUME NEW b \in Batchers, RollBack(b) PROVE IdsAreReal'
  BY <1>8 DEF RollBack, Nothing
<1>9. ASSUME NEW r \in Runs, Start(r) PROVE IdsAreReal'
  BY <1>9 DEF Start
<1>10. ASSUME NEW r \in Runs, Visit(r) PROVE IdsAreReal'
  <2>1. UNCHANGED <<state, sent, gateway>>
    BY <1>10 DEF Visit
  <2>2. \A i \in Runs : list'[i] \subseteq list[i]
    BY <1>10 DEF Visit
  <2>3. \A i \in Runs, p \in Payouts : at'[i] = p => at[i] = p \/ p \in list[i]
    BY <1>10 DEF Visit
  <2>4. \A i \in Runs : pc'[i] = "save" => pc[i] = "save" /\ at'[i] = at[i]
    BY <1>10 DEF Visit
  <2>. QED
    BY <2>1, <2>2, <2>3, <2>4
<1>11. ASSUME NEW r \in Runs, Finish(r) PROVE IdsAreReal'
  BY <1>11 DEF Finish, Rest
<1>12. ASSUME NEW r \in Runs, Claim(r) PROVE IdsAreReal'
  <2>1. UNCHANGED <<sent, gateway>> /\ \A p \in Payouts : state[p] # "none" => state'[p] # "none"
    BY <1>12 DEF Claim, SetState
  <2>2. \A i \in Runs : list'[i] \subseteq list[i]
    BY <1>12 DEF Claim, Goto, Leave
  <2>3. \A i \in Runs, p \in Payouts : at'[i] = p => at[i] = p
    BY <1>12 DEF Claim, Goto, Leave
  <2>4. \A i \in Runs : pc'[i] = "save" => pc[i] = "save" /\ at'[i] = at[i]
    BY <1>12 DEF Claim, Goto, Leave
  <2>5. at[r] \in Payouts /\ \A p \in Payouts : p # at[r] => state'[p] = state[p]
    BY <1>12 DEF Claim, SetState
  <2>6. state[at[r]] # "none"
    BY <2>5
  <2>. QED
    BY <2>1, <2>2, <2>3, <2>4, <2>5, <2>6
<1>13. ASSUME NEW r \in Runs, Submit(r) PROVE IdsAreReal'
  <2>1. at[r] \in Payouts /\ gateway'[at[r]] # "none" /\ state[at[r]] # "none"
    BY <1>13 DEF Submit
  <2>2. \A q \in Payouts : q # at[r] => gateway'[q] = gateway[q]
    BY <1>13 DEF Submit
  <2>3. UNCHANGED <<at, list, state, sent>>
    BY <1>13 DEF Submit, Goto
  <2>4. \A i \in Runs, q \in Payouts : at[i] = q /\ pc'[i] = "save" => gateway'[q] # "none"
    BY <1>13, <2>1, <2>2 DEF Submit, Goto
  <2>. QED
    BY <1>13, <2>1, <2>2, <2>3, <2>4 DEF Submit
<1>14. ASSUME NEW r \in Runs, Refuse(r) PROVE IdsAreReal'
  BY <1>14 DEF Refuse, Goto
<1>15. ASSUME NEW r \in Runs, Save(r) PROVE IdsAreReal'
  BY <1>15 DEF Save, Leave
<1>16. ASSUME NEW r \in Runs, SaveFails(r) PROVE IdsAreReal'
  BY <1>16 DEF SaveFails, Leave
<1>17. ASSUME NEW r \in Runs, Fail(r) PROVE IdsAreReal'
  BY <1>17 DEF Fail, WriteOff, Goto
<1>18. ASSUME NEW r \in Runs, ReleaseFailed(r) PROVE IdsAreReal'
  BY <1>18 DEF ReleaseFailed, Release, Restate, Relink, Batched, Leave
<1>19. ASSUME NEW r \in Runs, Crash(r) PROVE IdsAreReal'
  BY <1>19 DEF Crash, Rest
<1>20. ASSUME NEW p \in Payouts, Approve(p) PROVE IdsAreReal'
  BY <1>20 DEF Approve, SetState
<1>21. ASSUME NEW p \in Payouts, Reject(p) PROVE IdsAreReal'
  BY <1>21 DEF Reject, SetState, Release, Restate, Relink, Batched, WriteOff
<1>22. ASSUME NEW p \in Payouts, Progress(p) PROVE IdsAreReal'
  BY <1>22 DEF Progress
<1>23. ASSUME NEW p \in Payouts, Completing(p) PROVE IdsAreReal'
  BY <1>23 DEF Completing, Complete, Settleable, SetState, PayEarnings, Restate, Batched
<1>24. ASSUME NEW p \in Payouts, Bouncing(p) PROVE IdsAreReal'
  BY <1>24 DEF Bouncing, Bounce, Settleable, SetState, Release, Restate, Relink, Batched
<1>25. ASSUME NEW p \in Payouts, Demote(p) PROVE IdsAreReal'
  BY <1>25 DEF Demote, SetState
<1>26. ASSUME NEW p \in Payouts, Reversing(p) PROVE IdsAreReal'
  BY <1>26 DEF Reversing, Reverse, SetState, Restate, Relink
<1>27. ASSUME NEW p \in Payouts, Retry(p) PROVE IdsAreReal'
  BY <1>27 DEF Retry, Stuck
<1>28. ASSUME NEW p \in Payouts, GiveUp(p) PROVE IdsAreReal'
  BY <1>28 DEF GiveUp, Stuck, SetState, Release, Restate, Relink, Batched, WriteOff
<1>29. CASE UNCHANGED vars
  BY <1>29 DEF vars
<1>30. QED
  BY <1>1, <1>2, <1>3, <1>4, <1>5, <1>6, <1>7, <1>8, <1>9, <1>10, <1>11, <1>12, <1>13,
      <1>14, <1>15,
     <1>16, <1>17, <1>18, <1>19, <1>20, <1>21, <1>22, <1>23, <1>24, <1>25, <1>26, <1>27,
         <1>28, <1>29
  DEF Next, EarningStep, BatchStep, RunStep, PayoutStep, Webhook, Reconcile, Completing,
      Bouncing, Reversing

\* No step has a second run send a payout whose id is not known.
LEMMA OneRunStays ==
  ASSUME TypeOK, RunsAreSomewhere, IdsAreReal, OneRunPerPayout, [Next]_vars
  PROVE  OneRunPerPayout'
<1> USE PayoutsAssumption DEF TypeOK, RunsAreSomewhere, IdsAreReal, OneRunPerPayout, Sends,
    Sending, RunSteps, books, earning, payout, work, run, count, hist
<1>1. ASSUME NEW e \in Earnings, Mature(e) PROVE OneRunPerPayout'
  BY <1>1 DEF Mature
<1>2. ASSUME NEW e \in Earnings, HandleLostDispute(e) PROVE OneRunPerPayout'
  BY <1>2 DEF HandleLostDispute
<1>3. ASSUME NEW e \in Earnings, NEW s \in DisputeStatuses, DisputeCreated(e, s)
    PROVE OneRunPerPayout'
  BY <1>3 DEF DisputeCreated
<1>4. ASSUME NEW e \in Earnings, NEW s \in DisputeStatuses, DisputeUpdated(e, s)
    PROVE OneRunPerPayout'
  BY <1>4 DEF DisputeUpdated, DisputeWon, DisputeLost, Restored
<1>5. ASSUME NEW e \in Earnings, NEW paise \in 1 .. Share[e], RefundEarning(e, paise)
    PROVE OneRunPerPayout'
  BY <1>5 DEF RefundEarning, TakenBack, Payable
<1>6. ASSUME NEW b \in Batchers, ReadReady(b) PROVE OneRunPerPayout'
  BY <1>6 DEF ReadReady, Payable, Ready
<1>7. ASSUME NEW b \in Batchers, Link(b) PROVE OneRunPerPayout'
  BY <1>7 DEF Link, Linkable, Restate, Relink, Covered, Ready
<1>8. ASSUME NEW b \in Batchers, RollBack(b) PROVE OneRunPerPayout'
  BY <1>8 DEF RollBack, Nothing
<1>9. ASSUME NEW r \in Runs, Start(r) PROVE OneRunPerPayout'
  BY <1>9 DEF Start
<1>10. ASSUME NEW r \in Runs, Visit(r) PROVE OneRunPerPayout'
  <2>1. \A i \in Runs, q \in Payouts : Sends(i, q)' => Sends(i, q)
    BY <1>10 DEF Visit
  <2>2. UNCHANGED <<state, sent, demoted, writtenOff>>
    BY <1>10 DEF Visit
  <2> HIDE DEF Sends, TypeOK, RunsAreSomewhere, IdsAreReal
  <2>. QED
    BY <2>1, <2>2
<1>11. ASSUME NEW r \in Runs, Finish(r) PROVE OneRunPerPayout'
  BY <1>11 DEF Finish, Rest
<1>12. ASSUME NEW r \in Runs, Claim(r) PROVE OneRunPerPayout'
  <2>1. at[r] \in Payouts
    BY <1>12 DEF Claim
  <2>2. CASE Claimable(at[r]) /\ SetState(at[r], "PROCESSING") /\ Goto(r, "submit")
    <3>1. \A i \in Runs, q \in Payouts : Sends(i, q)' => Sends(i, q) \/ (i = r /\ q = at[r])
      <4>1. at' = at /\ \A i \in Runs : i # r => pc'[i] = pc[i]
        BY <2>2 DEF Goto
      <4>. QED
        BY <4>1
    <3>2. ~sent[at[r]] => ~Sending(at[r])
      BY <2>1, <2>2 DEF Claimable
    <3>3. sent[at[r]] => at[r] \in demoted
      BY <2>1, <2>2 DEF Claimable
    <3>4. state' = [state EXCEPT ![at[r]] = "PROCESSING"] /\ UNCHANGED <<sent, demoted, writtenOff>>
      BY <1>12, <2>2 DEF Claim, SetState
    <3>5. DOMAIN state = Payouts
      OBVIOUS
    <3> HIDE DEF Sends, TypeOK, RunsAreSomewhere, IdsAreReal
    <3>. QED
      BY <2>1, <3>1, <3>2, <3>3, <3>4, <3>5
  <2>3. CASE UNCHANGED payout /\ (Leave(r) \/ Goto(r, "fail"))
    <3>1. \A i \in Runs, q \in Payouts : Sends(i, q)' => Sends(i, q)
      BY <2>3 DEF Leave, Goto
    <3>2. UNCHANGED <<state, sent, demoted, writtenOff>>
      BY <1>12, <2>3 DEF Claim
    <3> HIDE DEF Sends, TypeOK, RunsAreSomewhere, IdsAreReal
    <3>. QED
      BY <3>1, <3>2
  <2>. QED
    BY <1>12, <2>2, <2>3 DEF Claim
<1>13. ASSUME NEW r \in Runs, Submit(r) PROVE OneRunPerPayout'
  <2>1. \A i \in Runs, q \in Payouts : Sends(i, q)' => Sends(i, q)
    BY <1>13 DEF Submit, Goto
  <2>2. UNCHANGED <<state, sent, demoted, writtenOff>>
    BY <1>13 DEF Submit
  <2> HIDE DEF Sends, TypeOK, RunsAreSomewhere, IdsAreReal
  <2>. QED
    BY <2>1, <2>2
<1>14. ASSUME NEW r \in Runs, Refuse(r) PROVE OneRunPerPayout'
  BY <1>14 DEF Refuse, Goto
<1>15. ASSUME NEW r \in Runs, Save(r) PROVE OneRunPerPayout'
  BY <1>15 DEF Save, Leave
<1>16. ASSUME NEW r \in Runs, SaveFails(r) PROVE OneRunPerPayout'
  BY <1>16 DEF SaveFails, Leave
<1>17. ASSUME NEW r \in Runs, Fail(r) PROVE OneRunPerPayout'
  BY <1>17 DEF Fail, WriteOff, Goto
<1>18. ASSUME NEW r \in Runs, ReleaseFailed(r) PROVE OneRunPerPayout'
  BY <1>18 DEF ReleaseFailed, Release, Restate, Relink, Batched, Leave
<1>19. ASSUME NEW r \in Runs, Crash(r) PROVE OneRunPerPayout'
  BY <1>19 DEF Crash, Rest
<1>20. ASSUME NEW p \in Payouts, Approve(p) PROVE OneRunPerPayout'
  BY <1>20 DEF Approve, SetState
<1>21. ASSUME NEW p \in Payouts, Reject(p) PROVE OneRunPerPayout'
  BY <1>21 DEF Reject, SetState, Release, Restate, Relink, Batched, WriteOff
<1>22. ASSUME NEW p \in Payouts, Progress(p) PROVE OneRunPerPayout'
  BY <1>22 DEF Progress
<1>23. ASSUME NEW p \in Payouts, Completing(p) PROVE OneRunPerPayout'
  BY <1>23 DEF Completing, Complete, Settleable, SetState, PayEarnings, Restate, Batched
<1>24. ASSUME NEW p \in Payouts, Bouncing(p) PROVE OneRunPerPayout'
  BY <1>24 DEF Bouncing, Bounce, Settleable, SetState, Release, Restate, Relink, Batched
<1>25. ASSUME NEW p \in Payouts, Demote(p) PROVE OneRunPerPayout'
  BY <1>25 DEF Demote, SetState
<1>26. ASSUME NEW p \in Payouts, Reversing(p) PROVE OneRunPerPayout'
  BY <1>26 DEF Reversing, Reverse, SetState, Restate, Relink
<1>27. ASSUME NEW p \in Payouts, Retry(p) PROVE OneRunPerPayout'
  BY <1>27 DEF Retry, Stuck
<1>28. ASSUME NEW p \in Payouts, GiveUp(p) PROVE OneRunPerPayout'
  BY <1>28 DEF GiveUp, Stuck, SetState, Release, Restate, Relink, Batched, WriteOff
<1>29. CASE UNCHANGED vars
  BY <1>29 DEF vars
<1>30. QED
  BY <1>1, <1>2, <1>3, <1>4, <1>5, <1>6, <1>7, <1>8, <1>9, <1>10, <1>11, <1>12, <1>13,
      <1>14, <1>15,
     <1>16, <1>17, <1>18, <1>19, <1>20, <1>21, <1>22, <1>23, <1>24, <1>25, <1>26, <1>27,
         <1>28, <1>29
  DEF Next, EarningStep, BatchStep, RunStep, PayoutStep, Webhook, Reconcile, Completing,
      Bouncing, Reversing

\* Nobody sends a payout that is about to be released, unless it was written off.
LEMMA ReleasesStayWrittenOff ==
  ASSUME TypeOK, RunsAreSomewhere, IdsAreReal, OneRunPerPayout, ReleasesAreWrittenOff,
      [Next]_vars
  PROVE  ReleasesAreWrittenOff'
<1> USE PayoutsAssumption DEF TypeOK, RunsAreSomewhere, IdsAreReal, OneRunPerPayout,
    ReleasesAreWrittenOff, AtGateway, Live, Releases, Sends, Sending, RunSteps, books, earning, payout, work, run,
    count, hist
<1>1. ASSUME NEW e \in Earnings, Mature(e) PROVE ReleasesAreWrittenOff'
  BY <1>1 DEF Mature
<1>2. ASSUME NEW e \in Earnings, HandleLostDispute(e) PROVE ReleasesAreWrittenOff'
  BY <1>2 DEF HandleLostDispute
<1>3. ASSUME NEW e \in Earnings, NEW s \in DisputeStatuses, DisputeCreated(e, s)
    PROVE ReleasesAreWrittenOff'
  BY <1>3 DEF DisputeCreated
<1>4. ASSUME NEW e \in Earnings, NEW s \in DisputeStatuses, DisputeUpdated(e, s)
    PROVE ReleasesAreWrittenOff'
  BY <1>4 DEF DisputeUpdated, DisputeWon, DisputeLost, Restored
<1>5. ASSUME NEW e \in Earnings, NEW paise \in 1 .. Share[e], RefundEarning(e, paise)
    PROVE ReleasesAreWrittenOff'
  BY <1>5 DEF RefundEarning, TakenBack, Payable
<1>6. ASSUME NEW b \in Batchers, ReadReady(b) PROVE ReleasesAreWrittenOff'
  BY <1>6 DEF ReadReady, Payable, Ready
<1>7. ASSUME NEW b \in Batchers, Link(b) PROVE ReleasesAreWrittenOff'
  BY <1>7 DEF Link, Linkable, Restate, Relink, Covered, Ready
<1>8. ASSUME NEW b \in Batchers, RollBack(b) PROVE ReleasesAreWrittenOff'
  BY <1>8 DEF RollBack, Nothing
<1>9. ASSUME NEW r \in Runs, Start(r) PROVE ReleasesAreWrittenOff'
  BY <1>9 DEF Start
<1>10. ASSUME NEW r \in Runs, Visit(r) PROVE ReleasesAreWrittenOff'
  <2>1. \A i \in Runs, q \in Payouts :
           /\ Releases(i, q)' => Releases(i, q)
           /\ Sends(i, q)' => Sends(i, q)
    BY <1>10 DEF Visit
  <2>2. UNCHANGED <<writtenOff, state, gateway>>
    BY <1>10 DEF Visit
  <2> HIDE DEF Sends, Releases, TypeOK, RunsAreSomewhere, IdsAreReal, OneRunPerPayout
  <2>. QED
    BY <2>1, <2>2
<1>11. ASSUME NEW r \in Runs, Finish(r) PROVE ReleasesAreWrittenOff'
  BY <1>11 DEF Finish, Rest
<1>12. ASSUME NEW r \in Runs, Claim(r) PROVE ReleasesAreWrittenOff'
  BY <1>12 DEF Claim, Claimable, SetState, Goto, Leave
<1>13. ASSUME NEW r \in Runs, Submit(r) PROVE ReleasesAreWrittenOff'
  <2>1. at[r] \in Payouts /\ Sending(at[r])
    BY <1>13 DEF Submit
  <2>2. \A i \in Runs, q \in Payouts :
           /\ Releases(i, q)' => Releases(i, q)
           /\ Sends(i, q)' => Sends(i, q)
    BY <1>13 DEF Submit, Goto
  <2>3. \A q \in Payouts : q # at[r] => gateway'[q] = gateway[q]
    BY <1>13 DEF Submit
  <2>4. UNCHANGED <<writtenOff, state>>
    BY <1>13 DEF Submit
  <2> HIDE DEF Sends, Releases, TypeOK, RunsAreSomewhere, IdsAreReal, OneRunPerPayout
  <2>. QED
    BY <2>1, <2>2, <2>3, <2>4
<1>14. ASSUME NEW r \in Runs, Refuse(r) PROVE ReleasesAreWrittenOff'
  BY <1>14 DEF Refuse, Goto
<1>15. ASSUME NEW r \in Runs, Save(r) PROVE ReleasesAreWrittenOff'
  BY <1>15 DEF Save, Leave
<1>16. ASSUME NEW r \in Runs, SaveFails(r) PROVE ReleasesAreWrittenOff'
  BY <1>16 DEF SaveFails, Leave
<1>17. ASSUME NEW r \in Runs, Fail(r) PROVE ReleasesAreWrittenOff'
  BY <1>17 DEF Fail, WriteOff, Goto
<1>18. ASSUME NEW r \in Runs, ReleaseFailed(r) PROVE ReleasesAreWrittenOff'
  BY <1>18 DEF ReleaseFailed, Release, Restate, Relink, Batched, Leave
<1>19. ASSUME NEW r \in Runs, Crash(r) PROVE ReleasesAreWrittenOff'
  BY <1>19 DEF Crash, Rest
<1>20. ASSUME NEW p \in Payouts, Approve(p) PROVE ReleasesAreWrittenOff'
  BY <1>20 DEF Approve, SetState
<1>21. ASSUME NEW p \in Payouts, Reject(p) PROVE ReleasesAreWrittenOff'
  BY <1>21 DEF Reject, SetState, Release, Restate, Relink, Batched, WriteOff
<1>22. ASSUME NEW p \in Payouts, Progress(p) PROVE ReleasesAreWrittenOff'
  BY <1>22 DEF Progress
<1>23. ASSUME NEW p \in Payouts, Completing(p) PROVE ReleasesAreWrittenOff'
  BY <1>23 DEF Completing, Complete, Settleable, SetState, PayEarnings, Restate, Batched
<1>24. ASSUME NEW p \in Payouts, Bouncing(p) PROVE ReleasesAreWrittenOff'
  BY <1>24 DEF Bouncing, Bounce, Settleable, SetState, Release, Restate, Relink, Batched
<1>25. ASSUME NEW p \in Payouts, Demote(p) PROVE ReleasesAreWrittenOff'
  BY <1>25 DEF Demote, SetState
<1>26. ASSUME NEW p \in Payouts, Reversing(p) PROVE ReleasesAreWrittenOff'
  BY <1>26 DEF Reversing, Reverse, SetState, Restate, Relink
<1>27. ASSUME NEW p \in Payouts, Retry(p) PROVE ReleasesAreWrittenOff'
  BY <1>27 DEF Retry, Stuck
<1>28. ASSUME NEW p \in Payouts, GiveUp(p) PROVE ReleasesAreWrittenOff'
  BY <1>28 DEF GiveUp, Stuck, SetState, Release, Restate, Relink, Batched, WriteOff
<1>29. CASE UNCHANGED vars
  BY <1>29 DEF vars
<1>30. QED
  BY <1>1, <1>2, <1>3, <1>4, <1>5, <1>6, <1>7, <1>8, <1>9, <1>10, <1>11, <1>12, <1>13,
      <1>14, <1>15,
     <1>16, <1>17, <1>18, <1>19, <1>20, <1>21, <1>22, <1>23, <1>24, <1>25, <1>26, <1>27,
         <1>28, <1>29
  DEF Next, EarningStep, BatchStep, RunStep, PayoutStep, Webhook, Reconcile, Completing,
      Bouncing, Reversing

\* Every step keeps links and amounts together.
LEMMA LinksStayCounted ==
  ASSUME TypeOK, LinksAreCounted, [Next]_vars
  PROVE  LinksAreCounted'
<1> USE PayoutsAssumption DEF TypeOK, LinksAreCounted, books, earning, payout, work, run,
    count, hist
<1>1. ASSUME NEW e \in Earnings, Mature(e) PROVE LinksAreCounted'
  BY <1>1 DEF Mature
<1>2. ASSUME NEW e \in Earnings, HandleLostDispute(e) PROVE LinksAreCounted'
  BY <1>2 DEF HandleLostDispute
<1>3. ASSUME NEW e \in Earnings, NEW s \in DisputeStatuses, DisputeCreated(e, s)
    PROVE LinksAreCounted'
  BY <1>3 DEF DisputeCreated
<1>4. ASSUME NEW e \in Earnings, NEW s \in DisputeStatuses, DisputeUpdated(e, s)
    PROVE LinksAreCounted'
  BY <1>4 DEF DisputeUpdated, DisputeWon, DisputeLost, Restored
<1>5. ASSUME NEW e \in Earnings, NEW paise \in 1 .. Share[e], RefundEarning(e, paise)
    PROVE LinksAreCounted'
  BY <1>5 DEF RefundEarning, TakenBack, Payable
<1>6. ASSUME NEW b \in Batchers, ReadReady(b) PROVE LinksAreCounted'
  BY <1>6 DEF ReadReady, Payable, Ready
<1>7. ASSUME NEW b \in Batchers, Link(b) PROVE LinksAreCounted'
  BY <1>7 DEF Link, Linkable, Restate, Relink, Covered, Ready
<1>8. ASSUME NEW b \in Batchers, RollBack(b) PROVE LinksAreCounted'
  BY <1>8 DEF RollBack, Nothing
<1>9. ASSUME NEW r \in Runs, Start(r) PROVE LinksAreCounted'
  BY <1>9 DEF Start
<1>10. ASSUME NEW r \in Runs, Visit(r) PROVE LinksAreCounted'
  BY <1>10 DEF Visit
<1>11. ASSUME NEW r \in Runs, Finish(r) PROVE LinksAreCounted'
  BY <1>11 DEF Finish, Rest
<1>12. ASSUME NEW r \in Runs, Claim(r) PROVE LinksAreCounted'
  BY <1>12 DEF Claim, Claimable, SetState, Goto, Leave
<1>13. ASSUME NEW r \in Runs, Submit(r) PROVE LinksAreCounted'
  BY <1>13 DEF Submit, Goto
<1>14. ASSUME NEW r \in Runs, Refuse(r) PROVE LinksAreCounted'
  BY <1>14 DEF Refuse, Goto
<1>15. ASSUME NEW r \in Runs, Save(r) PROVE LinksAreCounted'
  BY <1>15 DEF Save, Leave
<1>16. ASSUME NEW r \in Runs, SaveFails(r) PROVE LinksAreCounted'
  BY <1>16 DEF SaveFails, Leave
<1>17. ASSUME NEW r \in Runs, Fail(r) PROVE LinksAreCounted'
  BY <1>17 DEF Fail, WriteOff, Goto
<1>18. ASSUME NEW r \in Runs, ReleaseFailed(r) PROVE LinksAreCounted'
  BY <1>18 DEF ReleaseFailed, Release, Restate, Relink, Batched, Leave
<1>19. ASSUME NEW r \in Runs, Crash(r) PROVE LinksAreCounted'
  BY <1>19 DEF Crash, Rest
<1>20. ASSUME NEW p \in Payouts, Approve(p) PROVE LinksAreCounted'
  BY <1>20 DEF Approve, SetState
<1>21. ASSUME NEW p \in Payouts, Reject(p) PROVE LinksAreCounted'
  BY <1>21 DEF Reject, SetState, Release, Restate, Relink, Batched, WriteOff
<1>22. ASSUME NEW p \in Payouts, Progress(p) PROVE LinksAreCounted'
  BY <1>22 DEF Progress
<1>23. ASSUME NEW p \in Payouts, Completing(p) PROVE LinksAreCounted'
  BY <1>23 DEF Completing, Complete, Settleable, SetState, PayEarnings, Restate, Batched
<1>24. ASSUME NEW p \in Payouts, Bouncing(p) PROVE LinksAreCounted'
  BY <1>24 DEF Bouncing, Bounce, Settleable, SetState, Release, Restate, Relink, Batched
<1>25. ASSUME NEW p \in Payouts, Demote(p) PROVE LinksAreCounted'
  BY <1>25 DEF Demote, SetState
<1>26. ASSUME NEW p \in Payouts, Reversing(p) PROVE LinksAreCounted'
  BY <1>26 DEF Reversing, Reverse, SetState, Restate, Relink
<1>27. ASSUME NEW p \in Payouts, Retry(p) PROVE LinksAreCounted'
  BY <1>27 DEF Retry, Stuck
<1>28. ASSUME NEW p \in Payouts, GiveUp(p) PROVE LinksAreCounted'
  BY <1>28 DEF GiveUp, Stuck, SetState, Release, Restate, Relink, Batched, WriteOff
<1>29. CASE UNCHANGED vars
  BY <1>29 DEF vars
<1>30. QED
  BY <1>1, <1>2, <1>3, <1>4, <1>5, <1>6, <1>7, <1>8, <1>9, <1>10, <1>11, <1>12, <1>13,
      <1>14, <1>15,
     <1>16, <1>17, <1>18, <1>19, <1>20, <1>21, <1>22, <1>23, <1>24, <1>25, <1>26, <1>27,
         <1>28, <1>29
  DEF Next, EarningStep, BatchStep, RunStep, PayoutStep, Webhook, Reconcile, Completing,
      Bouncing, Reversing

\* No step takes an earning from a payout that can still be paid.
LEMMA LiveStaysKept ==
  ASSUME TypeOK, RunsAreSomewhere, IdsAreReal, OneRunPerPayout, ReleasesAreWrittenOff,
      LiveKeepsEarnings, [Next]_vars
  PROVE  LiveKeepsEarnings'
<1> USE PayoutsAssumption DEF TypeOK, RunsAreSomewhere, IdsAreReal, OneRunPerPayout,
    LiveKeepsEarnings, Live, Releases, Sends, Sending, ReleasesAreWrittenOff, books, earning, payout, work, run, count, hist
<1>1. ASSUME NEW e \in Earnings, Mature(e) PROVE LiveKeepsEarnings'
  BY <1>1 DEF Mature
<1>2. ASSUME NEW e \in Earnings, HandleLostDispute(e) PROVE LiveKeepsEarnings'
  BY <1>2 DEF HandleLostDispute
<1>3. ASSUME NEW e \in Earnings, NEW s \in DisputeStatuses, DisputeCreated(e, s)
    PROVE LiveKeepsEarnings'
  BY <1>3 DEF DisputeCreated
<1>4. ASSUME NEW e \in Earnings, NEW s \in DisputeStatuses, DisputeUpdated(e, s)
    PROVE LiveKeepsEarnings'
  BY <1>4 DEF DisputeUpdated, DisputeWon, DisputeLost, Restored
<1>5. ASSUME NEW e \in Earnings, NEW paise \in 1 .. Share[e], RefundEarning(e, paise)
    PROVE LiveKeepsEarnings'
  BY <1>5 DEF RefundEarning, TakenBack, Payable
<1>6. ASSUME NEW b \in Batchers, ReadReady(b) PROVE LiveKeepsEarnings'
  BY <1>6 DEF ReadReady, Payable, Ready
<1>7. ASSUME NEW b \in Batchers, Link(b) PROVE LiveKeepsEarnings'
  BY <1>7 DEF Link, Linkable, Restate, Relink, Covered, Ready
<1>8. ASSUME NEW b \in Batchers, RollBack(b) PROVE LiveKeepsEarnings'
  BY <1>8 DEF RollBack, Nothing
<1>9. ASSUME NEW r \in Runs, Start(r) PROVE LiveKeepsEarnings'
  BY <1>9 DEF Start
<1>10. ASSUME NEW r \in Runs, Visit(r) PROVE LiveKeepsEarnings'
  BY <1>10 DEF Visit
<1>11. ASSUME NEW r \in Runs, Finish(r) PROVE LiveKeepsEarnings'
  BY <1>11 DEF Finish, Rest
<1>12. ASSUME NEW r \in Runs, Claim(r) PROVE LiveKeepsEarnings'
  BY <1>12 DEF Claim, Claimable, SetState, Goto, Leave
<1>13. ASSUME NEW r \in Runs, Submit(r) PROVE LiveKeepsEarnings'
  BY <1>13 DEF Submit, Goto
<1>14. ASSUME NEW r \in Runs, Refuse(r) PROVE LiveKeepsEarnings'
  BY <1>14 DEF Refuse, Goto
<1>15. ASSUME NEW r \in Runs, Save(r) PROVE LiveKeepsEarnings'
  BY <1>15 DEF Save, Leave
<1>16. ASSUME NEW r \in Runs, SaveFails(r) PROVE LiveKeepsEarnings'
  BY <1>16 DEF SaveFails, Leave
<1>17. ASSUME NEW r \in Runs, Fail(r) PROVE LiveKeepsEarnings'
  BY <1>17 DEF Fail, WriteOff, Goto
<1>18. ASSUME NEW r \in Runs, ReleaseFailed(r) PROVE LiveKeepsEarnings'
  BY <1>18 DEF ReleaseFailed, Release, Restate, Relink, Batched, Leave
<1>19. ASSUME NEW r \in Runs, Crash(r) PROVE LiveKeepsEarnings'
  BY <1>19 DEF Crash, Rest
<1>20. ASSUME NEW p \in Payouts, Approve(p) PROVE LiveKeepsEarnings'
  BY <1>20 DEF Approve, SetState
<1>21. ASSUME NEW p \in Payouts, Reject(p) PROVE LiveKeepsEarnings'
  BY <1>21 DEF Reject, SetState, Release, Restate, Relink, Batched, WriteOff
<1>22. ASSUME NEW p \in Payouts, Progress(p) PROVE LiveKeepsEarnings'
  BY <1>22 DEF Progress
<1>23. ASSUME NEW p \in Payouts, Completing(p) PROVE LiveKeepsEarnings'
  BY <1>23 DEF Completing, Complete, Settleable, SetState, PayEarnings, Restate, Batched
<1>24. ASSUME NEW p \in Payouts, Bouncing(p) PROVE LiveKeepsEarnings'
  BY <1>24 DEF Bouncing, Bounce, Settleable, SetState, Release, Restate, Relink, Batched
<1>25. ASSUME NEW p \in Payouts, Demote(p) PROVE LiveKeepsEarnings'
  BY <1>25 DEF Demote, SetState
<1>26. ASSUME NEW p \in Payouts, Reversing(p) PROVE LiveKeepsEarnings'
  BY <1>26 DEF Reversing, Reverse, SetState, Restate, Relink
<1>27. ASSUME NEW p \in Payouts, Retry(p) PROVE LiveKeepsEarnings'
  BY <1>27 DEF Retry, Stuck
<1>28. ASSUME NEW p \in Payouts, GiveUp(p) PROVE LiveKeepsEarnings'
  BY <1>28 DEF GiveUp, Stuck, SetState, Release, Restate, Relink, Batched, WriteOff
<1>29. CASE UNCHANGED vars
  BY <1>29 DEF vars
<1>30. QED
  BY <1>1, <1>2, <1>3, <1>4, <1>5, <1>6, <1>7, <1>8, <1>9, <1>10, <1>11, <1>12, <1>13,
      <1>14, <1>15,
     <1>16, <1>17, <1>18, <1>19, <1>20, <1>21, <1>22, <1>23, <1>24, <1>25, <1>26, <1>27,
         <1>28, <1>29
  DEF Next, EarningStep, BatchStep, RunStep, PayoutStep, Webhook, Reconcile, Completing,
      Bouncing, Reversing

\* No step takes an earning from a payout the gateway has, without a trace.
LEMMA SentStaysTied ==
  ASSUME TypeOK, RunsAreSomewhere, IdsAreReal, OneRunPerPayout, ReleasesAreWrittenOff,
      LiveKeepsEarnings, SentEarningsAreTied, [Next]_vars
  PROVE  SentEarningsAreTied'
<1> USE PayoutsAssumption DEF TypeOK, RunsAreSomewhere, IdsAreReal, OneRunPerPayout,
    ReleasesAreWrittenOff, LiveKeepsEarnings, SentEarningsAreTied, LeftWith, AtGateway,
    Live, Releases, Sends, Sending, books, earning, payout, work, run, count, hist
<1>1. ASSUME NEW e \in Earnings, Mature(e) PROVE SentEarningsAreTied'
  BY <1>1 DEF Mature
<1>2. ASSUME NEW e \in Earnings, HandleLostDispute(e) PROVE SentEarningsAreTied'
  BY <1>2 DEF HandleLostDispute
<1>3. ASSUME NEW e \in Earnings, NEW s \in DisputeStatuses, DisputeCreated(e, s)
    PROVE SentEarningsAreTied'
  BY <1>3 DEF DisputeCreated
<1>4. ASSUME NEW e \in Earnings, NEW s \in DisputeStatuses, DisputeUpdated(e, s)
    PROVE SentEarningsAreTied'
  BY <1>4 DEF DisputeUpdated, DisputeWon, DisputeLost, Restored
<1>5. ASSUME NEW e \in Earnings, NEW paise \in 1 .. Share[e], RefundEarning(e, paise)
    PROVE SentEarningsAreTied'
  BY <1>5 DEF RefundEarning, TakenBack, Payable
<1>6. ASSUME NEW b \in Batchers, ReadReady(b) PROVE SentEarningsAreTied'
  BY <1>6 DEF ReadReady, Payable, Ready
<1>7. ASSUME NEW b \in Batchers, Link(b) PROVE SentEarningsAreTied'
  BY <1>7 DEF Link, Linkable, Restate, Relink, Covered, Ready
<1>8. ASSUME NEW b \in Batchers, RollBack(b) PROVE SentEarningsAreTied'
  BY <1>8 DEF RollBack, Nothing
<1>9. ASSUME NEW r \in Runs, Start(r) PROVE SentEarningsAreTied'
  BY <1>9 DEF Start
<1>10. ASSUME NEW r \in Runs, Visit(r) PROVE SentEarningsAreTied'
  BY <1>10 DEF Visit
<1>11. ASSUME NEW r \in Runs, Finish(r) PROVE SentEarningsAreTied'
  BY <1>11 DEF Finish, Rest
<1>12. ASSUME NEW r \in Runs, Claim(r) PROVE SentEarningsAreTied'
  BY <1>12 DEF Claim, Claimable, SetState, Goto, Leave
<1>13. ASSUME NEW r \in Runs, Submit(r) PROVE SentEarningsAreTied'
  BY <1>13 DEF Submit, Goto
<1>14. ASSUME NEW r \in Runs, Refuse(r) PROVE SentEarningsAreTied'
  BY <1>14 DEF Refuse, Goto
<1>15. ASSUME NEW r \in Runs, Save(r) PROVE SentEarningsAreTied'
  BY <1>15 DEF Save, Leave
<1>16. ASSUME NEW r \in Runs, SaveFails(r) PROVE SentEarningsAreTied'
  BY <1>16 DEF SaveFails, Leave
<1>17. ASSUME NEW r \in Runs, Fail(r) PROVE SentEarningsAreTied'
  BY <1>17 DEF Fail, WriteOff, Goto
<1>18. ASSUME NEW r \in Runs, ReleaseFailed(r) PROVE SentEarningsAreTied'
  BY <1>18 DEF ReleaseFailed, Release, Restate, Relink, Batched, Leave
<1>19. ASSUME NEW r \in Runs, Crash(r) PROVE SentEarningsAreTied'
  BY <1>19 DEF Crash, Rest
<1>20. ASSUME NEW p \in Payouts, Approve(p) PROVE SentEarningsAreTied'
  BY <1>20 DEF Approve, SetState
<1>21. ASSUME NEW p \in Payouts, Reject(p) PROVE SentEarningsAreTied'
  BY <1>21 DEF Reject, SetState, Release, Restate, Relink, Batched, WriteOff
<1>22. ASSUME NEW p \in Payouts, Progress(p) PROVE SentEarningsAreTied'
  BY <1>22 DEF Progress
<1>23. ASSUME NEW p \in Payouts, Completing(p) PROVE SentEarningsAreTied'
  BY <1>23 DEF Completing, Complete, Settleable, SetState, PayEarnings, Restate, Batched
<1>24. ASSUME NEW p \in Payouts, Bouncing(p) PROVE SentEarningsAreTied'
  BY <1>24 DEF Bouncing, Bounce, Settleable, SetState, Release, Restate, Relink, Batched
<1>25. ASSUME NEW p \in Payouts, Demote(p) PROVE SentEarningsAreTied'
  BY <1>25 DEF Demote, SetState
<1>26. ASSUME NEW p \in Payouts, Reversing(p) PROVE SentEarningsAreTied'
  BY <1>26 DEF Reversing, Reverse, SetState, Restate, Relink
<1>27. ASSUME NEW p \in Payouts, Retry(p) PROVE SentEarningsAreTied'
  BY <1>27 DEF Retry, Stuck
<1>28. ASSUME NEW p \in Payouts, GiveUp(p) PROVE SentEarningsAreTied'
  BY <1>28 DEF GiveUp, Stuck, SetState, Release, Restate, Relink, Batched, WriteOff
<1>29. CASE UNCHANGED vars
  BY <1>29 DEF vars
<1>30. QED
  BY <1>1, <1>2, <1>3, <1>4, <1>5, <1>6, <1>7, <1>8, <1>9, <1>10, <1>11, <1>12, <1>13,
      <1>14, <1>15,
     <1>16, <1>17, <1>18, <1>19, <1>20, <1>21, <1>22, <1>23, <1>24, <1>25, <1>26, <1>27,
         <1>28, <1>29
  DEF Next, EarningStep, BatchStep, RunStep, PayoutStep, Webhook, Reconcile, Completing,
      Bouncing, Reversing

\* PAID is written only for what the gateway processed, and kept with it.
LEMMA PaidStaysProcessed ==
  ASSUME TypeOK, LinksAreCounted, PaidWasProcessed, [Next]_vars
  PROVE  PaidWasProcessed'
<1> USE PayoutsAssumption DEF TypeOK, LinksAreCounted, PaidWasProcessed, books, earning,
    payout, work, run, count, hist
<1>1. ASSUME NEW e \in Earnings, Mature(e) PROVE PaidWasProcessed'
  BY <1>1 DEF Mature
<1>2. ASSUME NEW e \in Earnings, HandleLostDispute(e) PROVE PaidWasProcessed'
  BY <1>2 DEF HandleLostDispute
<1>3. ASSUME NEW e \in Earnings, NEW s \in DisputeStatuses, DisputeCreated(e, s)
    PROVE PaidWasProcessed'
  BY <1>3 DEF DisputeCreated
<1>4. ASSUME NEW e \in Earnings, NEW s \in DisputeStatuses, DisputeUpdated(e, s)
    PROVE PaidWasProcessed'
  BY <1>4 DEF DisputeUpdated, DisputeWon, DisputeLost, Restored
<1>5. ASSUME NEW e \in Earnings, NEW paise \in 1 .. Share[e], RefundEarning(e, paise)
    PROVE PaidWasProcessed'
  BY <1>5 DEF RefundEarning, TakenBack, Payable
<1>6. ASSUME NEW b \in Batchers, ReadReady(b) PROVE PaidWasProcessed'
  BY <1>6 DEF ReadReady, Payable, Ready
<1>7. ASSUME NEW b \in Batchers, Link(b) PROVE PaidWasProcessed'
  BY <1>7 DEF Link, Linkable, Restate, Relink, Covered, Ready
<1>8. ASSUME NEW b \in Batchers, RollBack(b) PROVE PaidWasProcessed'
  BY <1>8 DEF RollBack, Nothing
<1>9. ASSUME NEW r \in Runs, Start(r) PROVE PaidWasProcessed'
  BY <1>9 DEF Start
<1>10. ASSUME NEW r \in Runs, Visit(r) PROVE PaidWasProcessed'
  BY <1>10 DEF Visit
<1>11. ASSUME NEW r \in Runs, Finish(r) PROVE PaidWasProcessed'
  BY <1>11 DEF Finish, Rest
<1>12. ASSUME NEW r \in Runs, Claim(r) PROVE PaidWasProcessed'
  BY <1>12 DEF Claim, Claimable, SetState, Goto, Leave
<1>13. ASSUME NEW r \in Runs, Submit(r) PROVE PaidWasProcessed'
  BY <1>13 DEF Submit, Goto
<1>14. ASSUME NEW r \in Runs, Refuse(r) PROVE PaidWasProcessed'
  BY <1>14 DEF Refuse, Goto
<1>15. ASSUME NEW r \in Runs, Save(r) PROVE PaidWasProcessed'
  BY <1>15 DEF Save, Leave
<1>16. ASSUME NEW r \in Runs, SaveFails(r) PROVE PaidWasProcessed'
  BY <1>16 DEF SaveFails, Leave
<1>17. ASSUME NEW r \in Runs, Fail(r) PROVE PaidWasProcessed'
  BY <1>17 DEF Fail, WriteOff, Goto
<1>18. ASSUME NEW r \in Runs, ReleaseFailed(r) PROVE PaidWasProcessed'
  BY <1>18 DEF ReleaseFailed, Release, Restate, Relink, Batched, Leave
<1>19. ASSUME NEW r \in Runs, Crash(r) PROVE PaidWasProcessed'
  BY <1>19 DEF Crash, Rest
<1>20. ASSUME NEW p \in Payouts, Approve(p) PROVE PaidWasProcessed'
  BY <1>20 DEF Approve, SetState
<1>21. ASSUME NEW p \in Payouts, Reject(p) PROVE PaidWasProcessed'
  BY <1>21 DEF Reject, SetState, Release, Restate, Relink, Batched, WriteOff
<1>22. ASSUME NEW p \in Payouts, Progress(p) PROVE PaidWasProcessed'
  BY <1>22 DEF Progress
<1>23. ASSUME NEW p \in Payouts, Completing(p) PROVE PaidWasProcessed'
  BY <1>23 DEF Completing, Complete, Settleable, SetState, PayEarnings, Restate, Batched
<1>24. ASSUME NEW p \in Payouts, Bouncing(p) PROVE PaidWasProcessed'
  BY <1>24 DEF Bouncing, Bounce, Settleable, SetState, Release, Restate, Relink, Batched
<1>25. ASSUME NEW p \in Payouts, Demote(p) PROVE PaidWasProcessed'
  BY <1>25 DEF Demote, SetState
<1>26. ASSUME NEW p \in Payouts, Reversing(p) PROVE PaidWasProcessed'
  BY <1>26 DEF Reversing, Reverse, SetState, Restate, Relink
<1>27. ASSUME NEW p \in Payouts, Retry(p) PROVE PaidWasProcessed'
  BY <1>27 DEF Retry, Stuck
<1>28. ASSUME NEW p \in Payouts, GiveUp(p) PROVE PaidWasProcessed'
  BY <1>28 DEF GiveUp, Stuck, SetState, Release, Restate, Relink, Batched, WriteOff
<1>29. CASE UNCHANGED vars
  BY <1>29 DEF vars
<1>30. QED
  BY <1>1, <1>2, <1>3, <1>4, <1>5, <1>6, <1>7, <1>8, <1>9, <1>10, <1>11, <1>12, <1>13,
      <1>14, <1>15,
     <1>16, <1>17, <1>18, <1>19, <1>20, <1>21, <1>22, <1>23, <1>24, <1>25, <1>26, <1>27,
         <1>28, <1>29
  DEF Next, EarningStep, BatchStep, RunStep, PayoutStep, Webhook, Reconcile, Completing,
      Bouncing, Reversing

\* Nothing becomes READY, or returns to it, before it has matured.
LEMMA MaturedStays ==
  ASSUME TypeOK, OnlyMaturedIsPaid, HeldRemembers, [Next]_vars
  PROVE  (OnlyMaturedIsPaid /\ HeldRemembers)'
<1> USE PayoutsAssumption DEF TypeOK, OnlyMaturedIsPaid, HeldRemembers, books, earning,
    payout, work, run, count, hist
<1>1. ASSUME NEW e \in Earnings, Mature(e) PROVE (OnlyMaturedIsPaid /\ HeldRemembers)'
  BY <1>1 DEF Mature
<1>2. ASSUME NEW e \in Earnings, HandleLostDispute(e)
    PROVE (OnlyMaturedIsPaid /\ HeldRemembers)'
  BY <1>2 DEF HandleLostDispute
<1>3. ASSUME NEW e \in Earnings, NEW s \in DisputeStatuses, DisputeCreated(e, s)
    PROVE (OnlyMaturedIsPaid /\ HeldRemembers)'
  BY <1>3 DEF DisputeCreated
<1>4. ASSUME NEW e \in Earnings, NEW s \in DisputeStatuses, DisputeUpdated(e, s)
    PROVE (OnlyMaturedIsPaid /\ HeldRemembers)'
  BY <1>4 DEF DisputeUpdated, DisputeWon, DisputeLost, Restored
<1>5. ASSUME NEW e \in Earnings, NEW paise \in 1 .. Share[e], RefundEarning(e, paise)
    PROVE (OnlyMaturedIsPaid /\ HeldRemembers)'
  BY <1>5 DEF RefundEarning, TakenBack, Payable
<1>6. ASSUME NEW b \in Batchers, ReadReady(b) PROVE (OnlyMaturedIsPaid /\ HeldRemembers)'
  BY <1>6 DEF ReadReady, Payable, Ready
<1>7. ASSUME NEW b \in Batchers, Link(b) PROVE (OnlyMaturedIsPaid /\ HeldRemembers)'
  BY <1>7 DEF Link, Linkable, Restate, Relink, Covered, Ready
<1>8. ASSUME NEW b \in Batchers, RollBack(b) PROVE (OnlyMaturedIsPaid /\ HeldRemembers)'
  BY <1>8 DEF RollBack, Nothing
<1>9. ASSUME NEW r \in Runs, Start(r) PROVE (OnlyMaturedIsPaid /\ HeldRemembers)'
  BY <1>9 DEF Start
<1>10. ASSUME NEW r \in Runs, Visit(r) PROVE (OnlyMaturedIsPaid /\ HeldRemembers)'
  BY <1>10 DEF Visit
<1>11. ASSUME NEW r \in Runs, Finish(r) PROVE (OnlyMaturedIsPaid /\ HeldRemembers)'
  BY <1>11 DEF Finish, Rest
<1>12. ASSUME NEW r \in Runs, Claim(r) PROVE (OnlyMaturedIsPaid /\ HeldRemembers)'
  BY <1>12 DEF Claim, Claimable, SetState, Goto, Leave
<1>13. ASSUME NEW r \in Runs, Submit(r) PROVE (OnlyMaturedIsPaid /\ HeldRemembers)'
  BY <1>13 DEF Submit, Goto
<1>14. ASSUME NEW r \in Runs, Refuse(r) PROVE (OnlyMaturedIsPaid /\ HeldRemembers)'
  BY <1>14 DEF Refuse, Goto
<1>15. ASSUME NEW r \in Runs, Save(r) PROVE (OnlyMaturedIsPaid /\ HeldRemembers)'
  BY <1>15 DEF Save, Leave
<1>16. ASSUME NEW r \in Runs, SaveFails(r) PROVE (OnlyMaturedIsPaid /\ HeldRemembers)'
  BY <1>16 DEF SaveFails, Leave
<1>17. ASSUME NEW r \in Runs, Fail(r) PROVE (OnlyMaturedIsPaid /\ HeldRemembers)'
  BY <1>17 DEF Fail, WriteOff, Goto
<1>18. ASSUME NEW r \in Runs, ReleaseFailed(r) PROVE (OnlyMaturedIsPaid /\ HeldRemembers)'
  BY <1>18 DEF ReleaseFailed, Release, Restate, Relink, Batched, Leave
<1>19. ASSUME NEW r \in Runs, Crash(r) PROVE (OnlyMaturedIsPaid /\ HeldRemembers)'
  BY <1>19 DEF Crash, Rest
<1>20. ASSUME NEW p \in Payouts, Approve(p) PROVE (OnlyMaturedIsPaid /\ HeldRemembers)'
  BY <1>20 DEF Approve, SetState
<1>21. ASSUME NEW p \in Payouts, Reject(p) PROVE (OnlyMaturedIsPaid /\ HeldRemembers)'
  BY <1>21 DEF Reject, SetState, Release, Restate, Relink, Batched, WriteOff
<1>22. ASSUME NEW p \in Payouts, Progress(p) PROVE (OnlyMaturedIsPaid /\ HeldRemembers)'
  BY <1>22 DEF Progress
<1>23. ASSUME NEW p \in Payouts, Completing(p) PROVE (OnlyMaturedIsPaid /\ HeldRemembers)'
  BY <1>23 DEF Completing, Complete, Settleable, SetState, PayEarnings, Restate, Batched
<1>24. ASSUME NEW p \in Payouts, Bouncing(p) PROVE (OnlyMaturedIsPaid /\ HeldRemembers)'
  BY <1>24 DEF Bouncing, Bounce, Settleable, SetState, Release, Restate, Relink, Batched
<1>25. ASSUME NEW p \in Payouts, Demote(p) PROVE (OnlyMaturedIsPaid /\ HeldRemembers)'
  BY <1>25 DEF Demote, SetState
<1>26. ASSUME NEW p \in Payouts, Reversing(p) PROVE (OnlyMaturedIsPaid /\ HeldRemembers)'
  BY <1>26 DEF Reversing, Reverse, SetState, Restate, Relink
<1>27. ASSUME NEW p \in Payouts, Retry(p) PROVE (OnlyMaturedIsPaid /\ HeldRemembers)'
  BY <1>27 DEF Retry, Stuck
<1>28. ASSUME NEW p \in Payouts, GiveUp(p) PROVE (OnlyMaturedIsPaid /\ HeldRemembers)'
  BY <1>28 DEF GiveUp, Stuck, SetState, Release, Restate, Relink, Batched, WriteOff
<1>29. CASE UNCHANGED vars
  BY <1>29 DEF vars
<1>30. QED
  BY <1>1, <1>2, <1>3, <1>4, <1>5, <1>6, <1>7, <1>8, <1>9, <1>10, <1>11, <1>12, <1>13,
      <1>14, <1>15,
     <1>16, <1>17, <1>18, <1>19, <1>20, <1>21, <1>22, <1>23, <1>24, <1>25, <1>26, <1>27,
         <1>28, <1>29
  DEF Next, EarningStep, BatchStep, RunStep, PayoutStep, Webhook, Reconcile, Completing,
      Bouncing, Reversing

LEMMA InvariantStart == Init => IInv
<1> SUFFICES ASSUME Init PROVE IInv
  OBVIOUS
<1> USE PayoutsAssumption DEF Init, Nothing
<1>1. TypeOK
  BY DEF TypeOK, EarningStatuses, PayoutStatuses, DisputeStatuses, GatewayStates, RunSteps
<1>2. RunsAreSomewhere /\ IdsAreReal /\ OneRunPerPayout /\ ReleasesAreWrittenOff
  BY DEF RunsAreSomewhere, IdsAreReal, OneRunPerPayout, ReleasesAreWrittenOff,
      Sends, Sending, Releases
<1>3. LinksAreCounted /\ LiveKeepsEarnings /\ SentEarningsAreTied
  BY DEF LinksAreCounted, LiveKeepsEarnings, Live, SentEarningsAreTied, LeftWith, AtGateway
<1>4. PaidWasProcessed /\ OnlyMaturedIsPaid /\ HeldRemembers
  BY DEF PaidWasProcessed, OnlyMaturedIsPaid, HeldRemembers
<1>5. QED
  BY <1>1, <1>2, <1>3, <1>4 DEF IInv

LEMMA InvariantStep == IInv /\ [Next]_vars => IInv'
<1> SUFFICES ASSUME IInv, [Next]_vars PROVE IInv'
  OBVIOUS
<1> USE DEF IInv
<1>1. TypeOK' /\ RunsAreSomewhere' /\ IdsAreReal'
  BY TypesArePreserved, RunsStaySomewhere, IdsStayReal
<1>2. OneRunPerPayout' /\ ReleasesAreWrittenOff'
  BY OneRunStays, ReleasesStayWrittenOff
<1>3. LinksAreCounted' /\ LiveKeepsEarnings' /\ SentEarningsAreTied'
  BY LinksStayCounted, LiveStaysKept, SentStaysTied
<1>4. PaidWasProcessed' /\ OnlyMaturedIsPaid' /\ HeldRemembers'
  BY PaidStaysProcessed, MaturedStays
<1>5. QED
  BY <1>1, <1>2, <1>3, <1>4

LEMMA Invariance == Spec => []IInv
  BY InvariantStart, InvariantStep, PTL DEF Spec

----------------------------------------------------------------------------
\* The values of every variable stay what the columns and the gateway allow.
THEOREM PayoutTypes == Spec => []TypeOK
<1>1. IInv => TypeOK
  BY DEF IInv
<1>2. QED
  BY <1>1, Invariance, PTL

\* However batches, runs, events and jobs interleave and die, the gateway pays an
\* earning through two payouts only if one of the two was failed or cancelled here while
\* the gateway had it or another run was sending it: every other way to pay twice is
\* closed by the compare-and-set writes of createPayoutBatch, processSinglePayout and
\* handlePayoutWebhook.  The catch that writes by id is the way they leave open.
THEOREM MoneyLeavesOnce == Spec => []PaidOnce
<1>1. IInv => PaidOnce
  BY PayoutsAssumption DEF IInv, SentEarningsAreTied, PaidOnce
<1>2. QED
  BY <1>1, Invariance, PTL

\* No rejection, failed run, dispute, refund or late event takes an earning from a
\* payout that can still be paid, unless an event put that payout back to PENDING or the
\* payout was written off: failed by id by a run, while another was sending it.
THEOREM LivePayoutsKeepEarnings == Spec => []LiveKeepsEarnings
<1>1. IInv => LiveKeepsEarnings
  BY DEF IInv
<1>2. QED
  BY <1>1, Invariance, PTL

\* An earning says PAID only if the gateway processed the payout it is linked to.
THEOREM PaidIsProcessed == Spec => []PaidWasProcessed
<1>1. IInv => PaidWasProcessed
  BY DEF IInv
<1>2. QED
  BY <1>1, Invariance, PTL

\* However disputes open, close and are won, no earning is batched before its hold
\* period has passed.
THEOREM OnlyMaturedEarningsArePaid == Spec => []OnlyMaturedIsPaid
<1>1. IInv => OnlyMaturedIsPaid
  BY DEF IInv
<1>2. QED
  BY <1>1, Invariance, PTL

\* Whatever runs overlap, one at most is between its claim of a payout and the write of
\* the gateway's id, and none is once the id is known, unless an event demoted the payout.
\* Others may be in their catch for the same payout meanwhile; if one of them failed it,
\* it is written off.
THEOREM OneRunSubmits == Spec => []OneRunPerPayout
<1>1. IInv => OneRunPerPayout
  BY DEF IInv
<1>2. QED
  BY <1>1, Invariance, PTL

\* Money that the gateway has, of a payout that was not failed or cancelled here while the
\* gateway had it or a run was sending it, is that of earnings that are linked to its payout: no batch can take them again.
THEOREM SentEarningsStayTied == Spec => []SentEarningsAreTied
<1>1. IInv => SentEarningsAreTied
  BY DEF IInv
<1>2. QED
  BY <1>1, Invariance, PTL
=============================================================================
