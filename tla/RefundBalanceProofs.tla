------------------------ MODULE RefundBalanceProofs ------------------------
(***************************************************************************)
(* The sums of RefundEngine, for every payment, share, legs and number of  *)
(* refunds: what requests have booked fits the payment, and what was taken *)
(* back from the earning and the legs is what was refunded.                *)
(***************************************************************************)
EXTENDS RefundEngineProofs

\* A request reserves once.
FreshRequests == \A r \in Requests : pc[r] \in {"check", "reserve"} => own[r] = "none"

\* Until a row has the gateway's id, the placeholder waits.
PlaceholdersWait ==
    \A r \in Requests : carrier[r] = None /\ gateway[r] # "none" => own[r] = "PENDING"

HooksCarry == \A g \in Refunds : hook[g] # "none" => carrier[g] = Hook

\* What a request goes on to settle is processed.
Answers == \A r \in Requests : pc[r] \in {"processed", "settle"} => gateway[r] = "processed"

RowFacts == FreshRequests /\ PlaceholdersWait /\ HooksCarry /\ Answers

\* No request reserves while a dispute is open.
LateIsLost == late # {} => dispute = "lost"

\* A payment the organisation funded meets no gateway; its refunds are whole at once.
InternalIsApart == rail = "internal" =>
    /\ dispute = "none"
    /\ \A r \in Requests : /\ pc[r] \in {"check", "over"}
                           /\ own[r] \in {"none", "SUCCEEDED"}
                           /\ own[r] # "none" => r \in ownDone
    /\ \A g \in Refunds : /\ gateway[g] = "none"
                          /\ times[g] # 0 => g \in Requests /\ own[g] = "SUCCEEDED"
                          /\ carrier[g] # None => carrier[g] = g

\* A row reads SUCCEEDED, and a cascade is applied, once the gateway has paid.
SettledIsProcessed == rail = "gateway" =>
    \A g \in Refunds : /\ carrier[g] # None /\ StatusOf(g) = "SUCCEEDED" => gateway[g] = "processed"
                       /\ times[g] # 0 => gateway[g] = "processed"

\* The gateway pays no more back than it was paid.
SentRefunds == {g \in Refunds : gateway[g] \in Sent}
SentFits    == SumAsked(SentRefunds) <= Amount

\* What is taken back fits too, and no leg but the last gives back more than its part.
RefundedFits == SumAsked(Cascaded) <= Amount
EarlierLegs  == DOMAIN Legs \ {Len(Legs)}
EarlierLegsInProportion ==
    \A i \in EarlierLegs : Amount * back[i] <= Legs[i] * SumAsked(Cascaded)

Rounding == RoundingIsBounded /\ RefundedFits /\ EarlierLegsInProportion

----------------------------------------------------------------------------
LEMMA Matched ==
  ASSUME NEW r \in Requests, MatchPlaceholder(r)
  PROVE  /\ own[r] = "PENDING" /\ pc[r] = "over" /\ \A g \in Refunds : carrier[g] # r
         /\ UNCHANGED <<rail, request, gateway, hook, cascade, dispute, restored, late>>
         /\ \E g \in Refunds :
              /\ gateway[g] # "none"
              /\ g # r => g \in Dashboard /\ gateway[r] = "none"
              /\ \/ /\ carrier[g] = None /\ carrier' = [carrier EXCEPT ![g] = r]
                    /\ own' = [own EXCEPT ![r] = RowStatus(gateway[g])]
                 \/ /\ carrier[g] # None /\ UNCHANGED carrier
                    /\ own' = [own EXCEPT ![r] = "none"]
<1>1. \A g \in Matches(r) : /\ g \in Refunds /\ gateway[g] # "none"
                            /\ g # r => g \in Dashboard /\ gateway[r] = "none"
  BY AreRefunds DEF Matches, Alike
<1>2. PICK g \in Matches(r) :
        IF IdIsFree(g)
        THEN /\ carrier' = [carrier EXCEPT ![g] = r]
             /\ own' = [own EXCEPT ![r] = RowStatus(gateway[g])]
        ELSE own' = [own EXCEPT ![r] = "none"] /\ UNCHANGED carrier
  BY DEF MatchPlaceholder
<1>3. \/ /\ carrier[g] = None /\ carrier' = [carrier EXCEPT ![g] = r]
         /\ own' = [own EXCEPT ![r] = RowStatus(gateway[g])]
      \/ /\ carrier[g] # None /\ UNCHANGED carrier
         /\ own' = [own EXCEPT ![r] = "none"]
  BY <1>2 DEF IdIsFree
<1>4. own[r] = "PENDING" /\ pc[r] = "over" /\ \A h \in Refunds : carrier[h] # r
  BY DEF MatchPlaceholder, Placeholder
<1>5. UNCHANGED <<rail, request, gateway, hook, cascade, dispute, restored, late>>
  BY DEF MatchPlaceholder
<1>6. g \in Refunds /\ gateway[g] # "none" /\ (g # r => g \in Dashboard /\ gateway[r] = "none")
  BY <1>1, <1>2
<1>7. QED
  BY <1>3, <1>4, <1>5, <1>6

\* The rows and what the requests heard of them stay together.
LEMMA RowFactsStay ==
  ASSUME IInv, RowFacts, [Next]_vars
  PROVE  RowFacts'
<1> USE AreRefunds DEF IInv, TypeOK, Places, Carriers, RowFacts, FreshRequests,
    PlaceholdersWait, HooksCarry, Answers, RequestSteps, RowStatuses, request, rows, cascade
<1>1. ASSUME NEW r \in Requests, NEW a \in 1 .. Amount, Check(r, a) PROVE RowFacts'
  BY <1>1 DEF Check, Goto
<1>2. ASSUME NEW r \in Requests, NEW a \in 1 .. Amount, RefundInternally(r, a) PROVE RowFacts'
  <2>1. pc[r] = "check" /\ gateway[r] = "none" /\ hook[r] = "none" /\ r \in Refunds
    BY <1>2 DEF RefundInternally
  <2>2. /\ own' = [own EXCEPT ![r] = "SUCCEEDED"] /\ carrier' = [carrier EXCEPT ![r] = r]
        /\ pc' = [pc EXCEPT ![r] = "over"] /\ UNCHANGED <<hook, gateway>>
    BY <1>2 DEF RefundInternally, Goto
  <2>3. QED
    BY <2>1, <2>2
<1>3. ASSUME NEW r \in Requests, Reserve(r) PROVE RowFacts'
  BY <1>3 DEF Reserve, Goto
<1>4. ASSUME NEW r \in Requests, RefuseToReserve(r) PROVE RowFacts'
  BY <1>4 DEF RefuseToReserve, Goto
<1>5. ASSUME NEW r \in Requests, Submit(r) PROVE RowFacts'
  BY <1>5 DEF Submit, Goto
<1>6. ASSUME NEW r \in Requests, Refuse(r) PROVE RowFacts'
  BY <1>6 DEF Refuse, Goto
<1>7. ASSUME NEW r \in Requests, Bind(r) PROVE RowFacts'
  BY <1>7 DEF Bind, IdIsFree, Goto, Sent
<1>8. ASSUME NEW r \in Requests, BindFailure(r) PROVE RowFacts'
  BY <1>8 DEF BindFailure, IdIsFree, Goto
<1>9. ASSUME NEW r \in Requests, Settle(r) PROVE RowFacts'
  <2>1. /\ r \in Refunds /\ carrier[r] # None /\ pc[r] = "settle" /\ Put(r, "SUCCEEDED")
        /\ pc' = [pc EXCEPT ![r] = "over"] /\ UNCHANGED <<carrier, gateway>>
    BY <1>9 DEF Settle, SettlesAreBound, Goto
  <2>2. /\ \A q \in Requests : own'[q] = IF q = carrier[r] THEN "SUCCEEDED" ELSE own[q]
        /\ \A h \in Refunds : hook'[h] = IF h = r /\ carrier[r] = Hook THEN "SUCCEEDED" ELSE hook[h]
    BY <2>1, PutMoves
  <2>3. QED
    BY <2>1, <2>2
<1>10. ASSUME NEW r \in Requests, Crash(r) PROVE RowFacts'
  BY <1>10 DEF Crash, Goto
<1>11. ASSUME NEW r \in Requests, MatchPlaceholder(r) PROVE RowFacts'
  <2>1. PICK g \in Refunds :
           /\ gateway[g] # "none"
           /\ g # r => g \in Dashboard /\ gateway[r] = "none"
           /\ \/ /\ carrier[g] = None /\ carrier' = [carrier EXCEPT ![g] = r]
                 /\ own' = [own EXCEPT ![r] = RowStatus(gateway[g])]
              \/ /\ carrier[g] # None /\ UNCHANGED carrier
                 /\ own' = [own EXCEPT ![r] = "none"]
    BY <1>11, Matched
  <2>2. pc[r] = "over" /\ UNCHANGED <<pc, gateway, hook>>
    BY <1>11, Matched
  <2>3. QED
    BY <2>1, <2>2
<1>12. ASSUME NEW r \in Requests, FailPlaceholder(r) PROVE RowFacts'
  <2>1. /\ gateway[r] = "none" /\ pc[r] = "over" /\ own' = [own EXCEPT ![r] = "FAILED"]
        /\ UNCHANGED <<pc, gateway, hook, carrier>>
    BY <1>12 DEF FailPlaceholder, Placeholder, Matches
  <2>2. QED
    BY <2>1
<1>13. ASSUME NEW g \in Refunds, Progress(g) PROVE RowFacts'
  BY <1>13 DEF Progress
<1>14. ASSUME NEW g \in Refunds, NEW s \in {"pending", "processed", "failed"},
    WebhookKnown(g, s) PROVE RowFacts'
  <2>1. /\ carrier[g] # None /\ Put(g, RowStatus(s)) /\ UNCHANGED <<pc, carrier, gateway>>
        /\ StatusOf(g) = "PENDING" /\ RowStatus(s) \in RowStatuses
    BY <1>14 DEF WebhookKnown, RowStatus
  <2>2. /\ \A q \in Requests : own'[q] = IF q = carrier[g] THEN RowStatus(s) ELSE own[q]
        /\ \A h \in Refunds : hook'[h] = IF h = g /\ carrier[g] = Hook THEN RowStatus(s) ELSE hook[h]
    BY <2>1, PutMoves
  <2>3. QED
    BY <2>1, <2>2
<1>15. ASSUME NEW g \in Refunds, NEW s \in {"pending", "processed", "failed"},
    WebhookUnknown(g, s) PROVE RowFacts'
  BY <1>15 DEF WebhookUnknown, RowStatus
<1>16. ASSUME NEW g \in Refunds, PollRow(g) PROVE RowFacts'
  <2>1. /\ carrier[g] # None /\ Put(g, RowStatus(gateway[g])) /\ UNCHANGED <<pc, carrier, gateway>>
        /\ StatusOf(g) = "PENDING" /\ RowStatus(gateway[g]) \in RowStatuses
    BY <1>16 DEF PollRow, RowStatus
  <2>2. /\ \A q \in Requests : own'[q] = IF q = carrier[g] THEN RowStatus(gateway[g]) ELSE own[q]
        /\ \A h \in Refunds : hook'[h] = IF h = g /\ carrier[g] = Hook THEN RowStatus(gateway[g]) ELSE hook[h]
    BY <2>1, PutMoves
  <2>3. QED
    BY <2>1, <2>2
<1>17. ASSUME NEW g \in Refunds, CascadeBackstop(g) PROVE RowFacts'
  BY <1>17 DEF CascadeBackstop
<1>18. ASSUME NEW g \in Refunds, NEW a \in 1 .. Amount, OperatorRefunds(g, a) PROVE RowFacts'
  BY <1>18 DEF OperatorRefunds
<1>19. ASSUME Dispute PROVE RowFacts'
  BY <1>19 DEF Dispute
<1>20. ASSUME ResolveDispute PROVE RowFacts'
  BY <1>20 DEF ResolveDispute
<1>21. CASE UNCHANGED vars
  BY <1>21 DEF vars
<1>22. QED
  BY <1>1, <1>2, <1>3, <1>4, <1>5, <1>6, <1>7, <1>8, <1>9, <1>10, <1>11,
     <1>12, <1>13, <1>14, <1>15, <1>16, <1>17, <1>18, <1>19, <1>20, <1>21
  DEF Next, RequestStep, Webhook

----------------------------------------------------------------------------
\* All that happens to a payment the organisation funded is refunds in one transaction.
LEMMA InternalSteps ==
  ASSUME IInv, RowFacts, InternalIsApart, rail = "internal", [Next]_vars
  PROVE  UNCHANGED vars \/ \E r \in Requests, a \in 1 .. Amount : RefundInternally(r, a)
<1> USE AreRefunds DEF IInv, TypeOK, InternalIsApart
<1>1. ASSUME NEW r \in Requests PROVE ~ (\E a \in 1 .. Amount : Check(r, a))
  BY DEF Check
<1>2. ASSUME NEW r \in Requests
      PROVE  /\ ~ Reserve(r) /\ ~ RefuseToReserve(r) /\ ~ Submit(r) /\ ~ Refuse(r)
             /\ ~ Bind(r) /\ ~ BindFailure(r) /\ ~ Settle(r) /\ ~ Crash(r)
  BY DEF Reserve, RefuseToReserve, Submit, Refuse, Bind, BindFailure, Settle, Crash, Sent
<1>3. ASSUME NEW r \in Requests PROVE ~ MatchPlaceholder(r) /\ ~ FailPlaceholder(r)
  BY DEF MatchPlaceholder, FailPlaceholder, Placeholder
<1>4. ASSUME NEW g \in Refunds PROVE ~ Progress(g) /\ ~ Webhook(g) /\ ~ PollRow(g)
  BY DEF Progress, Webhook, WebhookKnown, WebhookUnknown, Reports, PollRow, Polled
<1>5. ASSUME NEW g \in Refunds PROVE ~ CascadeBackstop(g)
  BY DEF CascadeBackstop, StatusOf, Claimed
<1>6. ~ Dispute /\ ~ ResolveDispute /\ \A g \in Refunds : ~ \E a \in 1 .. Amount : OperatorRefunds(g, a)
  BY DEF Dispute, ResolveDispute, OperatorRefunds
<1>7. QED
  BY <1>1, <1>2, <1>3, <1>4, <1>5, <1>6 DEF Next, RequestStep

LEMMA InternalStaysApart ==
  ASSUME IInv, RowFacts, InternalIsApart, [Next]_vars
  PROVE  InternalIsApart'
<1>1. rail' = rail
  BY DEF Next, RequestStep, Webhook, vars, Check, RefundInternally, Reserve, RefuseToReserve,
    Submit, Refuse, Bind, BindFailure, Settle, Crash, MatchPlaceholder, FailPlaceholder, Progress,
    WebhookKnown, WebhookUnknown, PollRow, CascadeBackstop, OperatorRefunds, Dispute, ResolveDispute
<1>2. CASE rail # "internal"
  BY <1>1, <1>2 DEF InternalIsApart
<1>3. CASE rail = "internal"
  <2>1. CASE UNCHANGED vars
    BY <2>1 DEF InternalIsApart, vars, request, rows, cascade
  <2>2. ASSUME NEW r \in Requests, NEW a \in 1 .. Amount, RefundInternally(r, a)
        PROVE  InternalIsApart'
    <3>1. /\ pc' = [pc EXCEPT ![r] = "over"] /\ own' = [own EXCEPT ![r] = "SUCCEEDED"]
          /\ carrier' = [carrier EXCEPT ![r] = r] /\ times' = [times EXCEPT ![r] = @ + 1]
          /\ ownDone' = ownDone \cup {r} /\ UNCHANGED <<gateway, dispute>>
      BY <2>2 DEF RefundInternally, TakeBack, Goto
    <3>2. QED
      BY <1>3, <3>1, AreRefunds DEF InternalIsApart, IInv, TypeOK
  <2>3. QED
    BY <1>3, <2>1, <2>2, InternalSteps
<1>4. QED
  BY <1>2, <1>3

\* What a step of a payment through the gateway takes back, the gateway has paid.
LEMMA OnlyPaidIsTakenBack ==
  ASSUME IInv, RowFacts, SettledIsProcessed, rail = "gateway", [Next]_vars
  PROVE  \/ \E g \in Refunds : /\ times[g] = 0 /\ gateway[g] = "processed"
                               /\ TakeBack(g, asked[g]) /\ UNCHANGED <<asked, gateway, dispute>>
         \/ /\ UNCHANGED <<times, back>>
            /\ UNCHANGED <<taken, dispute>> \/ Dispute \/ ResolveDispute
<1> DEFINE Paid(g) == /\ times[g] = 0 /\ gateway[g] = "processed"
                      /\ TakeBack(g, asked[g]) /\ UNCHANGED <<asked, gateway, dispute>>
           Other == UNCHANGED <<times, back, taken, dispute>>
<1>1. ASSUME NEW g \in Refunds, carrier[g] # None, ~ Claimed(g) PROVE times[g] = 0
  BY <1>1 DEF IInv, CascadesAreClaimed
<1>2. ASSUME NEW g \in Refunds, Cascade(g), carrier[g] # None, gateway[g] = "processed",
             UNCHANGED <<asked, gateway, dispute>>
      PROVE  Paid(g) \/ Other
  BY <1>1, <1>2 DEF Cascade, cascade
<1>3. ASSUME NEW r \in Requests, \E a \in 1 .. Amount : Check(r, a) PROVE Other
  BY <1>3 DEF Check, cascade
<1>4. ASSUME NEW r \in Requests, Settle(r) PROVE Paid(r) \/ Other
  <2>1. gateway[r] = "processed" /\ carrier[r] # None /\ r \in Refunds
    BY <1>4, AreRefunds DEF Settle, RowFacts, Answers, IInv, SettlesAreBound
  <2>2. Cascade(r) /\ UNCHANGED <<asked, gateway, dispute>>
    BY <1>4 DEF Settle
  <2>3. QED
    BY <1>2, <2>1, <2>2
<1>5. ASSUME NEW r \in Requests,
             \/ Reserve(r) \/ RefuseToReserve(r) \/ Submit(r) \/ Refuse(r) \/ Bind(r)
             \/ BindFailure(r) \/ Crash(r) \/ MatchPlaceholder(r) \/ FailPlaceholder(r)
      PROVE  Other
  BY <1>5 DEF Reserve, RefuseToReserve, Submit, Refuse, Bind, BindFailure, Crash,
    MatchPlaceholder, FailPlaceholder, cascade
<1>6. ASSUME NEW g \in Refunds, Progress(g) \/ PollRow(g) \/ \E a \in 1 .. Amount : OperatorRefunds(g, a)
      PROVE  Other
  BY <1>6 DEF Progress, PollRow, OperatorRefunds, cascade
<1>7. ASSUME NEW g \in Refunds, NEW s \in {"pending", "processed", "failed"}, WebhookKnown(g, s)
      PROVE  Paid(g) \/ Other
  <2>1. CASE s = "processed"
    <3>1. gateway[g] = "processed" /\ carrier[g] # None /\ Cascade(g)
      BY <1>7, <2>1 DEF WebhookKnown, Reports
    <3>2. UNCHANGED <<asked, gateway, dispute>>
      BY <1>7 DEF WebhookKnown, request
    <3>3. QED
      BY <1>2, <3>1, <3>2
  <2>2. CASE s # "processed"
    BY <1>7, <2>2 DEF WebhookKnown, cascade
  <2>3. QED
    BY <2>1, <2>2
<1>8. ASSUME NEW g \in Refunds, NEW s \in {"pending", "processed", "failed"}, WebhookUnknown(g, s)
      PROVE  Paid(g) \/ Other
  <2>1. CASE s = "processed"
    <3>1. gateway[g] = "processed" /\ carrier[g] = None /\ TakeBack(g, asked[g])
      BY <1>8, <2>1 DEF WebhookUnknown, Reports, IdIsFree
    <3>2. UNCHANGED <<asked, gateway, dispute>>
      BY <1>8 DEF WebhookUnknown, request
    <3>3. times[g] = 0
      BY <3>1 DEF IInv, CascadesAreClaimed
    <3>4. QED
      BY <3>1, <3>2, <3>3
  <2>2. CASE s # "processed"
    BY <1>8, <2>2 DEF WebhookUnknown, cascade
  <2>3. QED
    BY <2>1, <2>2
<1>9. ASSUME NEW g \in Refunds, CascadeBackstop(g) PROVE Paid(g) \/ Other
  <2>1. gateway[g] = "processed" /\ carrier[g] # None /\ Cascade(g)
    BY <1>9 DEF CascadeBackstop, SettledIsProcessed
  <2>2. UNCHANGED <<asked, gateway, dispute>>
    BY <1>9 DEF CascadeBackstop, request
  <2>3. QED
    BY <1>2, <2>1, <2>2
<1>10. ASSUME Dispute \/ ResolveDispute PROVE UNCHANGED <<times, back>>
  BY <1>10 DEF Dispute, ResolveDispute, cascade
<1>11. ASSUME UNCHANGED vars PROVE Other
  BY <1>11 DEF vars, cascade
<1>12. ASSUME NEW r \in Requests PROVE ~ \E a \in 1 .. Amount : RefundInternally(r, a)
  BY DEF RefundInternally
<1>13. QED
  <2> HIDE DEF Paid, Other
  <2>1. (\E g \in Refunds : Paid(g)) \/ Other \/ Dispute \/ ResolveDispute
    BY <1>3, <1>4, <1>5, <1>6, <1>7, <1>8, <1>9, <1>11, <1>12, AreRefunds
    DEF Next, RequestStep, Webhook
  <2>2. QED
    BY <2>1, <1>10 DEF Paid, Other

LEMMA RailStays == [Next]_vars => rail' = rail
  BY DEF Next, RequestStep, Webhook, vars, Check, RefundInternally, Reserve, RefuseToReserve,
    Submit, Refuse, Bind, BindFailure, Settle, Crash, MatchPlaceholder, FailPlaceholder, Progress,
    WebhookKnown, WebhookUnknown, PollRow, CascadeBackstop, OperatorRefunds, Dispute, ResolveDispute

\* What the gateway did of a refund is final once it is processed or failed.
LEMMA ProcessedStays ==
  ASSUME IInv, [Next]_vars, NEW g \in Refunds, gateway[g] = "processed"
  PROVE  gateway'[g] = "processed"
<1> USE DEF IInv, TypeOK, Places
<1>1. ASSUME NEW r \in Requests, Submit(r) PROVE gateway'[g] = "processed"
  BY <1>1, AreRefunds DEF Submit
<1>2. ASSUME NEW h \in Refunds, Progress(h) PROVE gateway'[g] = "processed"
  BY <1>2 DEF Progress
<1>3. ASSUME NEW h \in Refunds, NEW a \in 1 .. Amount, OperatorRefunds(h, a)
      PROVE  gateway'[g] = "processed"
  BY <1>3 DEF OperatorRefunds
<1>4. ASSUME NEW r \in Requests,
             \/ \E a \in 1 .. Amount : Check(r, a) \/ RefundInternally(r, a)
             \/ Reserve(r) \/ RefuseToReserve(r) \/ Refuse(r) \/ Bind(r) \/ BindFailure(r)
             \/ Settle(r) \/ Crash(r) \/ MatchPlaceholder(r) \/ FailPlaceholder(r)
      PROVE  UNCHANGED gateway
  BY <1>4 DEF Check, RefundInternally, Reserve, RefuseToReserve, Refuse, Bind, BindFailure,
    Settle, Crash, MatchPlaceholder, FailPlaceholder
<1>5. ASSUME NEW h \in Refunds, Webhook(h) \/ PollRow(h) \/ CascadeBackstop(h)
      PROVE  UNCHANGED gateway
  BY <1>5 DEF Webhook, WebhookKnown, WebhookUnknown, PollRow, CascadeBackstop
<1>6. ASSUME Dispute \/ ResolveDispute \/ UNCHANGED vars PROVE UNCHANGED gateway
  BY <1>6 DEF Dispute, ResolveDispute, vars
<1>7. QED
  BY <1>1, <1>2, <1>3, <1>4, <1>5, <1>6 DEF Next, RequestStep

\* A row comes to read SUCCEEDED, as a cascade is applied, for what is processed.
LEMMA SettledStaysProcessed ==
  ASSUME IInv, RowFacts, SettledIsProcessed, [Next]_vars
  PROVE  SettledIsProcessed'
<1> SUFFICES ASSUME rail = "gateway", NEW h \in Refunds
             PROVE  /\ carrier'[h] # None /\ StatusOf(h)' = "SUCCEEDED" => gateway'[h] = "processed"
                    /\ times'[h] # 0 => gateway'[h] = "processed"
  BY RailStays DEF SettledIsProcessed
<1>0. times'[h] # 0 => gateway'[h] = "processed"
  <2>1. times[h] # 0 => gateway[h] = "processed"
    BY DEF SettledIsProcessed
  <2>2. ASSUME NEW g \in Refunds, gateway[g] = "processed", TakeBack(g, asked[g])
        PROVE  times'[h] # 0 => gateway[h] = "processed"
    BY <2>1, <2>2 DEF TakeBack, IInv, TypeOK
  <2>3. times'[h] # 0 => gateway[h] = "processed"
    BY <2>1, <2>2, OnlyPaidIsTakenBack
  <2>4. QED
    BY <2>3, ProcessedStays
<1> DEFINE Reads == carrier[h] # None /\ StatusOf(h) = "SUCCEEDED"
           Was   == Reads' => Reads \/ gateway[h] = "processed"
<1> USE AreRefunds DEF IInv, TypeOK, Places, Carriers, RowFacts, FreshRequests, PlaceholdersWait,
    HooksCarry, Answers, RequestSteps, RowStatuses, StatusOf, request, rows, cascade
<1>1. ASSUME NEW r \in Requests, Reserve(r) PROVE Was
  BY <1>1 DEF Reserve
<1>2. ASSUME NEW r \in Requests, Bind(r) PROVE Was
  <2>1. CASE carrier[r] = None
    <3>1. own[r] = "PENDING" /\ r \in Refunds /\ \A g \in Refunds : carrier[g] # r
      BY <1>2, <2>1 DEF Bind, Sent
    <3>2. carrier' = [carrier EXCEPT ![r] = r] /\ UNCHANGED <<own, hook>>
      BY <1>2, <2>1 DEF Bind, IdIsFree
    <3>3. QED
      BY <3>1, <3>2
  <2>2. CASE carrier[r] # None
    BY <1>2, <2>2 DEF Bind, IdIsFree
  <2>3. QED
    BY <2>1, <2>2
<1>3. ASSUME NEW r \in Requests, BindFailure(r) PROVE Was
  BY <1>3 DEF BindFailure, IdIsFree
<1>4. ASSUME NEW r \in Requests, Settle(r) PROVE Was
  <2>1. /\ r \in Refunds /\ carrier[r] # None /\ Put(r, "SUCCEEDED") /\ UNCHANGED carrier
        /\ gateway[r] = "processed"
    BY <1>4 DEF Settle, SettlesAreBound
  <2>2. /\ \A q \in Requests : own'[q] = IF q = carrier[r] THEN "SUCCEEDED" ELSE own[q]
        /\ \A k \in Refunds : hook'[k] = IF k = r /\ carrier[r] = Hook THEN "SUCCEEDED" ELSE hook[k]
    BY <2>1, PutMoves
  <2>3. QED
    BY <2>1, <2>2
<1>5. ASSUME NEW r \in Requests, MatchPlaceholder(r) PROVE Was
  <2>1. PICK g \in Refunds :
           \/ /\ carrier[g] = None /\ carrier' = [carrier EXCEPT ![g] = r]
              /\ own' = [own EXCEPT ![r] = RowStatus(gateway[g])]
           \/ /\ carrier[g] # None /\ UNCHANGED carrier
              /\ own' = [own EXCEPT ![r] = "none"]
    BY <1>5, Matched
  <2>2. UNCHANGED hook /\ \A k \in Refunds : carrier[k] # r
    BY <1>5, Matched
  <2>3. RowStatus(gateway[g]) = "SUCCEEDED" => gateway[g] = "processed"
    BY DEF RowStatus
  <2>4. QED
    BY <2>1, <2>2, <2>3
<1>6. ASSUME NEW r \in Requests, FailPlaceholder(r) PROVE Was
  <2>1. own' = [own EXCEPT ![r] = "FAILED"] /\ UNCHANGED <<hook, carrier>>
    BY <1>6 DEF FailPlaceholder
  <2>2. QED
    BY <2>1
<1>7. ASSUME NEW g \in Refunds, NEW s \in {"pending", "processed", "failed"}, WebhookKnown(g, s)
      PROVE  Was
  <2>1. /\ carrier[g] # None /\ Put(g, RowStatus(s)) /\ UNCHANGED carrier
        /\ RowStatus(s) \in RowStatuses
        /\ RowStatus(s) = "SUCCEEDED" => gateway[g] = "processed"
    BY <1>7 DEF WebhookKnown, RowStatus, Reports
  <2>2. /\ \A q \in Requests : own'[q] = IF q = carrier[g] THEN RowStatus(s) ELSE own[q]
        /\ \A k \in Refunds : hook'[k] = IF k = g /\ carrier[g] = Hook THEN RowStatus(s) ELSE hook[k]
    BY <2>1, PutMoves
  <2>3. QED
    BY <2>1, <2>2
<1>8. ASSUME NEW g \in Refunds, NEW s \in {"pending", "processed", "failed"}, WebhookUnknown(g, s)
      PROVE  Was
  <2>1. /\ hook' = [hook EXCEPT ![g] = RowStatus(s)] /\ carrier' = [carrier EXCEPT ![g] = Hook]
        /\ UNCHANGED own
        /\ RowStatus(s) = "SUCCEEDED" => gateway[g] = "processed"
    BY <1>8 DEF WebhookUnknown, RowStatus, Reports
  <2>2. QED
    BY <2>1
<1>9. ASSUME NEW g \in Refunds, PollRow(g) PROVE Was
  <2>1. /\ carrier[g] # None /\ Put(g, RowStatus(gateway[g])) /\ UNCHANGED carrier
        /\ RowStatus(gateway[g]) \in RowStatuses
        /\ RowStatus(gateway[g]) = "SUCCEEDED" => gateway[g] = "processed"
    BY <1>9 DEF PollRow, RowStatus
  <2>2. /\ \A q \in Requests : own'[q] = IF q = carrier[g] THEN RowStatus(gateway[g]) ELSE own[q]
        /\ \A k \in Refunds : hook'[k] = IF k = g /\ carrier[g] = Hook THEN RowStatus(gateway[g]) ELSE hook[k]
    BY <2>1, PutMoves
  <2>3. QED
    BY <2>1, <2>2
<1>10. ASSUME NEW r \in Requests,
              \/ \E a \in 1 .. Amount : Check(r, a)
              \/ RefuseToReserve(r) \/ Submit(r) \/ Refuse(r) \/ Crash(r)
       PROVE  Was
  BY <1>10 DEF Check, RefuseToReserve, Submit, Refuse, Crash
<1>11. ASSUME NEW g \in Refunds,
              Progress(g) \/ CascadeBackstop(g) \/ \E a \in 1 .. Amount : OperatorRefunds(g, a)
       PROVE  Was
  BY <1>11 DEF Progress, CascadeBackstop, OperatorRefunds
<1>12. ASSUME Dispute \/ ResolveDispute \/ UNCHANGED vars PROVE Was
  BY <1>12 DEF Dispute, ResolveDispute, vars
<1>13. ASSUME NEW r \in Requests PROVE ~ \E a \in 1 .. Amount : RefundInternally(r, a)
  BY DEF RefundInternally
<1>14. Was
  BY <1>1, <1>2, <1>3, <1>4, <1>5, <1>6, <1>7, <1>8, <1>9, <1>10, <1>11, <1>12, <1>13
  DEF Next, RequestStep, Webhook
<1>15. Reads => gateway[h] = "processed"
  BY DEF SettledIsProcessed
<1>16. QED
  BY <1>0, <1>14, <1>15, ProcessedStays

\* A reservation refuses while the dispute is open, and what is late came after it was lost.
LEMMA LateStaysLost ==
  ASSUME IInv, LateIsLost, [Next]_vars
  PROVE  LateIsLost'
<1> USE DEF LateIsLost, IInv, TypeOK
<1>1. ASSUME NEW r \in Requests, Reserve(r) PROVE LateIsLost'
  BY <1>1 DEF Reserve, StillFits, LiveDispute
<1>2. ASSUME Dispute \/ ResolveDispute PROVE LateIsLost'
  BY <1>2 DEF Dispute, ResolveDispute
<1>3. ASSUME NEW r \in Requests,
             \/ \E a \in 1 .. Amount : Check(r, a) \/ RefundInternally(r, a)
             \/ RefuseToReserve(r) \/ Submit(r) \/ Refuse(r) \/ Bind(r) \/ BindFailure(r)
             \/ Settle(r) \/ Crash(r) \/ MatchPlaceholder(r) \/ FailPlaceholder(r)
      PROVE  UNCHANGED <<late, dispute>>
  BY <1>3 DEF Check, RefundInternally, RefuseToReserve, Submit, Refuse, Bind, BindFailure,
    Settle, Crash, MatchPlaceholder, FailPlaceholder
<1>4. ASSUME NEW h \in Refunds,
             \/ Progress(h) \/ Webhook(h) \/ PollRow(h) \/ CascadeBackstop(h)
             \/ \E a \in 1 .. Amount : OperatorRefunds(h, a)
      PROVE  UNCHANGED <<late, dispute>>
  BY <1>4 DEF Progress, Webhook, WebhookKnown, WebhookUnknown, PollRow, CascadeBackstop,
    OperatorRefunds
<1>5. CASE UNCHANGED vars
  BY <1>5 DEF vars
<1>6. QED
  BY <1>1, <1>2, <1>3, <1>4, <1>5 DEF Next, RequestStep

----------------------------------------------------------------------------
\* The balance.
BookedRequests == {r \in Requests : Booked(r)}

LEMMA RefundsAreFinite == /\ IsFiniteSet(Requests) /\ IsFiniteSet(Refunds)
                          /\ \A S \in SUBSET Refunds : IsFiniteSet(S)
<1>1. IsFiniteSet(Requests) /\ IsFiniteSet(Dashboard)
  BY RefundEngineAssumption
<1>2. IsFiniteSet(Refunds)
  BY <1>1, FS_Union DEF Refunds
<1>3. QED
  BY <1>1, <1>2, FS_Subset

LEMMA AskedSums ==
  ASSUME TypeOK
  PROVE  /\ asked \in [Refunds -> Nat] /\ asked \in [Refunds -> Int]
         /\ \A S \in SUBSET Refunds : SumAsked(S) \in Nat
         /\ \A S \in SUBSET Refunds : \A T \in SUBSET S : SumAsked(T) <= SumAsked(S)
<1>1. asked \in [Refunds -> Nat] /\ asked \in [Refunds -> Int]
  BY RefundEngineAssumption DEF TypeOK
<1>2. ASSUME NEW S \in SUBSET Refunds PROVE SumAsked(S) \in Nat
  BY <1>1, RefundsAreFinite, SumIsNat DEF SumAsked
<1>3. ASSUME NEW S \in SUBSET Refunds, NEW T \in SUBSET S PROVE SumAsked(T) <= SumAsked(S)
  BY <1>1, RefundsAreFinite, SumIsMonotone DEF SumAsked
<1>4. QED
  BY <1>1, <1>2, <1>3

\* The balance a request reads covers all that requests have booked.
LEMMA SpokenCoversBooked ==
  ASSUME TypeOK
  PROVE  /\ SumAsked(BookedRequests) + ChargedBack <= Spoken
         /\ SumAsked({r \in Requests : Live(own[r])}) <= Spoken
         /\ ChargedBack \in Nat /\ Spoken \in Nat
<1> DEFINE S == {r \in Requests : Live(own[r])}
           T == {g \in Refunds : Live(hook[g])}
<1>1. S \in SUBSET Refunds /\ T \in SUBSET Refunds /\ S \cup T \in SUBSET Refunds
  BY AreRefunds
<1>2. BookedRequests \in SUBSET (S \cup T)
  BY AreRefunds DEF BookedRequests, Booked
<1>3. ChargedBack \in Nat
  BY RefundEngineAssumption DEF ChargedBack
<1>4. Spoken = SumAsked(S) + SumAsked(T) + ChargedBack
  BY DEF Spoken
<1> HIDE DEF S, T
<1>5. SumAsked(S) \in Nat /\ SumAsked(T) \in Nat /\ SumAsked(S \cup T) \in Nat
  BY <1>1, AskedSums
<1>6. SumAsked(BookedRequests) <= SumAsked(S \cup T) /\ SumAsked(BookedRequests) \in Nat
  BY <1>1, <1>2, AskedSums
<1>7. SumAsked(S \cup T) <= SumAsked(S) + SumAsked(T)
  BY <1>1, RefundsAreFinite, AskedSums, SumOfUnion DEF SumAsked
<1>8. SumAsked(BookedRequests) + ChargedBack <= Spoken /\ SumAsked(S) <= Spoken /\ Spoken \in Nat
  BY <1>3, <1>4, <1>5, <1>6, <1>7
<1>9. QED
  BY <1>3, <1>8 DEF S

\* A step that books nothing keeps the balance ...
LEMMA BookedShrinks ==
  ASSUME TypeOK, TypeOK', OneBalance,
         \A r \in Requests : Booked(r)' => Booked(r) /\ asked'[r] = asked[r],
         late' = late, ChargedBack' = ChargedBack \/ late = {}
  PROVE  OneBalance'
<1>1. BookedRequests' \in SUBSET BookedRequests /\ BookedRequests \in SUBSET Refunds
  BY AreRefunds DEF BookedRequests
<1>2. SumAsked(BookedRequests)' = SumAsked(BookedRequests')
  <2>1. \A r \in BookedRequests' : asked'[r] = asked[r]
    BY DEF BookedRequests
  <2>2. asked \in [Refunds -> Int] /\ asked' \in [Refunds -> Int]
    BY RefundEngineAssumption DEF TypeOK
  <2>3. BookedRequests' \in SUBSET Refunds /\ IsFiniteSet(BookedRequests')
    BY <1>1, RefundsAreFinite
  <2>4. SumFunctionOnSet(asked', BookedRequests') = SumFunctionOnSet(asked, BookedRequests')
    BY <2>1, <2>2, <2>3, SumsAgree
  <2>5. QED
    BY <2>4 DEF SumAsked
<1>3. SumAsked(BookedRequests') <= SumAsked(BookedRequests)
  BY <1>1, AskedSums
<1>4. SumAsked(BookedRequests') \in Nat /\ SumAsked(BookedRequests) \in Nat
  BY <1>1, AskedSums
<1>5. (\E r \in late' : Booked(r)') => ChargedBack' = ChargedBack /\ \E r \in late : Booked(r)
  BY DEF TypeOK
<1>6. ChargedBack \in Nat /\ ChargedBack' \in Nat /\ Amount \in Nat
  BY RefundEngineAssumption DEF ChargedBack
<1>7. SumAsked(BookedRequests) + (IF \E r \in late : Booked(r) THEN ChargedBack ELSE 0) <= Amount
  BY DEF OneBalance, BookedRequests
<1>8. SumAsked(BookedRequests)' + (IF \E r \in late' : Booked(r)' THEN ChargedBack' ELSE 0) <= Amount
  <2> DEFINE Before == \E r \in late : Booked(r)
             After  == \E r \in late' : Booked(r)'
  <2>1. After => Before /\ ChargedBack' = ChargedBack
    BY <1>5
  <2>2. SumAsked(BookedRequests) + (IF Before THEN ChargedBack ELSE 0) <= Amount
    BY <1>7
  <2> HIDE DEF Before, After
  <2>3. SumAsked(BookedRequests)' + (IF After THEN ChargedBack' ELSE 0) <= Amount
    BY <1>2, <1>3, <1>4, <1>6, <2>1, <2>2
  <2>4. QED
    BY <2>3 DEF After
<1>9. QED
  BY <1>8 DEF OneBalance, BookedRequests

\* ... and so does one that books what the balance leaves.
LEMMA BookedFits ==
  ASSUME TypeOK, TypeOK', NEW r \in Requests, ~ Booked(r), Spoken + asked'[r] <= Amount,
         \A q \in Requests \ {r} : (Booked(q)' => Booked(q)) /\ asked'[q] = asked[q],
         ChargedBack' = ChargedBack
  PROVE  OneBalance'
<1> DEFINE S == BookedRequests' \ {r}
<1>1. S \in SUBSET BookedRequests /\ BookedRequests \in SUBSET Refunds /\ BookedRequests' \in SUBSET (S \cup {r})
  BY AreRefunds DEF BookedRequests
<1>2. /\ asked \in [Refunds -> Int] /\ asked' \in [Refunds -> Int] /\ asked' \in [Refunds -> Nat]
      /\ \A q \in S : asked'[q] = asked[q]
  BY RefundEngineAssumption DEF TypeOK, BookedRequests
<1>3. r \in Refunds \ S /\ S \cup {r} \in SUBSET Refunds /\ S \in SUBSET Refunds
  BY <1>1, AreRefunds
<1> HIDE DEF S
<1>4. IsFiniteSet(S) /\ IsFiniteSet(S \cup {r})
  BY <1>3, RefundsAreFinite
<1>5. SumFunctionOnSet(asked', S) = SumFunctionOnSet(asked, S)
  BY <1>2, <1>3, <1>4, SumsAgree
<1>6. SumFunctionOnSet(asked', S \cup {r}) = SumFunctionOnSet(asked', S) + asked'[r]
  BY <1>2, <1>3, <1>4, SumAddsOne
<1>7. SumFunctionOnSet(asked', BookedRequests') <= SumFunctionOnSet(asked', S \cup {r})
  BY <1>1, <1>2, <1>3, <1>4, SumIsMonotone
<1>8. SumAsked(S) <= SumAsked(BookedRequests) /\ SumAsked(S) \in Nat /\ SumAsked(BookedRequests) \in Nat
  BY <1>1, <1>3, AskedSums
<1>9. SumFunctionOnSet(asked', BookedRequests') \in Nat
  BY <1>1, <1>2, <1>3, RefundsAreFinite, SumIsNat
<1>10. SumAsked(BookedRequests) + ChargedBack <= Spoken /\ ChargedBack \in Nat /\ Spoken \in Nat
  BY SpokenCoversBooked
<1>11. SumFunctionOnSet(asked', BookedRequests') + ChargedBack' <= Amount
  <2>1. asked'[r] \in Nat /\ Amount \in Nat
    BY <1>2, <1>3, RefundEngineAssumption
  <2>2. SumAsked(S) = SumFunctionOnSet(asked, S)
    BY DEF SumAsked
  <2>3. QED
    BY <1>5, <1>6, <1>7, <1>8, <1>9, <1>10, <2>1, <2>2
<1>12. SumFunctionOnSet(asked', BookedRequests') <= Amount
  BY <1>9, <1>10, <1>11, RefundEngineAssumption
<1>13. SumAsked(BookedRequests)' + (IF \E q \in late' : Booked(q)' THEN ChargedBack' ELSE 0) <= Amount
  <2> DEFINE After == \E q \in late' : Booked(q)'
  <2> HIDE DEF After
  <2>1. SumAsked(BookedRequests)' + (IF After THEN ChargedBack' ELSE 0) <= Amount
    BY <1>9, <1>11, <1>12 DEF SumAsked
  <2>2. QED
    BY <2>1 DEF After
<1>14. QED
  BY <1>13 DEF OneBalance, BookedRequests

\* A row that is written was live, or the write makes it neither pending nor paid.
LEMMA PutBooksNothing ==
  ASSUME IInv, HooksCarry, NEW g \in Refunds, carrier[g] # None, NEW s \in RowStatuses, Put(g, s),
         Live(s) => Live(StatusOf(g))
  PROVE  \A r \in Requests : Booked(r)' => Booked(r)
<1>1. /\ \A q \in Requests : own'[q] = IF q = carrier[g] THEN s ELSE own[q]
      /\ \A h \in Refunds : hook'[h] = IF h = g /\ carrier[g] = Hook THEN s ELSE hook[h]
  BY PutMoves DEF IInv
<1>2. carrier[g] = Hook \/ carrier[g] \in Requests
  BY DEF IInv, TypeOK
<1>3. SUFFICES ASSUME NEW r \in Requests, Booked(r)' PROVE Booked(r)
  OBVIOUS
<1>4. Live(own'[r]) => Live(own[r])
  BY <1>1, <1>2, AreRefunds DEF Live, StatusOf
<1>5. Live(hook'[r]) => Live(hook[r])
  BY <1>1, <1>2, AreRefunds DEF Live, StatusOf
<1>6. QED
  BY <1>3, <1>4, <1>5 DEF Booked

\* Requests race with one another, with the webhook and the jobs, and with the dispute: a
\* reservation reads the balance in the transaction that takes from it.
LEMMA BalanceIsKept ==
  ASSUME IInv, IInv', RowFacts, LateIsLost, OneBalance, [Next]_vars
  PROVE  OneBalance'
<1> DEFINE Quiet == /\ \A r \in Requests : Booked(r)' => Booked(r) /\ asked'[r] = asked[r]
                    /\ late' = late /\ (ChargedBack' = ChargedBack \/ late = {})
           NoMore == \A r \in Requests : Booked(r)' => Booked(r)
<1> USE AreRefunds DEF Live
<1>1. ASSUME Quiet PROVE OneBalance'
  BY <1>1, BookedShrinks DEF IInv
<1>2. ASSUME NoMore, UNCHANGED <<asked, late, dispute>> PROVE Quiet
  BY <1>2 DEF ChargedBack
<1>3. ASSUME NEW r \in Requests, pc[r] = "check" PROVE ~ Booked(r)
  BY <1>3 DEF IInv, Places, Carriers, RowFacts, FreshRequests, HooksCarry, Booked
<1>4. ASSUME NEW r \in Requests, NEW a \in 1 .. Amount, Check(r, a) PROVE Quiet
  <2>1. pc[r] = "check" /\ asked' = [asked EXCEPT ![r] = a] /\ UNCHANGED <<own, hook, late, dispute>>
    BY <1>4 DEF Check, rows
  <2>2. \A q \in Requests : Booked(q)' = Booked(q)
    BY <2>1 DEF Booked
  <2>3. ~ Booked(r)
    BY <2>1, <1>3
  <2>4. \A q \in Requests : q # r => asked'[q] = asked[q]
    BY <2>1 DEF IInv, TypeOK
  <2>5. ChargedBack' = ChargedBack
    BY <2>1 DEF ChargedBack
  <2>6. QED
    BY <2>1, <2>2, <2>3, <2>4, <2>5
<1>5. ASSUME NEW r \in Requests, NEW a \in 1 .. Amount, RefundInternally(r, a) PROVE OneBalance'
  <2>1. /\ pc[r] = "check" /\ Spoken + a <= Amount /\ asked' = [asked EXCEPT ![r] = a]
        /\ own' = [own EXCEPT ![r] = "SUCCEEDED"] /\ UNCHANGED <<hook, late, dispute>>
    BY <1>5 DEF RefundInternally
  <2>2. ~ Booked(r) /\ asked'[r] = a
    BY <1>3, <2>1 DEF IInv, TypeOK
  <2>3. \A q \in Requests \ {r} : (Booked(q)' => Booked(q)) /\ asked'[q] = asked[q]
    BY <2>1 DEF Booked, IInv, TypeOK
  <2>4. ChargedBack' = ChargedBack
    BY <2>1 DEF ChargedBack
  <2>5. QED
    BY <2>1, <2>2, <2>3, <2>4, BookedFits DEF IInv
<1>6. ASSUME NEW r \in Requests, Reserve(r) PROVE OneBalance'
  <2>1. /\ pc[r] = "reserve" /\ Spoken + asked[r] <= Amount /\ UNCHANGED asked
        /\ own' = [own EXCEPT ![r] = "PENDING"] /\ UNCHANGED <<hook, dispute>>
    BY <1>6 DEF Reserve, StillFits
  <2>2. ~ Booked(r)
    BY <2>1 DEF IInv, Places, Carriers, RowFacts, FreshRequests, HooksCarry, Booked
  <2>3. \A q \in Requests \ {r} : (Booked(q)' => Booked(q)) /\ asked'[q] = asked[q]
    BY <2>1 DEF Booked, IInv, TypeOK
  <2>4. ChargedBack' = ChargedBack
    BY <2>1 DEF ChargedBack
  <2>5. Spoken + asked'[r] <= Amount
    BY <2>1
  <2>6. QED
    BY <2>2, <2>3, <2>4, <2>5, BookedFits DEF IInv
<1>7. ASSUME NEW r \in Requests, Settle(r) PROVE Quiet
  <2>1. /\ r \in Refunds /\ carrier[r] # None /\ gateway[r] = "processed"
        /\ Put(r, "SUCCEEDED") /\ "SUCCEEDED" \in RowStatuses
    BY <1>7 DEF Settle, IInv, SettlesAreBound, RowFacts, Answers, RowStatuses
  <2>2. carrier[r] = Hook \/ carrier[r] = r
    BY <2>1 DEF IInv, TypeOK, Carriers
  <2>3. Live(StatusOf(r))
    BY <2>1, <2>2 DEF IInv, MoneyIsCarried, Sent, StatusOf
  <2>4. NoMore
    BY <2>1, <2>3, PutBooksNothing DEF RowFacts
  <2>5. QED
    BY <1>2, <1>7, <2>4 DEF Settle
<1>8. ASSUME NEW r \in Requests, Bind(r) \/ BindFailure(r) PROVE Quiet
  <2>1. NoMore
    BY <1>8 DEF Bind, BindFailure, Booked, IInv, TypeOK
  <2>2. QED
    BY <1>2, <1>8, <2>1 DEF Bind, BindFailure
<1>9. ASSUME NEW r \in Requests, MatchPlaceholder(r) PROVE Quiet
  <2>1. own[r] = "PENDING" /\ UNCHANGED <<request, hook, dispute, late>>
    BY <1>9, Matched
  <2>2. \E s : own' = [own EXCEPT ![r] = s]
    BY <1>9, Matched
  <2>3. NoMore
    BY <2>1, <2>2 DEF Booked, IInv, TypeOK
  <2>4. QED
    BY <1>2, <2>1, <2>3 DEF request
<1>10. ASSUME NEW r \in Requests, FailPlaceholder(r) PROVE Quiet
  <2>1. own' = [own EXCEPT ![r] = "FAILED"] /\ UNCHANGED <<asked, hook, dispute, late>>
    BY <1>10 DEF FailPlaceholder, request
  <2>2. NoMore
    BY <2>1 DEF Booked, IInv, TypeOK
  <2>3. QED
    BY <1>2, <2>1, <2>2
<1>11. ASSUME NEW r \in Requests, RefuseToReserve(r) \/ Submit(r) \/ Refuse(r) \/ Crash(r)
       PROVE  Quiet
  BY <1>2, <1>11 DEF RefuseToReserve, Submit, Refuse, Crash, rows, Booked
<1>12. ASSUME NEW g \in Refunds, NEW s \in {"pending", "processed", "failed"}, WebhookKnown(g, s)
       PROVE  Quiet
  <2>1. carrier[g] # None /\ StatusOf(g) = "PENDING" /\ Put(g, RowStatus(s)) /\ RowStatus(s) \in RowStatuses
    BY <1>12 DEF WebhookKnown, RowStatus, RowStatuses
  <2>2. NoMore
    BY <2>1, PutBooksNothing DEF RowFacts
  <2>3. QED
    BY <1>2, <1>12, <2>2 DEF WebhookKnown, request
<1>13. ASSUME NEW g \in Refunds, NEW s \in {"pending", "processed", "failed"}, WebhookUnknown(g, s)
       PROVE  Quiet
  <2>1. /\ carrier[g] = None /\ gateway[g] # "none" /\ UNCHANGED <<asked, own, late, dispute>>
        /\ hook' = [hook EXCEPT ![g] = RowStatus(s)]
    BY <1>13 DEF WebhookUnknown, IdIsFree, Reports, request
  <2>2. g \in Requests => Booked(g)
    BY <2>1 DEF RowFacts, PlaceholdersWait, Booked
  <2>3. \A r \in Requests \ {g} : Booked(r)' => Booked(r)
    BY <2>1 DEF Booked, IInv, TypeOK
  <2>4. QED
    BY <1>2, <2>1, <2>2, <2>3
<1>14. ASSUME NEW g \in Refunds, PollRow(g) PROVE Quiet
  <2>1. /\ carrier[g] # None /\ StatusOf(g) = "PENDING" /\ Put(g, RowStatus(gateway[g]))
        /\ RowStatus(gateway[g]) \in RowStatuses
    BY <1>14 DEF PollRow, RowStatus, RowStatuses
  <2>2. NoMore
    BY <2>1, PutBooksNothing DEF RowFacts
  <2>3. QED
    BY <1>2, <1>14, <2>2 DEF PollRow, request
<1>15. ASSUME NEW g \in Refunds, Progress(g) \/ CascadeBackstop(g) PROVE Quiet
  BY <1>2, <1>15 DEF Progress, CascadeBackstop, request, rows, Booked
<1>16. ASSUME NEW g \in Refunds, NEW a \in 1 .. Amount, OperatorRefunds(g, a) PROVE Quiet
  <2>1. g \notin Requests /\ asked' = [asked EXCEPT ![g] = a] /\ UNCHANGED <<own, hook, late, dispute>>
    BY <1>16 DEF OperatorRefunds, rows
  <2>2. \A q \in Requests : Booked(q)' = Booked(q) /\ asked'[q] = asked[q]
    BY <2>1 DEF Booked, IInv, TypeOK
  <2>3. QED
    BY <2>1, <2>2 DEF ChargedBack
<1>17. ASSUME Dispute \/ ResolveDispute PROVE Quiet
  <2>1. dispute # "lost" /\ UNCHANGED <<asked, own, hook, late>>
    BY <1>17 DEF Dispute, ResolveDispute, request, rows
  <2>2. late = {}
    BY <2>1 DEF LateIsLost
  <2>3. QED
    BY <2>1, <2>2 DEF Booked
<1>18. ASSUME UNCHANGED vars PROVE Quiet
  BY <1>2, <1>18 DEF vars, request, rows, Booked
<1>19. QED
  <2> HIDE DEF Quiet
  <2>1. Quiet \/ OneBalance'
    BY <1>4, <1>5, <1>6, <1>7, <1>8, <1>9, <1>10, <1>11, <1>12, <1>13, <1>14, <1>15,
       <1>16, <1>17, <1>18
    DEF Next, RequestStep, Webhook
  <2>2. QED
    BY <2>1, <1>1

----------------------------------------------------------------------------
\* What was taken back.  The amount of a refund is final once it is at the gateway or was
\* taken back.
LEMMA AskedIsKept ==
  ASSUME IInv, RowFacts, InternalIsApart, SettledIsProcessed, [Next]_vars,
         NEW g \in Refunds, gateway[g] # "none" \/ times[g] # 0
  PROVE  asked'[g] = asked[g]
<1> USE DEF IInv, TypeOK
<1>1. ASSUME NEW r \in Requests, NEW a \in 1 .. Amount, Check(r, a) PROVE asked'[g] = asked[g]
  <2>1. asked' = [asked EXCEPT ![r] = a] /\ gateway[r] = "none" /\ rail = "gateway"
    BY <1>1 DEF Check, Places
  <2>2. times[g] # 0 => gateway[g] = "processed"
    BY <2>1 DEF SettledIsProcessed
  <2>3. QED
    BY <2>1, <2>2
<1>2. ASSUME NEW r \in Requests, NEW a \in 1 .. Amount, RefundInternally(r, a)
      PROVE  asked'[g] = asked[g]
  <2>1. /\ asked' = [asked EXCEPT ![r] = a] /\ gateway[r] = "none" /\ rail = "internal"
        /\ own[r] = "none"
    BY <1>2 DEF RefundInternally, Places, RowFacts, FreshRequests
  <2>2. times[r] = 0
    BY <2>1, AreRefunds DEF InternalIsApart
  <2>3. QED
    BY <2>1, <2>2
<1>3. ASSUME NEW h \in Refunds, NEW a \in 1 .. Amount, OperatorRefunds(h, a)
      PROVE  asked'[g] = asked[g]
  <2>1. asked' = [asked EXCEPT ![h] = a] /\ gateway[h] = "none" /\ rail = "gateway"
    BY <1>3 DEF OperatorRefunds
  <2>2. times[g] # 0 => gateway[g] = "processed"
    BY <2>1 DEF SettledIsProcessed
  <2>3. QED
    BY <2>1, <2>2
<1>4. ASSUME NEW r \in Requests,
             \/ Reserve(r) \/ RefuseToReserve(r) \/ Submit(r) \/ Refuse(r) \/ Bind(r)
             \/ BindFailure(r) \/ Settle(r) \/ Crash(r) \/ MatchPlaceholder(r) \/ FailPlaceholder(r)
      PROVE  UNCHANGED asked
  BY <1>4 DEF Reserve, RefuseToReserve, Submit, Refuse, Bind, BindFailure, Settle, Crash,
    MatchPlaceholder, FailPlaceholder, request
<1>5. ASSUME NEW h \in Refunds, Progress(h) \/ Webhook(h) \/ PollRow(h) \/ CascadeBackstop(h)
      PROVE  UNCHANGED asked
  BY <1>5 DEF Progress, Webhook, WebhookKnown, WebhookUnknown, PollRow, CascadeBackstop, request
<1>6. ASSUME Dispute \/ ResolveDispute \/ UNCHANGED vars PROVE UNCHANGED asked
  BY <1>6 DEF Dispute, ResolveDispute, vars, request
<1>7. QED
  BY <1>1, <1>2, <1>3, <1>4, <1>5, <1>6 DEF Next, RequestStep

\* The gateway checks each refund against those it has.
LEMMA SentStaysFit ==
  ASSUME IInv, IInv', RowFacts, InternalIsApart, SettledIsProcessed, SentFits, [Next]_vars
  PROVE  SentFits'
<1> USE AreRefunds DEF Sent
<1>1. /\ asked \in [Refunds -> Int] /\ asked' \in [Refunds -> Int] /\ asked' \in [Refunds -> Nat]
      /\ SentRefunds \in SUBSET Refunds /\ SentRefunds' \in SUBSET Refunds
  BY RefundEngineAssumption DEF IInv, TypeOK, SentRefunds
<1>2. \A g \in SentRefunds : asked'[g] = asked[g]
  BY AskedIsKept DEF SentRefunds
<1>3. /\ SumFunctionOnSet(asked', SentRefunds) = SumFunctionOnSet(asked, SentRefunds)
      /\ SumFunctionOnSet(asked', SentRefunds) \in Nat
  BY <1>1, <1>2, RefundsAreFinite, SumsAgree, SumIsNat
<1>4. ASSUME SentRefunds' \in SUBSET SentRefunds PROVE SentFits'
  <2>1. SumFunctionOnSet(asked', SentRefunds') <= SumFunctionOnSet(asked', SentRefunds)
    BY <1>1, <1>4, RefundsAreFinite, SumIsMonotone
  <2>2. SumFunctionOnSet(asked', SentRefunds') \in Nat
    BY <1>1, RefundsAreFinite, SumIsNat
  <2>3. QED
    BY <1>3, <2>1, <2>2, RefundEngineAssumption DEF SentFits, SumAsked
<1>5. ASSUME NEW g \in Refunds \ SentRefunds, SentRefunds' \in SUBSET (SentRefunds \cup {g}),
             Fits(asked'[g])
      PROVE  SentFits'
  <2>1. SumFunctionOnSet(asked', SentRefunds \cup {g}) = SumFunctionOnSet(asked', SentRefunds) + asked'[g]
    BY <1>1, RefundsAreFinite, SumAddsOne
  <2>2. SentRefunds \cup {g} \in SUBSET Refunds
    BY <1>1
  <2>3. SumFunctionOnSet(asked', SentRefunds') <= SumFunctionOnSet(asked', SentRefunds \cup {g})
    BY <1>1, <1>5, <2>2, RefundsAreFinite, SumIsMonotone
  <2>4. SumFunctionOnSet(asked', SentRefunds') \in Nat /\ asked'[g] \in Nat
    BY <1>1, RefundsAreFinite, SumIsNat
  <2>5. SumFunctionOnSet(asked, SentRefunds) + asked'[g] <= Amount
    BY <1>5 DEF Fits, SumAsked, SentRefunds
  <2>6. QED
    BY <1>3, <2>1, <2>3, <2>4, <2>5, RefundEngineAssumption DEF SentFits, SumAsked
<1> USE DEF IInv, TypeOK
<1>6. ASSUME NEW r \in Requests, Submit(r) PROVE SentFits'
  <2>1. PICK s \in {"pending", "processed", "failed"} :
           (s \in Sent => Fits(asked[r])) /\ gateway' = [gateway EXCEPT ![r] = s]
    BY <1>6 DEF Submit
  <2>2. gateway[r] = "none" /\ UNCHANGED asked
    BY <1>6 DEF Submit, Places
  <2>3. r \in Refunds \ SentRefunds /\ SentRefunds' \in SUBSET (SentRefunds \cup {r})
    BY <2>1, <2>2 DEF SentRefunds
  <2>4. CASE s \in Sent
    BY <2>1, <2>2, <2>3, <2>4, <1>5
  <2>5. CASE s \notin Sent
    <3>1. SentRefunds' \in SUBSET SentRefunds
      BY <2>1, <2>5 DEF SentRefunds
    <3>2. QED
      BY <3>1, <1>4
  <2>6. QED
    BY <2>4, <2>5
<1>7. ASSUME NEW g \in Refunds, Progress(g) PROVE SentFits'
  <2>1. SentRefunds' \in SUBSET SentRefunds
    BY <1>7 DEF Progress, SentRefunds
  <2>2. QED
    BY <2>1, <1>4
<1>8. ASSUME NEW g \in Refunds, NEW a \in 1 .. Amount, OperatorRefunds(g, a) PROVE SentFits'
  <2>1. /\ gateway[g] = "none" /\ Fits(a) /\ asked' = [asked EXCEPT ![g] = a]
        /\ gateway' = [gateway EXCEPT ![g] = "pending"]
    BY <1>8 DEF OperatorRefunds
  <2>2. g \in Refunds \ SentRefunds /\ SentRefunds' \in SUBSET (SentRefunds \cup {g}) /\ asked'[g] = a
    BY <2>1 DEF SentRefunds
  <2>3. QED
    BY <2>1, <2>2, <1>5
<1>9. ASSUME UNCHANGED gateway PROVE SentFits'
  BY <1>4, <1>9 DEF SentRefunds
<1>10. ASSUME NEW r \in Requests,
              \/ \E a \in 1 .. Amount : Check(r, a) \/ RefundInternally(r, a)
              \/ Reserve(r) \/ RefuseToReserve(r) \/ Refuse(r) \/ Bind(r) \/ BindFailure(r)
              \/ Settle(r) \/ Crash(r) \/ MatchPlaceholder(r) \/ FailPlaceholder(r)
       PROVE  UNCHANGED gateway
  BY <1>10 DEF Check, RefundInternally, Reserve, RefuseToReserve, Refuse, Bind, BindFailure,
    Settle, Crash, MatchPlaceholder, FailPlaceholder
<1>11. ASSUME NEW g \in Refunds, Webhook(g) \/ PollRow(g) \/ CascadeBackstop(g)
       PROVE  UNCHANGED gateway
  BY <1>11 DEF Webhook, WebhookKnown, WebhookUnknown, PollRow, CascadeBackstop
<1>12. ASSUME Dispute \/ ResolveDispute \/ UNCHANGED vars PROVE UNCHANGED gateway
  BY <1>12 DEF Dispute, ResolveDispute, vars
<1>13. QED
  BY <1>6, <1>7, <1>8, <1>9, <1>10, <1>11, <1>12 DEF Next, RequestStep

----------------------------------------------------------------------------
\* Rounding.
LEMMA ProportionRoundsDown ==
  ASSUME NEW n \in Nat, NEW a \in Nat
  PROVE  /\ Proportion(n, a) \in Nat
         /\ Amount * Proportion(n, a) <= n * a
         /\ n * a < Amount * Proportion(n, a) + Amount
<1>1. n * a \in Nat /\ Amount \in Nat /\ Amount > 0
  BY LegsAreFinite
<1>2. \A m \in Nat : m \div Amount \in Nat /\ Amount * (m \div Amount) <= m
                     /\ m < Amount * (m \div Amount) + Amount
  BY <1>1
<1>3. QED
  BY <1>1, <1>2 DEF Proportion

LEMMA AmountCancels ==
  ASSUME NEW m \in Nat, NEW n \in Nat, Amount * m <= Amount * n
  PROVE  m <= n
<1>1. Amount \in Nat /\ Amount > 0
  BY LegsAreFinite
<1>2. SUFFICES ASSUME m > n PROVE FALSE
  OBVIOUS
<1>3. m - n \in Nat /\ m - n >= 1 /\ m = n + (m - n)
  BY <1>2
<1>4. Amount * m = Amount * n + Amount * (m - n)
  BY <1>1, <1>3, Distributes
<1>5. Amount * (m - n) >= Amount
  BY <1>1, <1>3
<1>6. Amount * n \in Int /\ Amount * (m - n) \in Int
  BY <1>1, <1>3
<1>7. QED
  BY <1>1, <1>4, <1>5, <1>6

\* The legs give back, each its own part and none less than nothing, just what was asked.
LEMMA ReversalIsWhole ==
  ASSUME NEW a \in Nat
  PROVE  /\ \A i \in DOMAIN Legs : Reversal(a)[i] >= 0
         /\ Reversal(a) \in [DOMAIN Legs -> Int]
         /\ SumFunctionOnSet(Reversal(a), DOMAIN Legs) = a
<1> DEFINE D    == DOMAIN Legs
           last == Len(Legs)
           Rest == D \ {last}
           P    == Parts(a)
           R    == Reversal(a)
           p    == SumFunctionOnSet(P, Rest)
<1>1. /\ last \in D /\ IsFiniteSet(D) /\ IsFiniteSet(Rest) /\ Rest \in SUBSET D
      /\ Legs \in [D -> Nat] /\ Amount \in Nat /\ Amount > 0
  BY LegsAreFinite
<1>2. P \in [D -> Nat] /\ P \in [D -> Int] /\ R \in [D -> Int]
  BY ReversalTypes
<1>3. R = [P EXCEPT ![last] = a - p]
  BY DEF Reversal
<1>4. \A i \in D : Amount * P[i] <= a * Legs[i]
  <2>1. \A i \in D : P[i] = Proportion(Legs[i], a) /\ Legs[i] \in Nat
    BY <1>1 DEF Parts
  <2>2. \A i \in D : Amount * P[i] <= Legs[i] * a
    BY <2>1, ProportionRoundsDown
  <2>3. QED
    BY <2>1, <2>2
<1>5. SumFunctionOnSet(Legs, Rest) <= Amount
  BY RefundEngineAssumption
<1> HIDE DEF D, last, Rest, P, R, p
<1>6. p \in Nat /\ SumFunctionOnSet(Legs, Rest) \in Nat
  BY <1>1, <1>2, SumIsNat DEF p
<1>7. p <= a
  <2>1. Amount * p <= a * SumFunctionOnSet(Legs, Rest)
    BY <1>1, <1>2, <1>4, SumScales DEF p
  <2>2. a * SumFunctionOnSet(Legs, Rest) <= a * Amount
    BY <1>1, <1>5, <1>6
  <2>3. a * Amount = Amount * a
    BY <1>1
  <2>4. Amount * p <= Amount * a
    BY <1>1, <1>6, <2>1, <2>2, <2>3
  <2>5. QED
    BY <1>6, <2>4, AmountCancels
<1>8. R[last] = a - p /\ \A i \in Rest : R[i] = P[i]
  BY <1>1, <1>2, <1>3 DEF Rest
<1>9. \A i \in D : R[i] >= 0
  <2>1. \A i \in Rest : R[i] \in Nat
    BY <1>1, <1>2, <1>8
  <2>2. D = Rest \cup {last}
    BY <1>1 DEF Rest
  <2>3. QED
    BY <1>6, <1>7, <1>8, <2>1, <2>2
<1>10. SumFunctionOnSet(R, D) = a
  <2>1. SumFunctionOnSet(R, D) = R[last] + SumFunctionOnSet(R, Rest)
    BY <1>1, <1>2, SumTakesOut DEF Rest
  <2>2. SumFunctionOnSet(R, Rest) = p
    BY <1>1, <1>2, <1>8, SumsAgree DEF p
  <2>3. QED
    BY <1>6, <1>8, <2>1, <2>2
<1>11. QED
  BY <1>2, <1>9, <1>10 DEF D, R

LEMMA LegsGiveBackAll ==
  ASSUME TypeOK, NEW g \in Refunds, NEW a \in 0 .. Amount, TakeBack(g, a)
  PROVE  SumFunction(back)' = SumFunction(back) + a
<1> DEFINE D == DOMAIN Legs
           R == Reversal(a)
<1>0. a \in Nat
  BY RefundEngineAssumption
<1>1. (\A i \in D : R[i] >= 0) /\ R \in [D -> Int] /\ SumFunctionOnSet(R, D) = a
  BY <1>0, ReversalIsWhole
<1>2. back \in [D -> Int] /\ back' \in [D -> Int]
  BY TakeBackTypes DEF TypeOK
<1>3. \A i \in D : back'[i] = back[i] + R[i]
  <2>1. \A i \in D : back'[i] = back[i] + (IF R[i] > 0 THEN R[i] ELSE 0)
    BY DEF TakeBack
  <2>2. \A i \in D : back[i] \in Int /\ R[i] \in Int
    BY <1>1, <1>2
  <2>3. QED
    BY <1>1, <2>1, <2>2
<1>4. IsFiniteSet(D)
  BY LegsAreFinite
<1>5. DOMAIN back = D /\ DOMAIN back' = D
  BY <1>2
<1> HIDE DEF D, R
<1>6. SumFunctionOnSet(back', D) = SumFunctionOnSet(back, D) + SumFunctionOnSet(R, D)
  BY <1>1, <1>2, <1>3, <1>4, SumOfSums
<1>7. QED
  BY <1>1, <1>5, <1>6 DEF SumFunction

\* Another refund is taken back: less than a paisa more is lost, and the cap takes nothing.
LEMMA RoundingGrows ==
  ASSUME TypeOK, TypeOK', Rounding, NEW g \in Refunds \ Cascaded,
         TakeBack(g, asked'[g]), dispute' = dispute,
         \A h \in Cascaded : asked'[h] = asked[h], SumAsked(Cascaded) + asked'[g] <= Amount
  PROVE  Rounding'
<1> DEFINE a == asked'[g]
           p == Proportion(Share, a)
           S == SumAsked(Cascaded)
           c == Cardinality(Cascaded)
<1>1. /\ asked \in [Refunds -> Int] /\ asked' \in [Refunds -> Int]
      /\ Cascaded \in SUBSET Refunds /\ IsFiniteSet(Cascaded)
      /\ a \in 0 .. Amount /\ a \in Nat /\ Amount \in Nat /\ Amount > 0 /\ Share \in Nat
  BY RefundsAreFinite, RefundEngineAssumption DEF TypeOK, Cascaded
<1>2. Cascaded' = Cascaded \cup {g}
  <2>1. \A h \in Refunds : times[h] \in Nat /\ times'[h] = IF h = g THEN times[g] + 1 ELSE times[h]
    BY DEF TakeBack, TypeOK
  <2>2. \A h \in Refunds : times'[h] > 0 <=> times[h] > 0 \/ h = g
    BY <2>1
  <2>3. QED
    BY <2>2 DEF Cascaded
<1>3. SumAsked(Cascaded)' = S + a /\ S \in Nat
  <2>1. SumFunctionOnSet(asked', Cascaded \cup {g}) = SumFunctionOnSet(asked', Cascaded) + asked'[g]
    BY <1>1, SumAddsOne
  <2>2. SumFunctionOnSet(asked', Cascaded) = SumFunctionOnSet(asked, Cascaded)
    BY <1>1, SumsAgree
  <2>3. S \in Nat
    BY <1>1, AskedSums
  <2>4. QED
    BY <1>2, <2>1, <2>2, <2>3 DEF SumAsked
<1>4. Cardinality(Cascaded') = c + 1 /\ c \in Nat /\ Cascaded' # {}
  BY <1>1, <1>2, FS_AddElement, FS_CardinalityType
<1>5. SumFunction(back)' = SumAsked(Cascaded)'
  <2>1. SumFunction(back) = S
    BY DEF Rounding, RoundingIsBounded
  <2>2. SumFunction(back)' = SumFunction(back) + a
    BY <1>1, LegsGiveBackAll
  <2>3. QED
    BY <1>3, <2>1, <2>2
<1>6. ASSUME dispute # "lost"
      PROVE  /\ taken' * Amount <= Share * (S + a)
             /\ Share * (S + a) < taken' * Amount + Amount * (c + 1)
  <2>1. taken \in Nat /\ taken' = Cap(taken + p)
    BY DEF TakeBack, TypeOK
  <2>2. p \in Nat /\ Amount * p <= Share * a /\ Share * a < Amount * p + Amount
    BY <1>1, ProportionRoundsDown
  <2>3. /\ taken * Amount <= Share * S
        /\ Share * S < taken * Amount + Amount * c + (IF Cascaded = {} THEN 1 ELSE 0)
    BY <1>6 DEF Rounding, RoundingIsBounded
  <2> HIDE DEF a, p, S, c
  <2>4. /\ Share * (S + a) = Share * S + Share * a
        /\ Amount * (taken + p) = Amount * taken + Amount * p
        /\ Amount * (c + 1) = Amount * c + Amount * 1
    BY <1>1, <1>3, <1>4, <2>1, <2>2, Distributes
  <2>5. taken * Amount = Amount * taken /\ Amount * 1 = Amount
    BY <1>1, <2>1
  <2>6. /\ Share * S \in Int /\ Share * a \in Int /\ Amount * taken \in Int
        /\ Amount * p \in Int /\ Amount * c \in Int
    BY <1>1, <1>3, <1>4, <2>1, <2>2
  <2>7. Amount * (taken + p) <= Share * (S + a)
    BY <2>2, <2>3, <2>4, <2>5, <2>6
  <2>8. Share * (S + a) <= Share * Amount
    <3>1. S + a <= Amount
      BY DEF S, a
    <3>2. QED
      BY <1>1, <1>3, <3>1
  <2>9. Share * Amount = Amount * Share
    BY <1>1
  <2>10. taken + p <= Share
    <3>1. Amount * (taken + p) <= Amount * Share
      BY <1>1, <1>3, <2>1, <2>2, <2>7, <2>8, <2>9
    <3>2. QED
      BY <1>1, <2>1, <2>2, <3>1, AmountCancels
  <2>11. taken' = taken + p
    BY <1>1, <2>1, <2>2, <2>10 DEF Cap
  <2>12. taken' * Amount = Amount * (taken + p)
    BY <1>1, <2>1, <2>2, <2>11
  <2>13. Share * (S + a) < Amount * (taken + p) + Amount * (c + 1)
    <3>1. (IF Cascaded = {} THEN 1 ELSE 0) <= 1 /\ (IF Cascaded = {} THEN 1 ELSE 0) \in Int
      OBVIOUS
    <3>2. Share * S < taken * Amount + Amount * c + 1
      BY <2>3, <2>5, <2>6, <3>1
    <3>3. QED
      BY <1>1, <2>2, <2>4, <2>5, <2>6, <3>2
  <2>14. QED
    BY <2>7, <2>12, <2>13
<1>7. RefundedFits'
  BY <1>3 DEF RefundedFits
<1>8. EarlierLegsInProportion'
  <2> SUFFICES ASSUME NEW i \in EarlierLegs
               PROVE  Amount * back'[i] <= Legs[i] * SumAsked(Cascaded)'
    BY DEF EarlierLegsInProportion
  <2>1. i \in DOMAIN Legs /\ i # Len(Legs) /\ Legs[i] \in Nat
    BY LegsAreFinite DEF EarlierLegs
  <2> DEFINE q == Proportion(Legs[i], a)
  <2>2. q \in Nat /\ Amount * q <= Legs[i] * a
    BY <1>1, <2>1, ProportionRoundsDown
  <2>3. back[i] \in Nat /\ back'[i] = back[i] + q
    <3>1. back[i] \in Nat
      BY <2>1 DEF TypeOK
    <3>2. back'[i] = back[i] + (IF Reversal(a)[i] > 0 THEN Reversal(a)[i] ELSE 0)
      BY <2>1 DEF TakeBack
    <3>3. Reversal(a)[i] = q
      BY <1>1, <2>1, ReversalTypes DEF Reversal, Parts
    <3> HIDE DEF q, a
    <3>4. QED
      BY <2>2, <3>1, <3>2, <3>3
  <2>4. Amount * back[i] <= Legs[i] * S
    BY DEF Rounding, EarlierLegsInProportion
  <2> HIDE DEF q, a, S
  <2>5. /\ Amount * (back[i] + q) = Amount * back[i] + Amount * q
        /\ Legs[i] * (S + a) = Legs[i] * S + Legs[i] * a
    BY <1>1, <1>3, <2>1, <2>2, <2>3, Distributes
  <2>6. Amount * back[i] \in Int /\ Amount * q \in Int /\ Legs[i] * S \in Int /\ Legs[i] * a \in Int
    BY <1>1, <1>3, <2>1, <2>2, <2>3
  <2>7. Amount * (back[i] + q) <= Legs[i] * (S + a)
    BY <2>2, <2>4, <2>5, <2>6
  <2>8. QED
    BY <1>3, <2>3, <2>7
<1>9. RoundingIsBounded'
  <2>1. dispute' # "lost" =>
          /\ taken' * Amount <= Share * SumAsked(Cascaded)'
          /\ Share * SumAsked(Cascaded)' < taken' * Amount + Amount * Cardinality(Cascaded')
    BY <1>3, <1>4, <1>6
  <2>2. taken' * Amount + Amount * Cardinality(Cascaded') \in Int
    BY <1>1, <1>4 DEF TypeOK
  <2>3. (IF Cascaded' = {} THEN 1 ELSE 0) = 0
    BY <1>4
  <2>4. QED
    BY <1>5, <2>1, <2>2, <2>3 DEF RoundingIsBounded
<1>10. QED
  BY <1>7, <1>8, <1>9 DEF Rounding

\* Nothing more is taken back: what was lost and what was refunded stay as they were.
LEMMA RoundingStays ==
  ASSUME TypeOK, TypeOK', Rounding, UNCHANGED <<times, back>>,
         \A h \in Cascaded : asked'[h] = asked[h],
         dispute' # "lost" => dispute # "lost" /\ taken' = taken
  PROVE  Rounding'
<1>1. Cascaded' = Cascaded
  BY DEF Cascaded
<1>2. /\ asked \in [Refunds -> Int] /\ asked' \in [Refunds -> Int]
      /\ Cascaded \in SUBSET Refunds /\ IsFiniteSet(Cascaded)
  BY RefundsAreFinite, RefundEngineAssumption DEF TypeOK, Cascaded
<1>3. SumAsked(Cascaded)' = SumAsked(Cascaded)
  <2>1. SumFunctionOnSet(asked', Cascaded) = SumFunctionOnSet(asked, Cascaded)
    BY <1>2, SumsAgree
  <2>2. QED
    BY <1>1, <2>1 DEF SumAsked
<1>4. SumFunction(back)' = SumFunction(back)
  OBVIOUS
<1>5. QED
  BY <1>1, <1>3, <1>4 DEF Rounding, RoundingIsBounded, RefundedFits, EarlierLegsInProportion

\* A refund is taken back within the payment: the gateway, or the balance that the
\* organisation's refund reads in its own transaction, has all the others.
LEMMA RoundingIsKept ==
  ASSUME IInv, IInv', RowFacts, InternalIsApart, SettledIsProcessed, SettledIsProcessed',
         SentFits, Rounding, [Next]_vars
  PROVE  Rounding'
<1> USE DEF IInv
<1>1. \A h \in Cascaded : asked'[h] = asked[h]
  BY AskedIsKept DEF Cascaded, TypeOK
<1>2. /\ asked \in [Refunds -> Int] /\ asked \in [Refunds -> Nat]
      /\ Cascaded \in SUBSET Refunds /\ IsFiniteSet(Cascaded)
  BY RefundsAreFinite, AskedSums DEF Cascaded
<1>3. CASE rail = "gateway"
  <2>1. ASSUME NEW g \in Refunds, times[g] = 0, gateway[g] = "processed",
               TakeBack(g, asked[g]), UNCHANGED <<asked, gateway, dispute>>
        PROVE  Rounding'
    <3>1. g \in Refunds \ Cascaded /\ asked'[g] = asked[g] /\ dispute' = dispute
      BY <2>1 DEF Cascaded
    <3>2. Cascaded \cup {g} \in SUBSET SentRefunds /\ SentRefunds \in SUBSET Refunds
      BY <1>3, <2>1 DEF Cascaded, SettledIsProcessed, SentRefunds, Sent, TypeOK
    <3>3. SumAsked(Cascaded \cup {g}) = SumAsked(Cascaded) + asked[g]
      BY <1>2, <3>1, SumAddsOne DEF SumAsked
    <3>4. SumAsked(Cascaded \cup {g}) <= SumAsked(SentRefunds)
      BY <3>2, AskedSums
    <3>5. SumAsked(SentRefunds) <= Amount /\ SumAsked(SentRefunds) \in Nat
      BY <3>2, AskedSums DEF SentFits
    <3>6. SumAsked(Cascaded) \in Nat /\ asked[g] \in Nat /\ Amount \in Nat
      BY <1>2, <3>1, AskedSums, RefundEngineAssumption
    <3>7. SumAsked(Cascaded) + asked'[g] <= Amount
      BY <3>1, <3>3, <3>4, <3>5, <3>6
    <3>8. TakeBack(g, asked'[g])
      BY <2>1, <3>1
    <3>9. QED
      BY <1>1, <3>1, <3>7, <3>8, RoundingGrows
  <2>2. ASSUME UNCHANGED <<times, back>>,
               UNCHANGED <<taken, dispute>> \/ Dispute \/ ResolveDispute
        PROVE  Rounding'
    <3>1. dispute' # "lost" => dispute # "lost" /\ taken' = taken
      BY <2>2 DEF Dispute, ResolveDispute, cascade
    <3>2. QED
      BY <1>1, <2>2, <3>1, RoundingStays
  <2>3. QED
    BY <1>3, <2>1, <2>2, OnlyPaidIsTakenBack
<1>4. CASE rail = "internal"
  <2>1. ASSUME NEW r \in Requests, NEW a \in 1 .. Amount, RefundInternally(r, a)
        PROVE  Rounding'
    <3>1. /\ own[r] = "none" /\ Spoken + a <= Amount /\ asked' = [asked EXCEPT ![r] = a]
          /\ TakeBack(r, a) /\ dispute' = dispute /\ r \in Refunds
      BY <2>1, AreRefunds DEF RefundInternally, RowFacts, FreshRequests
    <3>2. asked'[r] = a /\ a \in Nat
      BY <3>1, RefundEngineAssumption DEF TypeOK
    <3>3. r \in Refunds \ Cascaded
      BY <1>4, <3>1 DEF Cascaded, InternalIsApart
    <3>4. /\ Cascaded \in SUBSET {q \in Requests : Live(own[q])}
          /\ {q \in Requests : Live(own[q])} \in SUBSET Refunds
      BY <1>4, AreRefunds DEF Cascaded, InternalIsApart, Live, TypeOK
    <3>5. SumAsked(Cascaded) <= SumAsked({q \in Requests : Live(own[q])})
      BY <3>4, AskedSums
    <3>6. SumAsked({q \in Requests : Live(own[q])}) <= Spoken /\ Spoken \in Nat
      BY SpokenCoversBooked
    <3>7. SumAsked(Cascaded) \in Nat /\ SumAsked({q \in Requests : Live(own[q])}) \in Nat
      BY <1>2, <3>4, AskedSums
    <3>8. SumAsked(Cascaded) + asked'[r] <= Amount
      BY <3>1, <3>2, <3>5, <3>6, <3>7, RefundEngineAssumption
    <3>9. TakeBack(r, asked'[r])
      BY <3>1, <3>2
    <3>10. QED
      BY <1>1, <3>1, <3>3, <3>8, <3>9, RoundingGrows
  <2>2. CASE UNCHANGED vars
    <3>1. UNCHANGED <<times, back, taken, dispute>>
      BY <2>2 DEF vars, cascade
    <3>2. QED
      BY <1>1, <3>1, RoundingStays
  <2>3. QED
    BY <1>4, <2>1, <2>2, InternalSteps
<1>5. QED
  BY <1>3, <1>4 DEF TypeOK

----------------------------------------------------------------------------
\* The whole invariant.
Balanced ==
    /\ RowFacts
    /\ LateIsLost
    /\ InternalIsApart
    /\ SettledIsProcessed
    /\ SentFits
    /\ OneBalance
    /\ Rounding

LEMMA BalancedStart == Init => Balanced
<1> SUFFICES ASSUME Init PROVE Balanced
  OBVIOUS
<1>1. TypeOK
  BY InvariantStart DEF IInv
<1> USE AreRefunds DEF Init
<1>2. RowFacts
  BY DEF RowFacts, FreshRequests, PlaceholdersWait, HooksCarry, Answers
<1>3. LateIsLost /\ InternalIsApart /\ SettledIsProcessed
  BY DEF LateIsLost, InternalIsApart, SettledIsProcessed
<1>4. SentRefunds = {} /\ {r \in Requests : Booked(r)} = {} /\ Cascaded = {}
  BY DEF SentRefunds, Sent, Booked, Live, Cascaded
<1>5. SumAsked({}) = 0
  BY SumOfNone DEF SumAsked
<1>6. SentFits
  BY <1>4, <1>5, LegsAreFinite DEF SentFits
<1>7. OneBalance
  <2>1. ~ \E r \in late : Booked(r)
    OBVIOUS
  <2>2. SumAsked({r \in Requests : Booked(r)}) = 0 /\ Amount \in Nat
    BY <1>4, <1>5, LegsAreFinite
  <2> HIDE DEF Init
  <2>3. QED
    BY <2>1, <2>2 DEF OneBalance
<1>8. RoundingIsBounded
  <2>1. SumFunction(back) = 0
    <3>1. back \in [DOMAIN Legs -> Nat] /\ DOMAIN back = DOMAIN Legs /\ \A i \in DOMAIN Legs : back[i] = 0
      OBVIOUS
    <3>2. SumFunctionOnSet(back, DOMAIN Legs) = 0
      BY <3>1, LegsAreFinite, SumOfZeros
    <3>3. QED
      BY <3>1, <3>2 DEF SumFunction
  <2>2. taken * Amount = 0 /\ Share * 0 = 0 /\ Amount * 0 = 0
    BY LegsAreFinite, RefundEngineAssumption
  <2>3. Cardinality({}) = 0
    BY FS_EmptySet
  <2>4. QED
    BY <1>4, <1>5, <2>1, <2>2, <2>3 DEF RoundingIsBounded
<1>9. RefundedFits /\ EarlierLegsInProportion
  <2>1. SumAsked(Cascaded) = 0 /\ Amount \in Nat
    BY <1>4, <1>5, LegsAreFinite
  <2>2. \A i \in EarlierLegs : back[i] = 0 /\ Legs[i] \in Nat
    BY LegsAreFinite DEF EarlierLegs
  <2> HIDE DEF Init
  <2>3. QED
    BY <2>1, <2>2 DEF RefundedFits, EarlierLegsInProportion
<1>10. QED
  BY <1>2, <1>3, <1>6, <1>7, <1>8, <1>9 DEF Balanced, Rounding

LEMMA BalancedStep == IInv /\ Balanced /\ [Next]_vars => Balanced'
<1> SUFFICES ASSUME IInv, Balanced, [Next]_vars PROVE Balanced'
  OBVIOUS
<1> USE DEF Balanced
<1>1. IInv'
  BY InvariantStep
<1>2. RowFacts' /\ LateIsLost' /\ InternalIsApart' /\ SettledIsProcessed'
  BY RowFactsStay, LateStaysLost, InternalStaysApart, SettledStaysProcessed
<1>3. SentFits' /\ OneBalance' /\ Rounding'
  BY <1>1, <1>2, SentStaysFit, BalanceIsKept, RoundingIsKept
<1>4. QED
  BY <1>2, <1>3

LEMMA BalancedAlways == Spec => [](IInv /\ Balanced)
<1>1. Init => IInv /\ Balanced
  BY InvariantStart, BalancedStart
<1>2. IInv /\ Balanced /\ [Next]_vars => (IInv /\ Balanced)'
  BY InvariantStep, BalancedStep
<1>3. QED
  BY <1>1, <1>2, PTL DEF Spec

----------------------------------------------------------------------------
\* However requests race with one another and with a dispute, what they have booked, and
\* what the bank took before one of them reserved, is no more than was paid.
THEOREM BookedFitsThePayment == Spec => []OneBalance
<1>1. IInv /\ Balanced => OneBalance
  BY DEF Balanced
<1>2. QED
  BY <1>1, BalancedAlways, PTL

\* For every split into legs the reversals of a refund add up to it, and for every share the
\* cascades of a payment, each rounded down, lose less than a paisa each: the cap of the
\* share, which would take back less, does not bite before the bank took the whole share.
THEOREM RoundingLosesLittle == Spec => []RoundingIsBounded
<1>1. IInv /\ Balanced => RoundingIsBounded
  BY DEF Balanced, Rounding
<1>2. QED
  BY <1>1, BalancedAlways, PTL

\* Refunds of every origin together are taken back from the earning and the legs for no
\* more than was paid, at the gateway or through the organisation.
THEOREM RefundsFitThePayment == Spec => []RefundedFits
<1>1. IInv /\ Balanced => RefundedFits
  BY DEF Balanced, Rounding
<1>2. QED
  BY <1>1, BalancedAlways, PTL

\* No number of partial refunds gives a leg back more than it paid, the last leg excepted,
\* which has all the remainders.
EarlierLegsStayWithin == \A i \in EarlierLegs : back[i] <= Legs[i]

\* The part of every earlier leg is rounded down, refund by refund, and refunds fit.
THEOREM EarlierLegsGiveBackTheirOwn == Spec => []EarlierLegsStayWithin
<1>1. IInv /\ Balanced => EarlierLegsStayWithin
  <2> SUFFICES ASSUME IInv, Balanced, NEW i \in EarlierLegs PROVE back[i] <= Legs[i]
    BY DEF EarlierLegsStayWithin
  <2> DEFINE S == SumAsked(Cascaded)
  <2>1. i \in DOMAIN Legs /\ Legs[i] \in Nat /\ back[i] \in Nat /\ Amount \in Nat
    BY LegsAreFinite DEF EarlierLegs, IInv, TypeOK
  <2>2. S \in Nat
    BY AskedSums DEF IInv, Cascaded
  <2>3. Amount * back[i] <= Legs[i] * S /\ S <= Amount
    BY DEF Balanced, Rounding, EarlierLegsInProportion, RefundedFits
  <2> HIDE DEF S
  <2>4. Legs[i] * S <= Legs[i] * Amount /\ Legs[i] * Amount = Amount * Legs[i]
    BY <2>1, <2>2, <2>3
  <2>5. Amount * back[i] \in Int /\ Legs[i] * S \in Int /\ Amount * Legs[i] \in Int
    BY <2>1, <2>2
  <2>6. Amount * back[i] <= Amount * Legs[i]
    BY <2>3, <2>4, <2>5
  <2>7. QED
    BY <2>1, <2>6, AmountCancels
<1>2. QED
  BY <1>1, BalancedAlways, PTL

\* A row of a payment through the gateway reads SUCCEEDED, and a cascade is applied, only
\* for a refund that the gateway has processed.
THEOREM SuccessIsTheGateways == Spec => []SettledIsProcessed
<1>1. IInv /\ Balanced => SettledIsProcessed
  BY DEF Balanced
<1>2. QED
  BY <1>1, BalancedAlways, PTL
=============================================================================
