------------------------- MODULE RefundEngineProofs -------------------------
(***************************************************************************)
(* Proofs about RefundEngine, for every number of requests and of refunds  *)
(* made at the gateway, and for every payment, share and split into legs.  *)
(***************************************************************************)
EXTENDS RefundEngine, SumTheorems, TLAPS

\* A request settles a row that has the gateway's id.
SettlesAreBound == \A r \in Requests : pc[r] = "settle" => carrier[r] # None

\* A request asks the gateway once its row is reserved, and hears what is so.
Places ==
    \A r \in Requests :
        /\ pc[r] \in {"check", "reserve", "submit"} => gateway[r] = "none"
        /\ pc[r] = "submit" => own[r] = "PENDING"
        /\ pc[r] = "failed" => gateway[r] = "failed"
        /\ pc[r] \in {"pending", "processed"} => gateway[r] # "none"

\* A row has one refund's id.  Another's is lent to it only if its own request never
\* reached the gateway; the webhook's rows are those of refunds the gateway has.
Carriers ==
    /\ \A g \in Refunds : \A r \in Requests : carrier[g] = r =>
          /\ pc[r] \in {"settle", "over"}
          /\ g # r => g \in Dashboard /\ pc[r] = "over" /\ gateway[r] = "none"
          /\ \A h \in Refunds : carrier[h] = r => h = g
    /\ \A g \in Refunds : carrier[g] = Hook => gateway[g] # "none"

\* cascadedAt is set on the row of every refund whose cascade was applied.
CascadesAreClaimed ==
    \A g \in Refunds : times[g] # 0 =>
        times[g] = 1 /\ carrier[g] # None /\ Claimed(g)

\* The row that has the id, or the placeholder until one has it, is live.
MoneyIsCarried ==
    \A r \in Requests : gateway[r] \in Sent =>
        IF carrier[r] = Hook THEN Live(hook[r]) ELSE Live(own[r])

IInv ==
    /\ TypeOK
    /\ SettlesAreBound
    /\ Places
    /\ Carriers
    /\ CascadesAreClaimed
    /\ MoneyIsCarried

----------------------------------------------------------------------------

LEMMA AreRefunds ==
  /\ Requests \subseteq Refunds /\ Dashboard \subseteq Refunds /\ Requests \cap Dashboard = {}
  /\ None \notin Refunds /\ Hook \notin Refunds /\ None # Hook
  BY RefundEngineAssumption DEF Refunds

LEMMA ProportionIsNat == ASSUME NEW n \in Nat, NEW a \in Nat PROVE Proportion(n, a) \in Nat
<1>1. n * a \in Nat
  OBVIOUS
<1>2. \A m \in Nat : m \div Amount \in Nat
  BY RefundEngineAssumption
<1>3. QED
  BY <1>1, <1>2 DEF Proportion

\* The legs are a function on a finite set, and so are the parts they give back.
LEMMA LegsAreFinite ==
  /\ Len(Legs) \in DOMAIN Legs /\ IsFiniteSet(DOMAIN Legs) /\ IsFiniteSet(DOMAIN Legs \ {Len(Legs)})
  /\ Legs \in [DOMAIN Legs -> Nat] /\ Amount \in Nat /\ Amount > 0
<1>1. Legs \in [1 .. Len(Legs) -> Nat \ {0}] /\ Len(Legs) \in Nat /\ Len(Legs) # 0
  BY RefundEngineAssumption
<1>2. DOMAIN Legs = 1 .. Len(Legs) /\ Len(Legs) \in 1 .. Len(Legs)
  BY <1>1
<1>3. IsFiniteSet(1 .. Len(Legs))
  BY <1>1, FS_Interval
<1>4. IsFiniteSet(DOMAIN Legs) /\ IsFiniteSet(DOMAIN Legs \ {Len(Legs)})
  BY <1>2, <1>3, FS_RemoveElement
<1>5. Legs \in [DOMAIN Legs -> Nat]
  BY <1>1, <1>2
<1>6. Amount \in Nat /\ Amount > 0
  BY RefundEngineAssumption
<1>7. QED
  BY <1>2, <1>4, <1>5, <1>6

LEMMA ReversalTypes ==
  ASSUME NEW a \in Nat
  PROVE  Parts(a) \in [DOMAIN Legs -> Nat] /\ Reversal(a) \in [DOMAIN Legs -> Int]
<1>1. Parts(a) \in [DOMAIN Legs -> Nat]
  BY LegsAreFinite, ProportionIsNat DEF Parts
<1>2. SumFunctionOnSet(Parts(a), DOMAIN Legs \ {Len(Legs)}) \in Nat
  BY <1>1, LegsAreFinite, SumIsNat
<1> DEFINE rest == a - SumFunctionOnSet(Parts(a), DOMAIN Legs \ {Len(Legs)})
<1>3. rest \in Int /\ Reversal(a) = [Parts(a) EXCEPT ![Len(Legs)] = rest]
  BY <1>2 DEF Reversal
<1> HIDE DEF rest
<1>4. \A i \in DOMAIN Legs : Parts(a)[i] \in Int
  BY <1>1
<1>5. Reversal(a) = [i \in DOMAIN Legs |-> IF i = Len(Legs) THEN rest ELSE Parts(a)[i]]
  BY <1>1, <1>3
<1>6. Reversal(a) \in [DOMAIN Legs -> Int]
  BY <1>3, <1>4, <1>5
<1>7. QED
  BY <1>1, <1>6

\* However much a cascade adds, the earning gives back its share at most.
LEMMA TakeBackTypes ==
  ASSUME TypeOK, NEW g \in Refunds, NEW a \in 0 .. Amount, TakeBack(g, a)
  PROVE  taken' \in 0 .. Share /\ times' \in [Refunds -> Nat] /\ back' \in [DOMAIN Legs -> Nat]
<1> DEFINE n == taken + Proportion(Share, a)
<1>1. Share \in Nat /\ a \in Nat /\ taken \in Nat
  BY RefundEngineAssumption DEF TypeOK
<1>2. Proportion(Share, a) \in Nat
  BY <1>1, ProportionIsNat
<1>3. n \in Nat
  BY <1>1, <1>2
<1> HIDE DEF n
<1>4. Cap(n) \in 0 .. Share
  BY <1>3, RefundEngineAssumption DEF Cap
<1>5. taken' = Cap(n)
  BY DEF TakeBack, n
<1>6. times' \in [Refunds -> Nat]
  BY DEF TakeBack, TypeOK
<1>7. back' \in [DOMAIN Legs -> Nat]
  <2>1. \A i \in DOMAIN Legs : back[i] \in Nat /\ Reversal(a)[i] \in Int
    BY <1>1, ReversalTypes DEF TypeOK
  <2>2. back' = [i \in DOMAIN Legs |-> back[i] + (IF Reversal(a)[i] > 0 THEN Reversal(a)[i] ELSE 0)]
    BY DEF TakeBack
  <2>3. QED
    BY <2>1, <2>2
<1>8. QED
  BY <1>4, <1>5, <1>6, <1>7

LEMMA CascadeTypes ==
  ASSUME TypeOK, NEW g \in Refunds, carrier[g] # None, Cascade(g)
  PROVE  /\ taken' \in 0 .. Share /\ times' \in [Refunds -> Nat] /\ back' \in [DOMAIN Legs -> Nat]
         /\ ownDone' \subseteq Requests /\ hookDone' \subseteq Refunds
<1>1. CASE Claimed(g)
  BY <1>1 DEF Cascade, cascade, TypeOK
<1>2. CASE ~Claimed(g)
  <2>1. asked[g] \in 0 .. Amount /\ TakeBack(g, asked[g])
    BY <1>2 DEF Cascade, TypeOK
  <2>2. ownDone' \subseteq Requests /\ hookDone' \subseteq Refunds
    BY <1>2, AreRefunds DEF Cascade, TypeOK
  <2>3. QED
    BY <2>1, <2>2, TakeBackTypes
<1>3. QED
  BY <1>1, <1>2

\* A write to the row of a refund touches that row alone.
LEMMA PutMoves ==
  ASSUME TypeOK, NEW g \in Refunds, carrier[g] # None, NEW s \in RowStatuses, Put(g, s)
  PROVE  /\ own' \in [Requests -> RowStatuses] /\ hook' \in [Refunds -> RowStatuses]
         /\ \A q \in Requests : own'[q] = IF q = carrier[g] THEN s ELSE own[q]
         /\ \A h \in Refunds : hook'[h] = IF h = g /\ carrier[g] = Hook THEN s ELSE hook[h]
  BY AreRefunds DEF Put, TypeOK

LEMMA Ranges == /\ Share \in 0 .. Share
                /\ 0 \in 0 .. Share /\ 0 \in 0 .. Amount
                /\ \A a \in 1 .. Amount : a \in 0 .. Amount
  BY RefundEngineAssumption

\* Every step preserves the types.
LEMMA TypesArePreserved ==
  ASSUME TypeOK, SettlesAreBound, [Next]_vars
  PROVE  TypeOK'
<1> USE AreRefunds, Ranges DEF TypeOK, SettlesAreBound, RequestSteps, RowStatuses, request,
    rows, cascade
<1>1. ASSUME NEW r \in Requests, NEW a \in 1 .. Amount, Check(r, a) PROVE TypeOK'
  BY <1>1 DEF Check, Goto
<1>2. ASSUME NEW r \in Requests, NEW a \in 1 .. Amount, RefundInternally(r, a) PROVE TypeOK'
  <2>1. TakeBack(r, a) /\ a \in 0 .. Amount /\ r \in Refunds
    BY <1>2 DEF RefundInternally
  <2>2. taken' \in 0 .. Share /\ times' \in [Refunds -> Nat] /\ back' \in [DOMAIN Legs -> Nat]
    BY <2>1, TakeBackTypes
  <2>3. QED
    BY <1>2, <2>2 DEF RefundInternally, RestoreCredits, Goto
<1>3. ASSUME NEW r \in Requests, Reserve(r) PROVE TypeOK'
  BY <1>3 DEF Reserve, Goto
<1>4. ASSUME NEW r \in Requests, RefuseToReserve(r) PROVE TypeOK'
  BY <1>4 DEF RefuseToReserve, Goto
<1>5. ASSUME NEW r \in Requests, Submit(r) PROVE TypeOK'
  <2>1. PICK s \in {"pending", "processed", "failed"} :
           gateway' = [gateway EXCEPT ![r] = s] /\ (Goto(r, s) \/ Goto(r, "over"))
    BY <1>5 DEF Submit
  <2>2. gateway' \in [Refunds -> {"none", "pending", "processed",
      "failed"}] /\ pc' \in [Requests -> RequestSteps]
    BY <2>1 DEF Goto
  <2>3. QED
    BY <1>5, <2>2 DEF Submit
<1>6. ASSUME NEW r \in Requests, Refuse(r) PROVE TypeOK'
  BY <1>6 DEF Refuse, Goto
<1>7. ASSUME NEW r \in Requests, Bind(r) PROVE TypeOK'
  <2>1. own' \in [Requests -> RowStatuses] /\ carrier' \in [Refunds -> Requests \cup {None,
      Hook}]
    BY <1>7 DEF Bind
  <2>2. pc' \in [Requests -> RequestSteps]
    BY <1>7 DEF Bind, Goto
  <2>3. QED
    BY <1>7, <2>1, <2>2 DEF Bind
<1>8. ASSUME NEW r \in Requests, BindFailure(r) PROVE TypeOK'
  BY <1>8 DEF BindFailure, IdIsFree, Goto
<1>9. ASSUME NEW r \in Requests, Settle(r) PROVE TypeOK'
  <2>1. r \in Refunds /\ carrier[r] # None /\ Cascade(r) /\ Put(r, "SUCCEEDED")
    BY <1>9 DEF Settle
  <2>2. own' \in [Requests -> RowStatuses] /\ hook' \in [Refunds -> RowStatuses]
    BY <2>1, PutMoves
  <2>3. QED
    BY <1>9, <2>1, <2>2, CascadeTypes DEF Settle, RestoreCredits, Goto
<1>10. ASSUME NEW r \in Requests, Crash(r) PROVE TypeOK'
  BY <1>10 DEF Crash, Goto
<1>11. ASSUME NEW r \in Requests, MatchPlaceholder(r) PROVE TypeOK'
  <2>1. PICK g \in Matches(r) :
          IF IdIsFree(g)
          THEN /\ carrier' = [carrier EXCEPT ![g] = r]
               /\ own' = [own EXCEPT ![r] = RowStatus(gateway[g])]
          ELSE own' = [own EXCEPT ![r] = "none"] /\ UNCHANGED carrier
    BY <1>11 DEF MatchPlaceholder
  <2>2. RowStatus(gateway[g]) \in RowStatuses
    BY DEF RowStatus
  <2>3. own' \in [Requests -> RowStatuses] /\ carrier' \in [Refunds -> Requests \cup {None,
      Hook}]
    BY <2>1, <2>2
  <2>4. QED
    BY <1>11, <2>3 DEF MatchPlaceholder
<1>12. ASSUME NEW r \in Requests, FailPlaceholder(r) PROVE TypeOK'
  BY <1>12 DEF FailPlaceholder, Placeholder, Matches, Alike
<1>13. ASSUME NEW g \in Refunds, Progress(g) PROVE TypeOK'
  <2>1. gateway' \in [Refunds -> {"none", "pending", "processed", "failed"}]
    BY <1>13 DEF Progress
  <2>2. QED
    BY <1>13, <2>1 DEF Progress
<1>14. ASSUME NEW g \in Refunds, NEW s \in {"pending", "processed", "failed"},
    WebhookKnown(g, s) PROVE TypeOK'
  <2>1. carrier[g] # None /\ RowStatus(s) \in RowStatuses /\ Put(g, RowStatus(s))
    BY <1>14 DEF WebhookKnown, RowStatus
  <2>2. own' \in [Requests -> RowStatuses] /\ hook' \in [Refunds -> RowStatuses]
    BY <2>1, PutMoves
  <2>3. CASE s = "processed"
    BY <1>14, <2>1, <2>2, <2>3, CascadeTypes DEF WebhookKnown, RestoreCredits
  <2>4. CASE s # "processed"
    BY <1>14, <2>2, <2>4 DEF WebhookKnown
  <2>5. QED
    BY <2>3, <2>4
<1>15. ASSUME NEW g \in Refunds, NEW s \in {"pending", "processed", "failed"},
    WebhookUnknown(g, s) PROVE TypeOK'
  <2>1. hook' \in [Refunds -> RowStatuses] /\ carrier' \in [Refunds -> Requests \cup {None,
      Hook}]
    BY <1>15 DEF WebhookUnknown, RowStatus
  <2>2. CASE s = "processed"
    <3>1. TakeBack(g, asked[g]) /\ asked[g] \in 0 .. Amount
      BY <1>15, <2>2 DEF WebhookUnknown
    <3>2. QED
      BY <1>15, <2>1, <2>2, <3>1, TakeBackTypes DEF WebhookUnknown, RestoreCredits
  <2>3. CASE s # "processed"
    BY <1>15, <2>1, <2>3 DEF WebhookUnknown
  <2>4. QED
    BY <2>2, <2>3
<1>16. ASSUME NEW g \in Refunds, PollRow(g) PROVE TypeOK'
  <2>1. carrier[g] # None /\ RowStatus(gateway[g]) \in RowStatuses /\ Put(g,
      RowStatus(gateway[g]))
    BY <1>16 DEF PollRow, RowStatus
  <2>2. QED
    BY <1>16, <2>1, PutMoves DEF PollRow
<1>17. ASSUME NEW g \in Refunds, CascadeBackstop(g) PROVE TypeOK'
  <2>1. carrier[g] # None /\ Cascade(g)
    BY <1>17 DEF CascadeBackstop
  <2>2. QED
    BY <1>17, <2>1, CascadeTypes DEF CascadeBackstop
<1>18. ASSUME NEW g \in Refunds, NEW a \in 1 .. Amount, OperatorRefunds(g, a) PROVE TypeOK'
  BY <1>18 DEF OperatorRefunds
<1>19. ASSUME Dispute PROVE TypeOK'
  BY <1>19 DEF Dispute
<1>20. ASSUME ResolveDispute PROVE TypeOK'
  <2>1. \A part \in Lost : part \in Nat
    BY RefundEngineAssumption, ProportionIsNat DEF Lost
  <2>2. \A n \in Nat : Cap(n) \in 0 .. Share
    BY RefundEngineAssumption DEF Cap
  <2>3. \A part \in Lost : Cap(taken + part) \in 0 .. Share
    BY <2>1, <2>2
  <2>. QED
    BY <1>20, <2>3 DEF ResolveDispute
<1>21. CASE UNCHANGED vars
  BY <1>21 DEF vars
<1>22. QED
  BY <1>1, <1>2, <1>3, <1>4, <1>5, <1>6, <1>7, <1>8, <1>9, <1>10, <1>11,
     <1>12, <1>13, <1>14, <1>15, <1>16, <1>17, <1>18, <1>19, <1>20, <1>21
  DEF Next, RequestStep, Webhook

\* The places of a request and of its row stay together.
LEMMA PlacesStay ==
  ASSUME TypeOK, SettlesAreBound, Places, Carriers, [Next]_vars
  PROVE  Places'
<1> USE AreRefunds DEF TypeOK, Places, Carriers, RowStatuses,
    RequestSteps, request, rows, cascade
<1>1. ASSUME NEW r \in Requests, NEW a \in 1 .. Amount, Check(r, a) PROVE Places'
  BY <1>1 DEF Check, Goto
<1>2. ASSUME NEW r \in Requests, NEW a \in 1 .. Amount, RefundInternally(r, a) PROVE Places'
  BY <1>2 DEF RefundInternally, Goto, TakeBack, RestoreCredits
<1>3. ASSUME NEW r \in Requests, Reserve(r) PROVE Places'
  BY <1>3 DEF Reserve, Goto
<1>4. ASSUME NEW r \in Requests, RefuseToReserve(r) PROVE Places'
  BY <1>4 DEF RefuseToReserve, Goto
<1>5. ASSUME NEW r \in Requests, Submit(r) PROVE Places'
  BY <1>5 DEF Submit, Goto
<1>6. ASSUME NEW r \in Requests, Refuse(r) PROVE Places'
  BY <1>6 DEF Refuse, Goto
<1>7. ASSUME NEW r \in Requests, Bind(r) PROVE Places'
  BY <1>7 DEF Bind, IdIsFree, Goto
<1>8. ASSUME NEW r \in Requests, BindFailure(r) PROVE Places'
  BY <1>8 DEF BindFailure, IdIsFree, Goto
<1>9. ASSUME NEW r \in Requests, Settle(r) PROVE Places'
  <2>1. r \in Refunds /\ carrier[r] # None /\ Put(r, "SUCCEEDED")
    BY <1>9 DEF Settle, SettlesAreBound
  <2>2. QED
    BY <1>9, <2>1, PutMoves DEF Settle, Goto, StatusOf, SettlesAreBound
<1>10. ASSUME NEW r \in Requests, Crash(r) PROVE Places'
  BY <1>10 DEF Crash, Goto
<1>11. ASSUME NEW r \in Requests, MatchPlaceholder(r) PROVE Places'
  BY <1>11 DEF MatchPlaceholder, Placeholder, Matches, Alike, IdIsFree, RowStatus
<1>12. ASSUME NEW r \in Requests, FailPlaceholder(r) PROVE Places'
  BY <1>12 DEF FailPlaceholder, Placeholder, Matches, Alike
<1>13. ASSUME NEW g \in Refunds, Progress(g) PROVE Places'
  BY <1>13 DEF Progress
<1>14. ASSUME NEW g \in Refunds, NEW s \in {"pending", "processed", "failed"},
    WebhookKnown(g, s) PROVE Places'
  <2>1. carrier[g] # None /\ RowStatus(s) \in RowStatuses /\ Put(g, RowStatus(s))
    BY <1>14 DEF WebhookKnown, RowStatus
  <2>2. QED
    BY <1>14, <2>1, PutMoves DEF WebhookKnown, StatusOf, Reports, RowStatus
<1>15. ASSUME NEW g \in Refunds, NEW s \in {"pending", "processed", "failed"},
    WebhookUnknown(g, s) PROVE Places'
  BY <1>15 DEF WebhookUnknown, Reports, IdIsFree, RowStatus, TakeBack, RestoreCredits
<1>16. ASSUME NEW g \in Refunds, PollRow(g) PROVE Places'
  <2>1. carrier[g] # None /\ Put(g, RowStatus(gateway[g])) /\ UNCHANGED <<pc, gateway,
      carrier>>
    BY <1>16 DEF PollRow, request
  <2>2. RowStatus(gateway[g]) \in RowStatuses
    BY DEF RowStatus
  <2>3. \A q \in Requests : own'[q] = IF q = carrier[g] THEN RowStatus(gateway[g]) ELSE own[q]
    BY <2>1, <2>2, PutMoves
  <2>4. QED
    BY <2>1, <2>3
<1>17. ASSUME NEW g \in Refunds, CascadeBackstop(g) PROVE Places'
  BY <1>17 DEF CascadeBackstop, StatusOf, Cascade, Claimed, TakeBack
<1>18. ASSUME NEW g \in Refunds, NEW a \in 1 .. Amount, OperatorRefunds(g, a) PROVE Places'
  BY <1>18 DEF OperatorRefunds
<1>19. ASSUME Dispute PROVE Places'
  BY <1>19 DEF Dispute
<1>20. ASSUME ResolveDispute PROVE Places'
  BY <1>20 DEF ResolveDispute
<1>21. CASE UNCHANGED vars
  BY <1>21 DEF vars
<1>22. QED
  BY <1>1, <1>2, <1>3, <1>4, <1>5, <1>6, <1>7, <1>8, <1>9, <1>10, <1>11,
     <1>12, <1>13, <1>14, <1>15, <1>16, <1>17, <1>18, <1>19, <1>20, <1>21
  DEF Next, RequestStep, Webhook

\* A settling request has its row.
LEMMA SettlesStayBound ==
  ASSUME TypeOK, SettlesAreBound, Places, Carriers, [Next]_vars
  PROVE  SettlesAreBound'
<1> USE AreRefunds DEF TypeOK, SettlesAreBound, Carriers,
    RequestSteps, request, rows, cascade
<1>1. ASSUME NEW r \in Requests, NEW a \in 1 .. Amount, Check(r, a) PROVE SettlesAreBound'
  BY <1>1 DEF Check, Goto
<1>2. ASSUME NEW r \in Requests, NEW a \in 1 .. Amount, RefundInternally(r, a)
    PROVE SettlesAreBound'
  BY <1>2 DEF RefundInternally, Goto, TakeBack, RestoreCredits
<1>3. ASSUME NEW r \in Requests, Reserve(r) PROVE SettlesAreBound'
  BY <1>3 DEF Reserve, Goto
<1>4. ASSUME NEW r \in Requests, RefuseToReserve(r) PROVE SettlesAreBound'
  BY <1>4 DEF RefuseToReserve, Goto
<1>5. ASSUME NEW r \in Requests, Submit(r) PROVE SettlesAreBound'
  BY <1>5 DEF Submit, Goto
<1>6. ASSUME NEW r \in Requests, Refuse(r) PROVE SettlesAreBound'
  BY <1>6 DEF Refuse, Goto
<1>7. ASSUME NEW r \in Requests, Bind(r) PROVE SettlesAreBound'
  BY <1>7 DEF Bind, IdIsFree, Goto
<1>8. ASSUME NEW r \in Requests, BindFailure(r) PROVE SettlesAreBound'
  BY <1>8 DEF BindFailure, IdIsFree, Goto
<1>9. ASSUME NEW r \in Requests, Settle(r) PROVE SettlesAreBound'
  BY <1>9 DEF Settle, Cascade, Claimed, TakeBack, Put, RestoreCredits, Goto
<1>10. ASSUME NEW r \in Requests, Crash(r) PROVE SettlesAreBound'
  BY <1>10 DEF Crash, Goto
<1>11. ASSUME NEW r \in Requests, MatchPlaceholder(r) PROVE SettlesAreBound'
  BY <1>11 DEF MatchPlaceholder, Placeholder, Matches, Alike, IdIsFree, RowStatus
<1>12. ASSUME NEW r \in Requests, FailPlaceholder(r) PROVE SettlesAreBound'
  BY <1>12 DEF FailPlaceholder, Placeholder, Matches, Alike
<1>13. ASSUME NEW g \in Refunds, Progress(g) PROVE SettlesAreBound'
  BY <1>13 DEF Progress
<1>14. ASSUME NEW g \in Refunds, NEW s \in {"pending", "processed", "failed"},
    WebhookKnown(g, s) PROVE SettlesAreBound'
  BY <1>14 DEF WebhookKnown, Reports, StatusOf, Put, RowStatus, Cascade, Claimed, TakeBack,
      RestoreCredits
<1>15. ASSUME NEW g \in Refunds, NEW s \in {"pending", "processed", "failed"},
    WebhookUnknown(g, s) PROVE SettlesAreBound'
  BY <1>15 DEF WebhookUnknown, Reports, IdIsFree, RowStatus, TakeBack, RestoreCredits
<1>16. ASSUME NEW g \in Refunds, PollRow(g) PROVE SettlesAreBound'
  BY <1>16 DEF PollRow, Polled, StatusOf, Put, RowStatus
<1>17. ASSUME NEW g \in Refunds, CascadeBackstop(g) PROVE SettlesAreBound'
  BY <1>17 DEF CascadeBackstop, StatusOf, Cascade, Claimed, TakeBack
<1>18. ASSUME NEW g \in Refunds, NEW a \in 1 .. Amount, OperatorRefunds(g, a)
    PROVE SettlesAreBound'
  BY <1>18 DEF OperatorRefunds
<1>19. ASSUME Dispute PROVE SettlesAreBound'
  BY <1>19 DEF Dispute
<1>20. ASSUME ResolveDispute PROVE SettlesAreBound'
  BY <1>20 DEF ResolveDispute
<1>21. CASE UNCHANGED vars
  BY <1>21 DEF vars
<1>22. QED
  BY <1>1, <1>2, <1>3, <1>4, <1>5, <1>6, <1>7, <1>8, <1>9, <1>10, <1>11,
     <1>12, <1>13, <1>14, <1>15, <1>16, <1>17, <1>18, <1>19, <1>20, <1>21
  DEF Next, RequestStep, Webhook

\* A row gets the id of one refund, and keeps it.
LEMMA IdsStayApart ==
  ASSUME TypeOK, Places, Carriers, [Next]_vars
  PROVE  Carriers'
<1> USE AreRefunds DEF TypeOK, Places, Carriers, RequestSteps,
    request, rows, cascade
<1>1. ASSUME NEW r \in Requests, NEW a \in 1 .. Amount, Check(r, a) PROVE Carriers'
  BY <1>1 DEF Check, Goto
<1>2. ASSUME NEW r \in Requests, NEW a \in 1 .. Amount, RefundInternally(r, a)
    PROVE Carriers'
  BY <1>2 DEF RefundInternally, Goto, TakeBack, RestoreCredits
<1>3. ASSUME NEW r \in Requests, Reserve(r) PROVE Carriers'
  BY <1>3 DEF Reserve, Goto
<1>4. ASSUME NEW r \in Requests, RefuseToReserve(r) PROVE Carriers'
  BY <1>4 DEF RefuseToReserve, Goto
<1>5. ASSUME NEW r \in Requests, Submit(r) PROVE Carriers'
  BY <1>5 DEF Submit, Goto
<1>6. ASSUME NEW r \in Requests, Refuse(r) PROVE Carriers'
  BY <1>6 DEF Refuse, Goto
<1>7. ASSUME NEW r \in Requests, Bind(r) PROVE Carriers'
  <2>1. pc[r] \in {"pending", "processed"} /\ gateway[r] # "none"
    BY <1>7 DEF Bind, Sent
  <2>2. \A g \in Refunds : carrier[g] # r
    BY <2>1
  <2>3. pc' = [pc EXCEPT ![r] = IF pc[r] = "processed" THEN "settle" ELSE "over"] /\ UNCHANGED gateway
    BY <1>7 DEF Bind, Goto
  <2>4. CASE IdIsFree(r)
    <3>1. carrier' = [carrier EXCEPT ![r] = r]
      BY <1>7, <2>4 DEF Bind
    <3>2. QED
      BY <2>1, <2>2, <2>3, <3>1
  <2>5. CASE ~IdIsFree(r)
    <3>1. UNCHANGED carrier
      BY <1>7, <2>5 DEF Bind
    <3>2. QED
      BY <2>1, <2>2, <2>3, <3>1
  <2>6. QED
    BY <2>4, <2>5
<1>8. ASSUME NEW r \in Requests, BindFailure(r) PROVE Carriers'
  BY <1>8 DEF BindFailure, IdIsFree, Goto
<1>9. ASSUME NEW r \in Requests, Settle(r) PROVE Carriers'
  BY <1>9 DEF Settle, Cascade, Claimed, TakeBack, Put, RestoreCredits, Goto
<1>10. ASSUME NEW r \in Requests, Crash(r) PROVE Carriers'
  BY <1>10 DEF Crash, Goto
<1>11. ASSUME NEW r \in Requests, MatchPlaceholder(r) PROVE Carriers'
  <2>1. /\ own[r] = "PENDING" /\ pc[r] = "over" /\ \A g \in Refunds : carrier[g] # r
        /\ \A g \in Matches(r) : /\ g \in Refunds /\ gateway[g] # "none"
                                 /\ g # r => g \in Dashboard /\ gateway[r] = "none"
    BY <1>11 DEF MatchPlaceholder, Placeholder, Matches, Alike
  <2>2. PICK g \in Matches(r) :
          IF IdIsFree(g)
          THEN /\ carrier' = [carrier EXCEPT ![g] = r]
               /\ own' = [own EXCEPT ![r] = RowStatus(gateway[g])]
          ELSE own' = [own EXCEPT ![r] = "none"] /\ UNCHANGED carrier
    BY <1>11 DEF MatchPlaceholder
  <2>3. UNCHANGED <<rail, request, gateway, hook, cascade, dispute, restored, late>>
    BY <1>11 DEF MatchPlaceholder
  <2>4. CASE IdIsFree(g)
    <3>1. /\ g \in Refunds /\ gateway[g] # "none"
          /\ g # r => g \in Dashboard /\ gateway[r] = "none"
      BY <2>1, <2>2
    <3>2. carrier[g] = None /\ carrier' = [carrier EXCEPT ![g] = r]
      BY <2>2, <2>4 DEF IdIsFree
    <3>3. UNCHANGED <<pc, gateway, ownDone, hookDone, times>>
      BY <2>3 DEF request, cascade
    <3>4. QED
      BY <2>1, <3>1, <3>2, <3>3
  <2>5. CASE ~IdIsFree(g)
    BY <2>1, <2>2, <2>3, <2>5 DEF IdIsFree
  <2>6. QED
    BY <2>4, <2>5
<1>12. ASSUME NEW r \in Requests, FailPlaceholder(r) PROVE Carriers'
  BY <1>12 DEF FailPlaceholder, Placeholder, Matches, Alike
<1>13. ASSUME NEW g \in Refunds, Progress(g) PROVE Carriers'
  BY <1>13 DEF Progress
<1>14. ASSUME NEW g \in Refunds, NEW s \in {"pending", "processed", "failed"},
    WebhookKnown(g, s) PROVE Carriers'
  BY <1>14 DEF WebhookKnown, Reports, StatusOf, Put, RowStatus, Cascade, Claimed, TakeBack,
      RestoreCredits
<1>15. ASSUME NEW g \in Refunds, NEW s \in {"pending", "processed", "failed"},
    WebhookUnknown(g, s) PROVE Carriers'
  BY <1>15 DEF WebhookUnknown, Reports, IdIsFree, RowStatus, TakeBack, RestoreCredits
<1>16. ASSUME NEW g \in Refunds, PollRow(g) PROVE Carriers'
  BY <1>16 DEF PollRow, Polled, StatusOf, Put, RowStatus
<1>17. ASSUME NEW g \in Refunds, CascadeBackstop(g) PROVE Carriers'
  BY <1>17 DEF CascadeBackstop, StatusOf, Cascade, Claimed, TakeBack
<1>18. ASSUME NEW g \in Refunds, NEW a \in 1 .. Amount, OperatorRefunds(g, a)
    PROVE Carriers'
  BY <1>18 DEF OperatorRefunds
<1>19. ASSUME Dispute PROVE Carriers'
  BY <1>19 DEF Dispute
<1>20. ASSUME ResolveDispute PROVE Carriers'
  BY <1>20 DEF ResolveDispute
<1>21. CASE UNCHANGED vars
  BY <1>21 DEF vars
<1>22. QED
  BY <1>1, <1>2, <1>3, <1>4, <1>5, <1>6, <1>7, <1>8, <1>9, <1>10, <1>11,
     <1>12, <1>13, <1>14, <1>15, <1>16, <1>17, <1>18, <1>19, <1>20, <1>21
  DEF Next, RequestStep, Webhook

\* A cascade is applied with its claim.
LEMMA CascadesStayClaimed ==
  ASSUME TypeOK, SettlesAreBound, Places, Carriers, CascadesAreClaimed, [Next]_vars
  PROVE  CascadesAreClaimed'
<1> USE AreRefunds DEF TypeOK, SettlesAreBound, Places, Carriers,
    CascadesAreClaimed, Claimed, RequestSteps, request, rows, cascade
<1>1. ASSUME NEW r \in Requests, NEW a \in 1 .. Amount, Check(r, a)
    PROVE CascadesAreClaimed'
  BY <1>1 DEF Check, Goto
<1>2. ASSUME NEW r \in Requests, NEW a \in 1 .. Amount, RefundInternally(r, a)
    PROVE CascadesAreClaimed'
  <2>1. pc[r] = "check" /\ gateway[r] = "none" /\ r \in Refunds
    BY <1>2 DEF RefundInternally
  <2>2. \A g \in Refunds : carrier[g] # r
    BY <2>1
  <2>3. carrier[r] = None
    BY <2>1, <2>2
  <2>4. times[r] = 0
    BY <2>1, <2>3
  <2>5. /\ carrier' = [carrier EXCEPT ![r] = r] /\ ownDone' = ownDone \cup {r}
        /\ times' = [times EXCEPT ![r] = @ + 1] /\ UNCHANGED hookDone
    BY <1>2 DEF RefundInternally, TakeBack
  <2>6. QED
    BY <2>1, <2>2, <2>3, <2>4, <2>5
<1>3. ASSUME NEW r \in Requests, Reserve(r) PROVE CascadesAreClaimed'
  BY <1>3 DEF Reserve, Goto
<1>4. ASSUME NEW r \in Requests, RefuseToReserve(r) PROVE CascadesAreClaimed'
  BY <1>4 DEF RefuseToReserve, Goto
<1>5. ASSUME NEW r \in Requests, Submit(r) PROVE CascadesAreClaimed'
  BY <1>5 DEF Submit, Goto
<1>6. ASSUME NEW r \in Requests, Refuse(r) PROVE CascadesAreClaimed'
  BY <1>6 DEF Refuse, Goto
<1>7. ASSUME NEW r \in Requests, Bind(r) PROVE CascadesAreClaimed'
  <2>1. UNCHANGED <<ownDone, hookDone, times>>
    BY <1>7 DEF Bind
  <2>2. IF carrier[r] = None THEN carrier' = [carrier EXCEPT ![r] = r] ELSE carrier' = carrier
    BY <1>7 DEF Bind, IdIsFree
  <2>3. CASE carrier[r] = None
    <3>1. carrier' = [carrier EXCEPT ![r] = r] /\ r \in Refunds /\ times[r] = 0
      BY <2>2, <2>3
    <3>2. \A g \in Refunds \ {r} : carrier'[g] = carrier[g]
      BY <3>1
    <3>3. times'[r] = 0
      BY <2>1, <3>1
    <3>4. ASSUME NEW g \in Refunds \ {r}, times[g] # 0
          PROVE  times[g] = 1 /\ carrier'[g] # None /\ Claimed(g)'
      BY <2>1, <3>2, <3>4
    <3>5. QED
      BY <2>1, <3>3, <3>4
  <2>4. CASE carrier[r] # None
    BY <2>1, <2>2, <2>4
  <2>5. QED
    BY <2>3, <2>4
<1>8. ASSUME NEW r \in Requests, BindFailure(r) PROVE CascadesAreClaimed'
  BY <1>8 DEF BindFailure, IdIsFree, Goto
<1>9. ASSUME NEW r \in Requests, Settle(r) PROVE CascadesAreClaimed'
  <2>1. r \in Refunds /\ carrier[r] # None /\ Cascade(r) /\ UNCHANGED carrier
    BY <1>9 DEF Settle
  <2>2. CASE Claimed(r)
    BY <2>1, <2>2 DEF Cascade, Claimed
  <2>3. CASE ~Claimed(r)
    <3>1. times[r] = 0
      BY <2>1, <2>3 DEF Claimed
    <3>2. times' = [times EXCEPT ![r] = @ + 1]
      BY <2>1, <2>3 DEF Cascade, TakeBack
    <3>3. IF carrier[r] = Hook THEN hookDone' = hookDone \cup {r} /\ UNCHANGED ownDone
                                ELSE ownDone' = ownDone \cup {carrier[r]} /\ UNCHANGED hookDone
      BY <2>1, <2>3 DEF Cascade
    <3>4. QED
      BY <2>1, <3>1, <3>2, <3>3
  <2>4. QED
    BY <2>2, <2>3
<1>10. ASSUME NEW r \in Requests, Crash(r) PROVE CascadesAreClaimed'
  BY <1>10 DEF Crash, Goto
<1>11. ASSUME NEW r \in Requests, MatchPlaceholder(r) PROVE CascadesAreClaimed'
  <2>1. /\ own[r] = "PENDING" /\ pc[r] = "over" /\ \A g \in Refunds : carrier[g] # r
        /\ \A g \in Matches(r) : /\ g \in Refunds /\ gateway[g] # "none"
                                 /\ g # r => g \in Dashboard /\ gateway[r] = "none"
    BY <1>11 DEF MatchPlaceholder, Placeholder, Matches, Alike
  <2>2. PICK g \in Matches(r) :
          IF IdIsFree(g)
          THEN /\ carrier' = [carrier EXCEPT ![g] = r]
               /\ own' = [own EXCEPT ![r] = RowStatus(gateway[g])]
          ELSE own' = [own EXCEPT ![r] = "none"] /\ UNCHANGED carrier
    BY <1>11 DEF MatchPlaceholder
  <2>3. UNCHANGED <<rail, request, gateway, hook, cascade, dispute, restored, late>>
    BY <1>11 DEF MatchPlaceholder
  <2>4. CASE IdIsFree(g)
    <3>1. /\ g \in Refunds /\ gateway[g] # "none"
          /\ g # r => g \in Dashboard /\ gateway[r] = "none"
      BY <2>1, <2>2
    <3>2. carrier[g] = None /\ carrier' = [carrier EXCEPT ![g] = r]
      BY <2>2, <2>4 DEF IdIsFree
    <3>3. UNCHANGED <<pc, gateway, ownDone, hookDone, times>>
      BY <2>3 DEF request, cascade
    <3>4. QED
      BY <2>1, <3>1, <3>2, <3>3
  <2>5. CASE ~IdIsFree(g)
    BY <2>1, <2>2, <2>3, <2>5 DEF IdIsFree
  <2>6. QED
    BY <2>4, <2>5
<1>12. ASSUME NEW r \in Requests, FailPlaceholder(r) PROVE CascadesAreClaimed'
  BY <1>12 DEF FailPlaceholder, Placeholder, Matches, Alike
<1>13. ASSUME NEW g \in Refunds, Progress(g) PROVE CascadesAreClaimed'
  BY <1>13 DEF Progress
<1>14. ASSUME NEW g \in Refunds, NEW s \in {"pending", "processed", "failed"},
    WebhookKnown(g, s) PROVE CascadesAreClaimed'
  BY <1>14 DEF WebhookKnown, Reports, StatusOf, Put, RowStatus, Cascade, Claimed, TakeBack,
      RestoreCredits
<1>15. ASSUME NEW g \in Refunds, NEW s \in {"pending", "processed", "failed"},
    WebhookUnknown(g, s) PROVE CascadesAreClaimed'
  BY <1>15 DEF WebhookUnknown, Reports, IdIsFree, RowStatus, TakeBack, RestoreCredits
<1>16. ASSUME NEW g \in Refunds, PollRow(g) PROVE CascadesAreClaimed'
  BY <1>16 DEF PollRow, Polled, StatusOf, Put, RowStatus
<1>17. ASSUME NEW g \in Refunds, CascadeBackstop(g) PROVE CascadesAreClaimed'
  BY <1>17 DEF CascadeBackstop, StatusOf, Cascade, Claimed, TakeBack
<1>18. ASSUME NEW g \in Refunds, NEW a \in 1 .. Amount, OperatorRefunds(g, a)
    PROVE CascadesAreClaimed'
  BY <1>18 DEF OperatorRefunds
<1>19. ASSUME Dispute PROVE CascadesAreClaimed'
  BY <1>19 DEF Dispute
<1>20. ASSUME ResolveDispute PROVE CascadesAreClaimed'
  BY <1>20 DEF ResolveDispute
<1>21. CASE UNCHANGED vars
  BY <1>21 DEF vars
<1>22. QED
  BY <1>1, <1>2, <1>3, <1>4, <1>5, <1>6, <1>7, <1>8, <1>9, <1>10, <1>11,
     <1>12, <1>13, <1>14, <1>15, <1>16, <1>17, <1>18, <1>19, <1>20, <1>21
  DEF Next, RequestStep, Webhook

\* The row of moving money stays live.
LEMMA MoneyStaysCarried ==
  ASSUME TypeOK, SettlesAreBound, Places, Carriers, MoneyIsCarried, [Next]_vars
  PROVE  MoneyIsCarried'
<1> USE AreRefunds DEF TypeOK, Places, Carriers, MoneyIsCarried,
    RequestSteps, Sent, Live, request, rows, cascade
<1>1. ASSUME NEW r \in Requests, NEW a \in 1 .. Amount, Check(r, a) PROVE MoneyIsCarried'
  BY <1>1 DEF Check, Goto
<1>2. ASSUME NEW r \in Requests, NEW a \in 1 .. Amount, RefundInternally(r, a)
    PROVE MoneyIsCarried'
  BY <1>2 DEF RefundInternally, Goto, TakeBack, RestoreCredits
<1>3. ASSUME NEW r \in Requests, Reserve(r) PROVE MoneyIsCarried'
  BY <1>3 DEF Reserve, Goto
<1>4. ASSUME NEW r \in Requests, RefuseToReserve(r) PROVE MoneyIsCarried'
  BY <1>4 DEF RefuseToReserve, Goto
<1>5. ASSUME NEW r \in Requests, Submit(r) PROVE MoneyIsCarried'
  BY <1>5 DEF Submit, Goto
<1>6. ASSUME NEW r \in Requests, Refuse(r) PROVE MoneyIsCarried'
  BY <1>6 DEF Refuse, Goto
<1>7. ASSUME NEW r \in Requests, Bind(r) PROVE MoneyIsCarried'
  BY <1>7 DEF Bind, IdIsFree, Goto
<1>8. ASSUME NEW r \in Requests, BindFailure(r) PROVE MoneyIsCarried'
  BY <1>8 DEF BindFailure, IdIsFree, Goto
<1>9. ASSUME NEW r \in Requests, Settle(r) PROVE MoneyIsCarried'
  <2>1. /\ r \in Refunds /\ carrier[r] # None /\ Put(r, "SUCCEEDED")
        /\ UNCHANGED <<carrier, gateway>> /\ "SUCCEEDED" \in RowStatuses
    BY <1>9 DEF Settle, SettlesAreBound, RowStatuses
  <2>2. /\ \A q \in Requests : own'[q] = IF q = carrier[r] THEN "SUCCEEDED" ELSE own[q]
        /\ \A h \in Refunds : hook'[h] = IF h = r /\ carrier[r] = Hook THEN "SUCCEEDED" ELSE hook[h]
    BY <2>1, PutMoves
  <2>3. QED
    BY <2>1, <2>2
<1>10. ASSUME NEW r \in Requests, Crash(r) PROVE MoneyIsCarried'
  BY <1>10 DEF Crash, Goto
<1>11. ASSUME NEW r \in Requests, MatchPlaceholder(r) PROVE MoneyIsCarried'
  BY <1>11 DEF MatchPlaceholder, Placeholder, Matches, Alike, IdIsFree, RowStatus
<1>12. ASSUME NEW r \in Requests, FailPlaceholder(r) PROVE MoneyIsCarried'
  <2>1. gateway[r] = "none" /\ own' = [own EXCEPT ![r] = "FAILED"] /\ UNCHANGED <<gateway,
      hook, carrier>>
    BY <1>12 DEF FailPlaceholder, Placeholder, Matches
  <2>2. QED
    BY <2>1
<1>13. ASSUME NEW g \in Refunds, Progress(g) PROVE MoneyIsCarried'
  BY <1>13 DEF Progress
<1>14. ASSUME NEW g \in Refunds, NEW s \in {"pending", "processed", "failed"},
    WebhookKnown(g, s) PROVE MoneyIsCarried'
  <2>1. carrier[g] # None /\ Put(g, RowStatus(s)) /\ UNCHANGED <<carrier, gateway>>
    BY <1>14 DEF WebhookKnown
  <2>2. RowStatus(s) \in RowStatuses
    BY DEF RowStatus, RowStatuses
  <2>3. /\ \A q \in Requests : own'[q] = IF q = carrier[g] THEN RowStatus(s) ELSE own[q]
        /\ \A h \in Refunds : hook'[h] = IF h = g /\ carrier[g] = Hook THEN RowStatus(s) ELSE hook[h]
    BY <2>1, <2>2, PutMoves
  <2>4. RowStatus(s) = IF gateway[g] = "processed" THEN "SUCCEEDED" ELSE "FAILED"
    BY <1>14 DEF WebhookKnown, Reports, RowStatus
  <2>5. gateway[g] # "none" /\ (gateway[g] \in Sent => Live(RowStatus(s)))
    BY <1>14, <2>4 DEF WebhookKnown, Reports, RowStatus
  <2>6. QED
    BY <2>1, <2>3, <2>5
<1>15. ASSUME NEW g \in Refunds, NEW s \in {"pending", "processed", "failed"},
    WebhookUnknown(g, s) PROVE MoneyIsCarried'
  BY <1>15 DEF WebhookUnknown, Reports, IdIsFree, RowStatus, TakeBack, RestoreCredits
<1>16. ASSUME NEW g \in Refunds, PollRow(g) PROVE MoneyIsCarried'
  <2>1. carrier[g] # None /\ Put(g, RowStatus(gateway[g])) /\ UNCHANGED <<carrier, gateway>>
    BY <1>16 DEF PollRow
  <2>2. RowStatus(gateway[g]) \in RowStatuses
    BY DEF RowStatus, RowStatuses
  <2>3. /\ \A q \in Requests : own'[q] = IF q = carrier[g] THEN RowStatus(gateway[g]) ELSE own[q]
        /\ \A h \in Refunds : hook'[h] = IF h = g /\ carrier[g] = Hook THEN RowStatus(gateway[g]) ELSE hook[h]
    BY <2>1, <2>2, PutMoves
  <2>4. RowStatus(gateway[g]) = IF gateway[g] = "processed" THEN "SUCCEEDED" ELSE "FAILED"
    BY <1>16 DEF PollRow, Polled, RowStatus
  <2>5. gateway[g] # "none" /\ (gateway[g] \in Sent => Live(RowStatus(gateway[g])))
    BY <1>16, <2>4 DEF PollRow, Polled, RowStatus
  <2>6. QED
    BY <2>1, <2>3, <2>5
<1>17. ASSUME NEW g \in Refunds, CascadeBackstop(g) PROVE MoneyIsCarried'
  BY <1>17 DEF CascadeBackstop, StatusOf, Cascade, Claimed, TakeBack
<1>18. ASSUME NEW g \in Refunds, NEW a \in 1 .. Amount, OperatorRefunds(g, a)
    PROVE MoneyIsCarried'
  BY <1>18 DEF OperatorRefunds
<1>19. ASSUME Dispute PROVE MoneyIsCarried'
  BY <1>19 DEF Dispute
<1>20. ASSUME ResolveDispute PROVE MoneyIsCarried'
  BY <1>20 DEF ResolveDispute
<1>21. CASE UNCHANGED vars
  BY <1>21 DEF vars
<1>22. QED
  BY <1>1, <1>2, <1>3, <1>4, <1>5, <1>6, <1>7, <1>8, <1>9, <1>10, <1>11,
     <1>12, <1>13, <1>14, <1>15, <1>16, <1>17, <1>18, <1>19, <1>20, <1>21
  DEF Next, RequestStep, Webhook


----------------------------------------------------------------------------
LEMMA InvariantStart == Init => IInv
<1> SUFFICES ASSUME Init PROVE IInv
  OBVIOUS
<1> USE AreRefunds DEF Init
<1>1. TypeOK
  <2>1. back \in [DOMAIN Legs -> Nat] /\ times \in [Refunds -> Nat]
    OBVIOUS
  <2>2. taken \in 0 .. Share /\ asked \in [Refunds -> 0 .. Amount]
    BY Ranges
  <2>3. QED
    BY <2>1, <2>2 DEF TypeOK, RequestSteps, RowStatuses
<1>2. SettlesAreBound /\ Places /\ Carriers
  BY DEF SettlesAreBound, Places, Carriers
<1>3. CascadesAreClaimed /\ MoneyIsCarried
  BY DEF CascadesAreClaimed, MoneyIsCarried, Sent
<1>4. QED
  BY <1>1, <1>2, <1>3 DEF IInv

LEMMA InvariantStep == IInv /\ [Next]_vars => IInv'
<1> SUFFICES ASSUME IInv, [Next]_vars PROVE IInv'
  OBVIOUS
<1> USE DEF IInv
<1>1. TypeOK' /\ SettlesAreBound' /\ Places'
  BY TypesArePreserved, SettlesStayBound, PlacesStay
<1>2. Carriers' /\ CascadesAreClaimed' /\ MoneyIsCarried'
  BY IdsStayApart, CascadesStayClaimed, MoneyStaysCarried
<1>3. QED
  BY <1>1, <1>2

LEMMA Invariance == Spec => []IInv
  BY InvariantStart, InvariantStep, PTL DEF Spec

----------------------------------------------------------------------------
\* The values of every variable stay what the columns and the gateway allow; the earning
\* never gives back more than the consultant's share.
THEOREM RefundTypes == Spec => []TypeOK
<1>1. IInv => TypeOK
  BY DEF IInv
<1>2. QED
  BY <1>1, Invariance, PTL

\* Whichever of the request, the event, the poll and the backstop settles a refund, and
\* under whichever of its rows, its money is taken back from earnings and legs once.
THEOREM CascadesOnce == Spec => []CascadedOnce
<1>1. IInv => CascadedOnce
  <2> SUFFICES ASSUME IInv, NEW g \in Refunds PROVE times[g] <= 1
    BY DEF CascadedOnce
  <2>1. times[g] \in Nat /\ (times[g] # 0 => times[g] = 1)
    BY DEF IInv, TypeOK, CascadesAreClaimed
  <2>2. QED
    BY <2>1
<1>2. QED
  BY <1>1, Invariance, PTL

\* However requests die and rows change hands, a refund the gateway has accepted counts
\* against the balance that the next request is checked with.
THEOREM MovingMoneyIsBooked == Spec => []MoneyIsBooked
<1>1. IInv => MoneyIsBooked
  BY AreRefunds DEF IInv, MoneyIsCarried, MoneyIsBooked, Booked
<1>2. QED
  BY <1>1, Invariance, PTL

\* The gateway's id of a refund, once on a row, stays on that row: the cascade is claimed
\* where the id is, so no later bind, event or match can open a second claim.
IdsAreFinal == [][\A g \in Refunds : carrier[g] # None => carrier'[g] = carrier[g]]_vars

\* Bind, event and both jobs write refundId only where no row has it.
THEOREM IdsStayOnTheirRow == Spec => IdsAreFinal
<1> DEFINE Kept == \A g \in Refunds : carrier[g] # None => carrier'[g] = carrier[g]
<1>1. ASSUME IInv, [Next]_vars PROVE Kept
  <2> USE <1>1, AreRefunds DEF IInv, TypeOK
  <2>1. ASSUME NEW r \in Requests, NEW a \in 1 .. Amount, RefundInternally(r, a) PROVE Kept
    <3>1. pc[r] = "check" /\ gateway[r] = "none" /\ carrier' = [carrier EXCEPT ![r] = r]
      BY <2>1 DEF RefundInternally, Places
    <3>2. carrier[r] = None
      BY <3>1 DEF Carriers
    <3>3. QED
      BY <3>1, <3>2
  <2>2. ASSUME NEW r \in Requests, Bind(r) \/ BindFailure(r) PROVE Kept
    BY <2>2 DEF Bind, BindFailure, IdIsFree
  <2>3. ASSUME NEW r \in Requests, MatchPlaceholder(r) PROVE Kept
    <3>1. PICK g \in Matches(r) : IF IdIsFree(g) THEN carrier' = [carrier EXCEPT ![g] = r]
                                                ELSE UNCHANGED carrier
      BY <2>3 DEF MatchPlaceholder
    <3>2. QED
      BY <3>1 DEF IdIsFree
  <2>4. ASSUME NEW g \in Refunds, NEW s \in {"pending", "processed", "failed"},
               WebhookUnknown(g, s)
        PROVE  Kept
    BY <2>4 DEF WebhookUnknown, IdIsFree
  <2>5. ASSUME NEW r \in Requests,
               \/ \E a \in 1 .. Amount : Check(r, a)
               \/ Reserve(r) \/ RefuseToReserve(r) \/ Submit(r) \/ Refuse(r) \/ Settle(r)
               \/ Crash(r) \/ FailPlaceholder(r)
        PROVE  UNCHANGED carrier
    BY <2>5 DEF Check, Reserve, RefuseToReserve, Submit, Refuse, Settle, Crash,
      FailPlaceholder, rows
  <2>6. ASSUME NEW g \in Refunds,
               \/ \E s \in {"pending", "processed", "failed"} : WebhookKnown(g, s)
               \/ Progress(g) \/ PollRow(g) \/ CascadeBackstop(g)
               \/ \E a \in 1 .. Amount : OperatorRefunds(g, a)
        PROVE  UNCHANGED carrier
    BY <2>6 DEF WebhookKnown, Progress, PollRow, CascadeBackstop, OperatorRefunds, rows
  <2>7. ASSUME Dispute \/ ResolveDispute \/ UNCHANGED vars PROVE UNCHANGED carrier
    BY <2>7 DEF Dispute, ResolveDispute, vars, rows
  <2>8. QED
    BY <2>1, <2>2, <2>3, <2>4, <2>5, <2>6, <2>7 DEF Next, RequestStep, Webhook
<1>2. QED
  BY <1>1, Invariance, PTL DEF Spec, IdsAreFinal
=============================================================================
