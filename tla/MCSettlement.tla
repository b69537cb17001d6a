---------------------------- MODULE MCSettlement ----------------------------
(* The bill of a session, the debt of a user, the virtual queue and the       *)
(* suggestions share no row: a behaviour is one of the four.                  *)
EXTENDS SessionBilling, Arrears, VirtualQueue, SuggestCharger, TLC

CONSTANTS bk, wi, gu, b1, b2, c1, c2, r1, d1, d2, t1, iam, ses, e1, e2, e3, e4, ca, cb

VARIABLE part

MCAmount == d1 :> 2 @@ d2 :> 3 @@ t1 :> 1
MCPost == e1 :> ca @@ e2 :> ca @@ e3 :> ca @@ e4 :> cb
MCScore == e1 :> 3 @@ e2 :> 2 @@ e3 :> 4 @@ e4 :> 1
MCRank == e1 :> 1 @@ e2 :> 2 @@ e3 :> 3 @@ e4 :> 4
MCSpans == {<<0, 1>>, <<0, 2>>, <<1, 2>>}

\* One charger with any prices, or some that cost the same everywhere.
MCAny == [price : [Slots -> Prices], booked : SUBSET Spans, session : Spans \cup {<<0, 0>>}, open : {TRUE}, metric : {1}]
MCSome == [price : {[s \in Slots |-> 1]}, booked : {{}} \cup {{x} : x \in Spans}, session : {<<0, 0>>},
           open : BOOLEAN, metric : Metrics]
MCAsked ==
  \/ part # "suggest" /\ asked = Nothing
  \/ /\ part = "suggest"
     /\ \/ \E l \in [1 .. 1 -> MCAny], w \in Budgets : asked = [chargers |-> l, budget |-> w]
        \/ \E n \in 2 .. 3 : \E l \in [1 .. n -> MCSome] : asked = [chargers |-> l, budget |-> 2]
  
SettlementInit ==
  /\ BillingInit /\ ArrearsInit /\ QueueInit
  /\ part \in {"bill", "debt", "queue", "suggest"}
  /\ MCAsked /\ plan = Nothing /\ shown = Nothing

SettlementNext ==
  /\ UNCHANGED part
  /\ \/ part = "bill" /\ BillingNext /\ UNCHANGED <<arrears, queue, suggestion>>
     \/ part = "debt" /\ ArrearsNext /\ UNCHANGED <<billing, queue, suggestion>>
     \/ part = "queue" /\ QueueNext /\ UNCHANGED <<billing, arrears, suggestion>>
     \/ part = "suggest" /\ SuggestNext /\ UNCHANGED <<billing, arrears, queue>>

SettlementSpec == SettlementInit /\ [][SettlementNext]_<<billing, arrears, queue, suggestion, part>>

\* The tables of all four have their types.
SettlementTypeOK == BillingTypeOK /\ ArrearsTypeOK /\ QueueTypeOK /\ SuggestTypeOK

\* The heap stays a heap, and nobody is booked twice from it by one process:
\* priority-queue.service.ts, queue.use-case.ts.
QueueIsSound == HeapIsOrdered /\ ServedOnce

MCSymmetry == Permutations(Billers) \cup Permutations(Closers)

\* One session and two deliveries at a time; no debt is followed further in iam-service
\* once its handlers were torn; and of the queue's entries three have come by
\* QueueModule, one may have left, before a restart, and one been booked.
MCBegun == {s \in Stays : stay[s] # "active" \/ meter[s] > 0 \/ s \in closeKeys}
                \cup ({reader[w].stay : w \in Readers} \ {NoStay})
MCBusy == {w \in Billers : biller[w] # FreeBiller} \cup {<<w>> : w \in {v \in Closers : closer[v] # FreeCloser}}
                \cup {w \in Readers : reader[w] # FreeReader}
MCBound ==
  \/ part = "bill" /\ Cardinality(MCBegun) <= 1 /\ Cardinality(MCBusy) <= 2
  \/ part = "debt" /\ Iam \notin torn
  \/ /\ part = "queue"
     /\ Len(heap["booking"]) <= 1
     /\ Cardinality({e \in Entries : entry[e] \notin {"none", "waiting"}}) <= 1
     /\ Cardinality({e \in Entries : autoBooked[e] > 0}) <= 1
     /\ Cardinality(leaving) <= 1 /\ overread = {}
     /\ leaving # {} => starts = 1
  \/ part = "suggest"
=============================================================================
