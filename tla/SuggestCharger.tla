--------------------------- MODULE SuggestCharger ---------------------------
(***************************************************************************)
(* SuggestChargerUseCase: the free half-hour slots of each charger, the    *)
(* 0/1 knapsack that buys charging time within the budget, and the order   *)
(* in which the chargers are shown.  Nothing is locked or reserved: the    *)
(* answer is a function of what was read.  Distances and prices are the    *)
(* price of a slot and the metric of a charger.                            *)
(***************************************************************************)
EXTENDS Integers, Sequences, FiniteSets, Listing

CONSTANTS
  Grid,      \* half-hour slots of the window are 0 .. Grid - 1
  Prices,    \* what a slot may cost
  Budgets,
  Spans,     \* bookings and sessions a charger may have: <<start, end>>
  Metrics    \* composite metric of a charger

ASSUME SuggestAssumption ==
  /\ Grid \in Nat
  /\ Prices \subseteq Nat \ {0} /\ Budgets \subseteq Nat \ {0}
  /\ Spans \subseteq Int \X Int /\ Metrics \subseteq Int

VARIABLES
  asked,    \* the chargers read, and the budget
  plan,     \* the slots chosen for each charger
  shown     \* the chargers in the order of the answer

suggestion == <<asked, plan, shown>>

Slots == 0 .. Grid - 1

\* A charger: what each slot costs, what it is booked for, the session it has (start and
\* scheduled end, none when they are equal), whether its state is available.
Chargers == [price : [Slots -> Prices], booked : SUBSET Spans, session : Spans \cup {<<0, 0>>},
             open : BOOLEAN, metric : Metrics]

Nothing == <<>>

\* A session that should be over is taken to last another slot.
EndOf(session) == IF session[2] < 1 THEN 1 ELSE session[2]

Overlaps(from, to, slot) == from < slot + 1 /\ to > slot

IsFree(c, slot) ==
  /\ \A b \in c.booked : ~Overlaps(b[1], b[2], slot)
  /\ c.session # <<0, 0>> => ~Overlaps(c.session[1], EndOf(c.session), slot)

FreeSlots(c) == Listed({slot \in Slots : IsFree(c, slot)}, {p \in Slots \X Slots : p[1] <= p[2]})

-----------------------------------------------------------------------------
(* solveKnapsack: every slot is worth the same energy                      *)

\* Mutant of Table: an item may be taken again.
TableUnbounded(c, items, w) ==
  LET dp[i \in 0 .. Len(items)] ==
        IF i = 0 THEN [j \in 0 .. w |-> 0]
        ELSE LET p == c.price[items[i]]
                 above == dp[i - 1]
                 row[j \in 0 .. w] == IF p <= j /\ row[j - p] + 1 > above[j] THEN row[j - p] + 1 ELSE above[j]
             IN row
  IN dp

\* The best that the first i items give for j: row by row.
Table(c, items, w) ==
  LET dp[i \in 0 .. Len(items)] ==
        IF i = 0 THEN [j \in 0 .. w |-> 0]
        ELSE LET p == c.price[items[i]]
                 above == dp[i - 1]
             IN [j \in 0 .. w |-> IF p <= j /\ above[j - p] + 1 > above[j] THEN above[j - p] + 1 ELSE above[j]]
  IN dp

\* From the last item back: whoever changed the table is taken and paid.
Taken(c, items, w) ==
  LET dp == Table(c, items, w)
      back[k \in 0 .. Len(items)] ==
        IF k = 0 THEN [left |-> w, slots |-> {}]
        ELSE LET r == back[k - 1]
                 i == Len(items) + 1 - k
             IN IF dp[i][r.left] = dp[i - 1][r.left] THEN r
                ELSE [left |-> r.left - c.price[items[i]], slots |-> r.slots \cup {items[i]}]
  IN back[Len(items)].slots

Plan(c, w) == Taken(c, FreeSlots(c), w)

-----------------------------------------------------------------------------
(* The order of the answer                                                 *)

FirstFree(c) == FreeSlots(c)[1]

IsAvailableNow(c) == FirstFree(c) = 0 /\ c.session = <<0, 0>> /\ c.open

\* Chargers that are free now come first, then a shorter wait, then a better metric.  The
\* fifteen minutes of difference a wait must have are less than a slot.
Before(a, b) ==
  LET wait == FirstFree(a) - FirstFree(b) IN
  IF IsAvailableNow(a) # IsAvailableNow(b) THEN IsAvailableNow(a)
  ELSE IF wait # 0 THEN wait < 0
  ELSE a.metric < b.metric

\* Of equal ones the one read first.
Sorted(list, S) ==
  LET Earlier(i, j) == Before(list[i], list[j]) \/ (~Before(list[j], list[i]) /\ i <= j)
  IN Listed(S, {p \in S \X S : Earlier(p[1], p[2])})

\* Chargers that are free now leave out the others.
Candidates(list, S) ==
  LET now == {i \in S : IsAvailableNow(list[i])}
  IN IF now = {} THEN S ELSE now

-----------------------------------------------------------------------------
\* Chargers that are asked about have the price, or the order, at issue.
SuggestInit ==
  /\ asked \in [chargers : Seq(Chargers), budget : Budgets]
  /\ plan = Nothing
  /\ shown = Nothing

\* Every charger is scored on its own.
Score ==
  /\ plan = Nothing
  /\ plan' = [i \in DOMAIN asked.chargers |-> Plan(asked.chargers[i], asked.budget)]
  /\ UNCHANGED <<asked, shown>>

\* A charger for which nothing can be bought is left out.
Rank ==
  /\ plan # Nothing /\ shown = Nothing
  /\ LET order == Sorted(asked.chargers, Candidates(asked.chargers, {i \in DOMAIN plan : plan[i] # {}}))
     IN shown' = [k \in DOMAIN order |-> asked.chargers[order[k]]]
  /\ UNCHANGED <<asked, plan>>

SuggestNext == Score \/ Rank

SuggestSpec == SuggestInit /\ [][SuggestNext]_suggestion

-----------------------------------------------------------------------------
(* Properties.                                                             *)

CostOf(c, S) ==
  LET sum[n \in 0 .. Grid] == IF n = 0 THEN 0 ELSE sum[n - 1] + (IF n - 1 \in S THEN c.price[n - 1] ELSE 0)
  IN sum[Grid]

\* The plans and the answer are about the chargers asked for.
SuggestTypeOK ==
  /\ plan # Nothing => \A i \in DOMAIN plan : plan[i] \subseteq Slots
  /\ \A k \in DOMAIN shown : \E i \in DOMAIN asked.chargers : shown[k] = asked.chargers[i]

\* The slots chosen can be paid and are free, and no other free slots that can be paid are
\* more; when a charger is free now, only such chargers are shown, and otherwise all that
\* have a slot, whoever waits longer or costs more for the same wait after the others.
SuggestionIsBest ==
  /\ plan # Nothing =>
       \A i \in DOMAIN plan :
         LET c == asked.chargers[i]
             free == {s \in Slots : /\ \A b \in c.booked : s + 1 <= b[1] \/ b[2] <= s
                                    /\ c.session = <<0, 0>> \/ s + 1 <= c.session[1] \/ EndOf(c.session) <= s}
         IN /\ plan[i] \subseteq free /\ CostOf(c, plan[i]) <= asked.budget
            /\ \A S \in SUBSET free : CostOf(c, S) <= asked.budget => Cardinality(S) <= Cardinality(plan[i])
  /\ \A j, k \in DOMAIN shown :
       j < k => /\ IsAvailableNow(shown[j]) <=> IsAvailableNow(shown[k])
                /\ \/ FirstFree(shown[j]) < FirstFree(shown[k])
                   \/ FirstFree(shown[j]) = FirstFree(shown[k]) /\ shown[j].metric <= shown[k].metric
=============================================================================
