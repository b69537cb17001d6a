------------------------ MODULE OutboxDelivery_proofs ------------------------
(***************************************************************************)
(* Proofs about OutboxDelivery, for any events, publisher runs, queues and *)
(* handlers, any databases behind the queues and any retry limit: types,   *)
(* what rows, copies, marks and effects say of each other, the safety      *)
(* properties the run checks, and last that every step is one of the steps *)
(* of AtLeastOnce, or changes nothing which that promise looks at.         *)
(***************************************************************************)
EXTENDS OutboxDelivery, FiniteSetTheorems, TLAPS

-----------------------------------------------------------------------------
(* The inductive invariant.                                                *)

\* A copy of the event waits in the queue or is handled.
OnItsWay(q, e) == broker[q][e] > 0 \/ \E h \in Handlers : Handles(h, q, e)

\* No queue loses the event any more.
Safe(e) == \A q \in Queues : OnItsWay(q, e) \/ Key(q, e) \in marked

\* What a row of the outbox, or a run's copy of it, tells of its event.
RowFits(row, e) ==
  /\ row.retries <= failures[e] \/ failures[e] = MaxRetries
  /\ row.status = "failed" => failures[e] = MaxRetries
  /\ row.status = "processed" => Safe(e)

RowsFit == \A e \in Events : RowFits(outbox[e], e) /\ \A r \in Runs : RowFits(run[r].rows[e], e)

\* Rows that a run has read and not published are pending.
ReadIsPending ==
  \A r \in Runs, e \in Events :
    run[r].save # e /\ run[r].rows[e] # NoRow => run[r].rows[e].status = "pending"

\* The bound of the model holds for waiting and handled copies together.
CopiesBounded == \A q \in Queues, e \in Events : InFlight(q, e) <= MaxCopies

\* h has found the event unmarked and has not done all that it must.
PastCheck(h, q, e) == Handles(h, q, e) /\ handler[h].step \in {"mark", "act"}

\* A consumer acts after it marked the event, or marks it after it acted.
StepsInOrder ==
  \A h \in Handlers, q \in Queues, e \in Events :
    PastCheck(h, q, e) /\ handler[h].step # FirstStep(q) =>
      IF q \in MarksFirst THEN Key(q, e) \in marked ELSE effects[q][e] > 0

\* Where copies never met and nobody died halfway, one handler is past the check
\* at most, and none that could repeat what was done.
OneAtATime ==
  \A q \in Queues, e \in Events : <<q, e>> \notin met \cup halfway =>
    /\ \A g, h \in Handlers : PastCheck(g, q, e) /\ PastCheck(h, q, e) => g = h
    /\ effects[q][e] > 0 =>
         /\ effects[q][e] = 1
         /\ \A h \in Handlers : PastCheck(h, q, e) => q \notin MarksFirst /\ handler[h].step = "mark"
         /\ Key(q, e) \in marked \/ \E h \in Handlers : PastCheck(h, q, e)

\* An event that only this consumer can have marked is acted on, or just about to be.
MarkedIsHandled ==
  \A q \in Queues, e \in Events :
    Alone(q) /\ Key(q, e) \in marked /\ <<q, e>> \notin halfway =>
      \/ effects[q][e] > 0
      \/ q \in MarksFirst /\ \E h \in Handlers : PastCheck(h, q, e) /\ handler[h].step = "act"

IInv ==
  /\ TypeOK
  /\ CopiesBounded
  /\ RowsFit
  /\ ReadIsPending
  /\ StepsInOrder
  /\ OneAtATime
  /\ MarkedIsHandled

-----------------------------------------------------------------------------
(* Copies on their way.                                                    *)

HandlerStates == [queue : Queues, event : Events, step : Steps] \cup {Free}

HandlersOf(q, e) == {h \in Handlers : Handles(h, q, e)}

\* InFlight counts what OnItsWay says.
LEMMA InFlightCounts ==
  ASSUME NEW q \in Queues, NEW e \in Events, broker[q][e] \in Nat
  PROVE  /\ InFlight(q, e) \in Nat
         /\ broker[q][e] <= InFlight(q, e)
         /\ InFlight(q, e) > 0 <=> OnItsWay(q, e)
<1>1. IsFiniteSet(HandlersOf(q, e))
  BY ConstantsAssumption, FS_Subset DEF HandlersOf
<1>2. Cardinality(HandlersOf(q, e)) \in Nat
  BY <1>1, FS_CardinalityType
<1>3. Cardinality(HandlersOf(q, e)) = 0 <=> HandlersOf(q, e) = {}
  BY <1>1, FS_EmptySet
<1>4. InFlight(q, e) = broker[q][e] + Cardinality(HandlersOf(q, e))
  BY DEF InFlight, HandlersOf
<1>5. HandlersOf(q, e) = {} <=> ~\E h \in Handlers : Handles(h, q, e)
  BY DEF HandlersOf
<1> QED BY <1>2, <1>3, <1>4, <1>5 DEF OnItsWay

\* What a step of handler h makes of the copies of one queue and event.
LEMMA InFlightMoves ==
  ASSUME NEW q \in Queues, NEW e \in Events, NEW h \in Handlers,
         broker[q][e] \in Nat, broker'[q][e] \in Nat,
         \A g \in Handlers \ {h} : handler'[g] = handler[g],
         \/ broker'[q][e] = broker[q][e] /\ (Handles(h, q, e)' => Handles(h, q, e))
         \/ broker'[q][e] = broker[q][e] - 1 /\ ~Handles(h, q, e)
         \/ broker'[q][e] = broker[q][e] + 1 /\ ~Handles(h, q, e)' /\ Handles(h, q, e)
  PROVE  InFlight(q, e)' <= InFlight(q, e)
<1> DEFINE H == HandlersOf(q, e)
           K == HandlersOf(q, e)'
           n == Cardinality(H)
           k == Cardinality(K)
<1>1. IsFiniteSet(H) /\ IsFiniteSet(K)
  BY ConstantsAssumption, FS_Subset DEF HandlersOf
<1>2. n \in Nat /\ k \in Nat
  BY <1>1, FS_CardinalityType
<1>3. \A g \in Handlers \ {h} : g \in H <=> g \in K
  BY DEF HandlersOf, Handles
<1>4. (h \in H <=> Handles(h, q, e)) /\ (h \in K <=> Handles(h, q, e)') /\ H \subseteq Handlers /\ K \subseteq Handlers
  BY DEF HandlersOf
<1>5. InFlight(q, e) = broker[q][e] + n /\ InFlight(q, e)' = broker'[q][e] + k
  BY DEF InFlight, HandlersOf
<1> HIDE DEF H, K
<1>6. k <= n \/ (h \notin H /\ k = n + 1)
  <2>1. CASE h \in K /\ h \notin H
    <3>1. K = H \cup {h}
      BY <1>3, <1>4, <2>1
    <3> QED BY <1>1, <1>2, <2>1, <3>1, FS_AddElement
  <2>2. CASE h \notin K \/ h \in H
    <3>1. K \subseteq H
      BY <1>3, <1>4, <2>2
    <3> QED BY <1>1, <1>2, <3>1, FS_Subset
  <2> QED BY <2>1, <2>2
<1>7. h \in H /\ h \notin K => k = n - 1
  <2>1. ASSUME h \in H, h \notin K PROVE K = H \ {h}
    BY <1>3, <1>4, <2>1
  <2> QED BY <1>1, <1>2, <2>1, FS_RemoveElement
<1>8. CASE broker'[q][e] = broker[q][e] /\ (Handles(h, q, e)' => Handles(h, q, e))
  <2>1. K \subseteq H
    BY <1>3, <1>4, <1>8
  <2>2. k <= n
    BY <1>1, <2>1, FS_Subset
  <2> QED BY <1>2, <1>5, <1>8, <2>2
<1>9. CASE broker'[q][e] = broker[q][e] - 1 /\ ~Handles(h, q, e)
  BY <1>2, <1>5, <1>6, <1>9
<1>10. CASE broker'[q][e] = broker[q][e] + 1 /\ ~Handles(h, q, e)' /\ Handles(h, q, e)
  BY <1>2, <1>4, <1>5, <1>7, <1>10
<1> QED BY <1>8, <1>9, <1>10

\* A copy that is handled counts.
LEMMA HandledCounts ==
  ASSUME NEW q \in Queues, NEW e \in Events, NEW h \in Handlers, Handles(h, q, e), broker[q][e] \in Nat
  PROVE  broker[q][e] + 1 <= InFlight(q, e)
<1>1. IsFiniteSet(HandlersOf(q, e)) /\ HandlersOf(q, e) # {}
  BY ConstantsAssumption, FS_Subset DEF HandlersOf
<1>2. Cardinality(HandlersOf(q, e)) \in Nat /\ Cardinality(HandlersOf(q, e)) # 0
  BY <1>1, FS_CardinalityType, FS_EmptySet
<1> QED BY <1>2 DEF InFlight, HandlersOf

-----------------------------------------------------------------------------
(* The steps of a consumer, one by one.                                    *)

Handling(q, e, s) == [queue |-> q, event |-> e, step |-> s]

Becomes(h, state) == handler' = [handler EXCEPT ![h] = state]

Delivers(h, q, e) ==
  /\ handler[h] = Free /\ Becomes(h, Handling(q, e, "check"))
  /\ broker[q][e] > 0 /\ broker' = [broker EXCEPT ![q][e] = @ - 1]
  /\ UNCHANGED <<marked, effects, met, halfway>>

Skips(h, q, e) ==
  /\ handler[h] = Handling(q, e, "check") /\ Becomes(h, Free)
  /\ Key(q, e) \in marked
  /\ UNCHANGED <<broker, marked, effects, met, halfway>>

Passes(h, q, e) ==
  /\ handler[h] = Handling(q, e, "check") /\ Becomes(h, Handling(q, e, FirstStep(q)))
  /\ Key(q, e) \notin marked
  /\ met' = met \/ met' = met \cup {<<q, e>>}
  /\ <<q, e>> \in met' \/ \A g \in Handlers \ {h} : ~PastCheck(g, q, e)
  /\ UNCHANGED <<broker, marked, effects, halfway>>

MarksAndActs(h, q, e) ==
  /\ q \in MarksFirst
  /\ handler[h] = Handling(q, e, "mark") /\ Becomes(h, Handling(q, e, "act"))
  /\ marked' = marked \cup {Key(q, e)}
  /\ UNCHANGED <<broker, effects, met, halfway>>

MarksLast(h, q, e) ==
  /\ q \notin MarksFirst
  /\ handler[h] = Handling(q, e, "mark") /\ Becomes(h, Free)
  /\ marked' = marked \cup {Key(q, e)}
  /\ UNCHANGED <<broker, effects, met, halfway>>

GivesBack(h, q, e) ==
  /\ Becomes(h, Free)
  /\ broker' = [broker EXCEPT ![q][e] = @ + 1]
  /\ UNCHANGED <<marked, effects, met>>
  /\ \E s \in Steps :
       /\ handler[h] = Handling(q, e, s)
       /\ \/ halfway' = halfway /\ (s \in {"mark", "act"} /\ s # FirstStep(q) => s = "mark" /\ Key(q, e) \in marked)
          \/ halfway' = halfway \cup {<<q, e>>}

Effect(q, e) == effects' = [effects EXCEPT ![q][e] = IF @ < 2 THEN @ + 1 ELSE @]

ActsLast(h, q, e) ==
  /\ q \in MarksFirst
  /\ handler[h] = Handling(q, e, "act") /\ Becomes(h, Free)
  /\ Effect(q, e)
  /\ UNCHANGED <<broker, marked, met, halfway>>

ActsAndMarks(h, q, e) ==
  /\ q \notin MarksFirst
  /\ handler[h] = Handling(q, e, "act") /\ Becomes(h, Handling(q, e, "mark"))
  /\ Effect(q, e)
  /\ UNCHANGED <<broker, marked, met, halfway>>

ConsumerStep(h, q, e) ==
  \/ Delivers(h, q, e) \/ Skips(h, q, e) \/ Passes(h, q, e)
  \/ MarksAndActs(h, q, e) \/ MarksLast(h, q, e) \/ GivesBack(h, q, e)
  \/ ActsLast(h, q, e) \/ ActsAndMarks(h, q, e)

\* A handler that is at work handles a copy.
LEMMA HandlerWorks ==
  ASSUME TypeOK, NEW h \in Handlers, handler[h] # Free
  PROVE  /\ handler[h].queue \in Queues /\ handler[h].event \in Events /\ handler[h].step \in Steps
         /\ handler[h] = Handling(handler[h].queue, handler[h].event, handler[h].step)
  BY DEF TypeOK, Handling

\* What a consumer does is one of the steps above.
LEMMA ConsumerSteps ==
  ASSUME TypeOK, NEW h \in Handlers, Consume(h)
  PROVE  /\ \E q \in Queues, e \in Events : ConsumerStep(h, q, e)
         /\ UNCHANGED <<outbox, run, failures>>
<1> DEFINE q == handler[h].queue
           e == handler[h].event
<1>0. Steps = {"check", "mark", "act"}
  BY DEF Steps
<1>1. ASSUME NEW p \in Queues, NEW f \in Events, Deliver(h, p, f)
      PROVE  ConsumerStep(h, p, f) /\ UNCHANGED <<outbox, run, failures>>
  BY <1>1 DEF Deliver, ConsumerStep, Delivers, Becomes, Handling
<1>2. ASSUME NEW s \in Steps, handler[h] # Free
      PROVE  [handler[h] EXCEPT !.step = s] = Handling(q, e, s)
  <2>1. \A a, b, c : [Handling(a, b, c) EXCEPT !.step = s] = Handling(a, b, s)
    BY DEF Handling
  <2>2. handler[h] = Handling(q, e, handler[h].step)
    BY <1>2, HandlerWorks
  <2> HIDE DEF q, e
  <2> QED BY <2>1, <2>2
<1>3. ASSUME NEW s \in Steps, handler[h] # Free, handler' = [handler EXCEPT ![h].step = s]
      PROVE  Becomes(h, Handling(q, e, s))
  <2>1. handler' = [handler EXCEPT ![h] = [handler[h] EXCEPT !.step = s]]
    BY <1>3
  <2> QED BY <1>2, <1>3, <2>1 DEF Becomes
<1>4. CheckEvent(h) \/ MarkEvent(h) \/ Act(h) => handler[h] # Free
  BY DEF CheckEvent, MarkEvent, Act, Free
<1>5. FirstStep(q) \in Steps
  BY DEF FirstStep, Steps
<1>6. ASSUME CheckEvent(h) PROVE ConsumerStep(h, q, e) /\ UNCHANGED <<outbox, run, failures>>
  <2>1. handler[h] = Handling(q, e, "check")
    BY <1>4, <1>6, HandlerWorks DEF CheckEvent
  <2>2. CASE IsProcessed(q, e)
    BY <1>6, <2>1, <2>2 DEF CheckEvent, IsProcessed, Acknowledge, ConsumerStep, Skips, Becomes
  <2>3. CASE ~IsProcessed(q, e)
    <3>1. handler' = [handler EXCEPT ![h].step = FirstStep(q)]
      BY <1>6, <2>3 DEF CheckEvent
    <3>2. Becomes(h, Handling(q, e, FirstStep(q)))
      BY <1>3, <1>4, <1>5, <1>6, <3>1
    <3>3. met' = met \/ met' = met \cup {<<q, e>>}
      BY <1>6, <2>3 DEF CheckEvent
    <3>4. <<q, e>> \in met' \/ \A g \in Handlers \ {h} : ~PastCheck(g, q, e)
      BY <1>6, <2>3 DEF CheckEvent, PastCheck
    <3> QED BY <1>6, <2>1, <2>3, <3>2, <3>3, <3>4 DEF CheckEvent, IsProcessed, ConsumerStep, Passes
  <2> QED BY <2>2, <2>3
<1>7. ASSUME MarkEvent(h) PROVE ConsumerStep(h, q, e) /\ UNCHANGED <<outbox, run, failures>>
  <2>1. handler[h] = Handling(q, e, "mark")
    BY <1>4, <1>7, HandlerWorks DEF MarkEvent
  <2>2. CASE marked' = marked \cup {Key(q, e)} /\ UNCHANGED broker /\ q \in MarksFirst
             /\ handler' = [handler EXCEPT ![h].step = "act"]
    <3>1. Becomes(h, Handling(q, e, "act"))
      BY <1>0, <1>3, <1>4, <1>7, <2>2
    <3> QED BY <1>7, <2>1, <2>2, <3>1 DEF MarkEvent, ConsumerStep, MarksAndActs
  <2>3. CASE marked' = marked \cup {Key(q, e)} /\ UNCHANGED broker /\ q \notin MarksFirst /\ Acknowledge(h)
    BY <1>7, <2>1, <2>3 DEF MarkEvent, Acknowledge, ConsumerStep, MarksLast, Becomes
  <2>4. CASE Key(q, e) \in marked /\ Reject(h) /\ UNCHANGED marked
    BY <1>0, <1>7, <2>1, <2>4 DEF MarkEvent, Reject, ConsumerStep, GivesBack, Becomes
  <2> QED BY <1>7, <2>2, <2>3, <2>4 DEF MarkEvent
<1>8. ASSUME Act(h) PROVE ConsumerStep(h, q, e) /\ UNCHANGED <<outbox, run, failures>>
  <2>1. handler[h] = Handling(q, e, "act") /\ Effect(q, e)
    BY <1>4, <1>8, HandlerWorks DEF Act, Effect
  <2>2. CASE q \in MarksFirst
    BY <1>8, <2>1, <2>2 DEF Act, Acknowledge, ConsumerStep, ActsLast, Becomes
  <2>3. CASE q \notin MarksFirst
    <3>1. Becomes(h, Handling(q, e, "mark"))
      BY <1>0, <1>3, <1>4, <1>8, <2>3 DEF Act
    <3> QED BY <1>8, <2>1, <2>3, <3>1 DEF Act, ConsumerStep, ActsAndMarks
  <2> QED BY <2>2, <2>3
<1>9. ASSUME HandlerDies(h) PROVE ConsumerStep(h, q, e) /\ UNCHANGED <<outbox, run, failures>>
  <2>1. handler[h] = Handling(q, e, handler[h].step) /\ handler[h].step \in Steps
    BY <1>9, HandlerWorks DEF HandlerDies
  <2>2. \/ halfway' = halfway /\ ~(handler[h].step \in {"mark", "act"} /\ handler[h].step # FirstStep(q))
        \/ halfway' = halfway \cup {<<q, e>>}
    BY <1>9 DEF HandlerDies
  <2>3. GivesBack(h, q, e)
    BY <1>9, <2>1, <2>2 DEF HandlerDies, Reject, GivesBack, Becomes
  <2> QED BY <1>9, <2>3 DEF HandlerDies, ConsumerStep
<1> HIDE DEF q, e
<1>10. CheckEvent(h) \/ MarkEvent(h) \/ Act(h) \/ HandlerDies(h) => q \in Queues /\ e \in Events
  BY <1>4, HandlerWorks DEF HandlerDies, q, e
<1> QED BY <1>1, <1>6, <1>7, <1>8, <1>9, <1>10 DEF Consume

-----------------------------------------------------------------------------
(* The steps of the publisher, one by one.                                 *)

Columns == {"status", "retries"}

RunStates == [rows : [Events -> Rows], save : Events \cup {NoEvent}, dirty : SUBSET Columns]

RunBecomes(r, rows, s, d) == run' = [run EXCEPT ![r] = [rows |-> rows, save |-> s, dirty |-> d]]

ConsumersRest == UNCHANGED <<handler, marked, effects, met, halfway>>

\* A copy goes to every queue, or to none.
Copied == UNCHANGED broker \/ \E e \in Events : Accept(e)

Updated(r, e, x, s) == [run EXCEPT ![r].rows[e] = x, ![r].save = s]

\* A run whose row of e becomes x, and which will save s.
LEMMA RunUpdate ==
  ASSUME TypeOK, NEW r \in Runs, NEW e \in Events, NEW x, NEW s
  PROVE  Updated(r, e, x, s)
           = [run EXCEPT ![r] = [rows |-> [run[r].rows EXCEPT ![e] = x], save |-> s, dirty |-> run[r].dirty]]
<1> DEFINE f == [run EXCEPT ![r].rows[e] = x]
           rec == [rows |-> [run[r].rows EXCEPT ![e] = x], save |-> run[r].save, dirty |-> run[r].dirty]
           goal == [rows |-> [run[r].rows EXCEPT ![e] = x], save |-> s, dirty |-> run[r].dirty]
<1>1. run \in [Runs -> RunStates] /\ run[r] \in RunStates
  BY DEF TypeOK, RunStates, Columns
<1>2. f = [run EXCEPT ![r] = [run[r] EXCEPT !.rows = [run[r].rows EXCEPT ![e] = x]]]
  OBVIOUS
<1>3. [run[r] EXCEPT !.rows = [run[r].rows EXCEPT ![e] = x]] = rec
  BY <1>1 DEF RunStates
<1>4. f = [run EXCEPT ![r] = rec]
  BY <1>2, <1>3
<1>5. Updated(r, e, x, s) = [f EXCEPT ![r] = [f[r] EXCEPT !.save = s]]
  BY DEF Updated
<1>6. f[r] = rec
  BY <1>1, <1>4
<1>7. [rec EXCEPT !.save = s] = goal
  OBVIOUS
<1> HIDE DEF f, rec, goal
<1>8. [f EXCEPT ![r] = [f[r] EXCEPT !.save = s]] = [f EXCEPT ![r] = goal]
  BY <1>6, <1>7
<1>9. Updated(r, e, x, s) = [run EXCEPT ![r] = goal]
  BY <1>1, <1>4, <1>5, <1>8
<1> QED BY <1>9 DEF goal

\* What publish() leaves of the row of a run.
LEMMA PublishSteps ==
  ASSUME TypeOK, NEW r \in Runs, NEW e \in Events, Publish(r, e) \/ PublishFails(r, e)
  PROVE  /\ run[r].save = NoEvent /\ run[r].rows[e] # NoRow
         /\ outbox' = outbox /\ ConsumersRest
         /\ \/ /\ Accept(e) /\ failures' = failures
               /\ RunBecomes(r, [run[r].rows EXCEPT ![e] = AfterPublish(run[r].rows[e], TRUE)], e, {})
            \/ /\ Copied
               /\ failures' = [failures EXCEPT ![e] = IF @ < MaxRetries THEN @ + 1 ELSE @]
               /\ RunBecomes(r, [run[r].rows EXCEPT ![e] = AfterPublish(run[r].rows[e], FALSE)], e, {})
<1>1. run \in [Runs -> RunStates]
  BY DEF TypeOK, RunStates, Columns
<1>2. run[r].save = NoEvent => run[r].dirty = {}
  BY DEF TypeOK
<1>3. ASSUME NEW ok \in BOOLEAN, Published(r, e, ok), run[r].save = NoEvent
      PROVE  RunBecomes(r, [run[r].rows EXCEPT ![e] = AfterPublish(run[r].rows[e], ok)], e, {})
  <2> DEFINE x == AfterPublish(run[r].rows[e], ok)
  <2>1. run' = Updated(r, e, x, e)
    BY <1>3 DEF Published, Updated
  <2> HIDE DEF x
  <2>2. Updated(r, e, x, e)
          = [run EXCEPT ![r] = [rows |-> [run[r].rows EXCEPT ![e] = x], save |-> e, dirty |-> run[r].dirty]]
    BY RunUpdate
  <2>3. RunBecomes(r, [run[r].rows EXCEPT ![e] = x], e, {})
    BY <1>2, <1>3, <2>1, <2>2 DEF RunBecomes
  <2> QED BY <2>3 DEF x
<1>4. CASE Publish(r, e)
  BY <1>3, <1>4 DEF Publish, Publishes, ConsumersRest
<1>5. CASE PublishFails(r, e)
  BY <1>3, <1>5 DEF PublishFails, Publishes, ConsumersRest, Copied
<1> QED BY <1>4, <1>5

\* What a run keeps when the row it saves is done.
LEMMA DoneSteps ==
  ASSUME TypeOK, NEW r \in Runs, run[r].save \in Events, RowDone(r)
  PROVE  RunBecomes(r, [run[r].rows EXCEPT ![run[r].save] = NoRow], NoEvent, {})
<1> DEFINE e == run[r].save
           rows == [run[r].rows EXCEPT ![e] = NoRow]
           u == Updated(r, e, NoRow, NoEvent)
           rec == [rows |-> rows, save |-> NoEvent, dirty |-> run[r].dirty]
<1>1. run \in [Runs -> RunStates]
  BY DEF TypeOK, RunStates, Columns
<1>2. run' = [u EXCEPT ![r] = [u[r] EXCEPT !.dirty = {}]]
  BY DEF RowDone, Updated
<1>3. u = [run EXCEPT ![r] = rec]
  <2> HIDE DEF e
  <2>1. e \in Events
    BY DEF e
  <2> QED BY <2>1, RunUpdate
<1>4. [rec EXCEPT !.dirty = {}] = [rows |-> rows, save |-> NoEvent, dirty |-> {}]
  OBVIOUS
<1> HIDE DEF u, rows, rec
<1>5. u[r] = rec
  BY <1>1, <1>3
<1>6. RunBecomes(r, rows, NoEvent, {})
  BY <1>1, <1>2, <1>3, <1>4, <1>5 DEF RunBecomes
<1> QED BY <1>6 DEF rows

\* What save() finds when it reads the row back: the run is done with it, or
\* knows the columns to write.
LEMMA CompareSteps ==
  ASSUME TypeOK, NEW r \in Runs, CompareRow(r)
  PROVE  /\ \E e \in Events :
              /\ run[r].save = e
              /\ \/ RunBecomes(r, [run[r].rows EXCEPT ![e] = NoRow], NoEvent, {})
                 \/ \E d \in SUBSET Columns : RunBecomes(r, run[r].rows, e, d)
         /\ UNCHANGED <<outbox, broker, failures>> /\ ConsumersRest
<1> DEFINE e == run[r].save
           d == Differs(run[r].rows[e], outbox[e])
<1>1. run \in [Runs -> RunStates] /\ run[r] \in RunStates
  BY DEF TypeOK, RunStates, Columns
<1>2. e \in Events
  BY <1>1 DEF CompareRow, RunStates
<1>3. CASE RowDone(r)
  BY <1>2, <1>3, DoneSteps DEF CompareRow, ConsumersRest
<1>4. CASE run' = [run EXCEPT ![r].dirty = d]
  <2>1. d \in SUBSET Columns
    BY DEF Differs, Columns
  <2>2. run' = [run EXCEPT ![r] = [run[r] EXCEPT !.dirty = d]]
    BY <1>4
  <2> HIDE DEF d
  <2>3. [run[r] EXCEPT !.dirty = d] = [rows |-> run[r].rows, save |-> e, dirty |-> d]
    BY <1>1 DEF RunStates
  <2>4. RunBecomes(r, run[r].rows, e, d)
    BY <2>2, <2>3 DEF RunBecomes
  <2> QED BY <1>2, <2>1, <2>4 DEF CompareRow, ConsumersRest
<1>5. RowDone(r) \/ run' = [run EXCEPT ![r].dirty = d]
  BY DEF CompareRow
<1> QED BY <1>3, <1>4, <1>5

\* What save() writes of the row of a run.
LEMMA SaveSteps ==
  ASSUME TypeOK, NEW r \in Runs, SaveRow(r)
  PROVE  \E e \in Events :
           /\ run[r].save = e
           /\ outbox' = [outbox EXCEPT ![e] = Saved(run[r].rows[e], run[r].dirty, outbox[e])]
           /\ RunBecomes(r, [run[r].rows EXCEPT ![e] = NoRow], NoEvent, {})
           /\ UNCHANGED <<broker, failures>> /\ ConsumersRest
<1> DEFINE e == run[r].save
<1>1. run \in [Runs -> RunStates] /\ (run[r].dirty # {} => e # NoEvent)
  BY DEF TypeOK, RunStates, Columns
<1>2. e \in Events
  BY <1>1 DEF SaveRow, RunStates
<1>3. RunBecomes(r, [run[r].rows EXCEPT ![e] = NoRow], NoEvent, {})
  BY <1>2, DoneSteps DEF SaveRow
<1> QED BY <1>2, <1>3 DEF SaveRow, ConsumersRest

\* What a run reads when it starts.
LEMMA StartSteps ==
  ASSUME TypeOK, NEW r \in Runs, StartRun(r)
  PROVE  /\ RunBecomes(r, [e \in Events |-> IF outbox[e].status = "pending" THEN outbox[e] ELSE NoRow], NoEvent, {})
         /\ UNCHANGED <<outbox, broker, failures>> /\ ConsumersRest
<1>1. run \in [Runs -> RunStates]
  BY DEF TypeOK, RunStates, Columns
<1> DEFINE read == [e \in Events |-> IF outbox[e].status = "pending" THEN outbox[e] ELSE NoRow]
<1>2. run[r] = IdleRun /\ run' = [run EXCEPT ![r] = [run[r] EXCEPT !.rows = read]]
  BY DEF StartRun
<1> HIDE DEF read
<1>3. [IdleRun EXCEPT !.rows = read] = [rows |-> read, save |-> NoEvent, dirty |-> {}]
  BY DEF IdleRun
<1>4. RunBecomes(r, read, NoEvent, {})
  BY <1>2, <1>3 DEF RunBecomes
<1> QED BY <1>4 DEF StartRun, ConsumersRest, read

\* What is left of a run that dies.
LEMMA DieSteps ==
  ASSUME NEW r \in Runs, RunDies(r)
  PROVE  /\ RunBecomes(r, [e \in Events |-> NoRow], NoEvent, {})
         /\ UNCHANGED <<outbox, broker, failures>> /\ ConsumersRest
  BY DEF RunDies, RunBecomes, IdleRun, ConsumersRest

\* The publisher leaves the consumers alone.
LEMMA PublisherRests ==
  ASSUME TypeOK, (\E r \in Runs : PublisherRun(r)) \/ \E e \in Events : WriteEvent(e)
  PROVE  ConsumersRest /\ Copied
<1>1. ASSUME NEW e \in Events, WriteEvent(e) PROVE ConsumersRest /\ Copied
  BY <1>1 DEF WriteEvent, ConsumersRest, Copied
<1>2. ASSUME NEW r \in Runs, NEW e \in Events, Publish(r, e) \/ PublishFails(r, e) PROVE ConsumersRest /\ Copied
  BY <1>2, PublishSteps DEF Copied
<1>3. ASSUME NEW r \in Runs, StartRun(r) \/ RunDies(r) PROVE ConsumersRest /\ Copied
  BY <1>3, StartSteps, DieSteps DEF Copied
<1>4. ASSUME NEW r \in Runs, CompareRow(r) \/ SaveRow(r) PROVE ConsumersRest /\ Copied
  BY <1>4, CompareSteps, SaveSteps DEF Copied
<1> QED BY <1>1, <1>2, <1>3, <1>4 DEF PublisherRun

\* A row that was published is still a row, and not an empty one.
LEMMA AfterPublishType ==
  ASSUME NEW e \in Events, NEW row \in Rows, NEW ok \in BOOLEAN, row.status = "pending"
  PROVE  AfterPublish(row, ok) \in Rows /\ AfterPublish(row, ok) # NoRow
  BY ConstantsAssumption DEF Rows, AfterPublish, NoRow

\* A row that save() mixed of two rows is a row.
LEMMA SavedType ==
  ASSUME NEW x \in Rows, NEW y \in Rows, NEW d
  PROVE  Saved(x, d, y) \in Rows
  BY DEF Saved, Rows

-----------------------------------------------------------------------------
(* Types.                                                                  *)

\* The initial state satisfies the invariant.
LEMMA InitIInv == Init => IInv
<1> SUFFICES ASSUME Init PROVE IInv
  OBVIOUS
<1> USE ConstantsAssumption
<1>1. TypeOK
  BY DEF Init, TypeOK, Rows, NoRow, IdleRun
<1>2. \A h \in Handlers, q \in Queues, e \in Events : ~Handles(h, q, e)
  BY DEF Init, Handles, Free
<1>3. \A q \in Queues, e \in Events : broker[q][e] = 0 /\ effects[q][e] = 0
  BY DEF Init
<1>4. CopiesBounded
  BY <1>2, <1>3, InFlightCounts DEF CopiesBounded, OnItsWay
<1>5. RowsFit /\ ReadIsPending
  BY DEF Init, RowsFit, RowFits, ReadIsPending, NoRow, IdleRun
<1>6. StepsInOrder /\ OneAtATime
  BY <1>2, <1>3 DEF StepsInOrder, OneAtATime, PastCheck
<1>7. MarkedIsHandled
  BY DEF Init, MarkedIsHandled
<1> QED BY <1>1, <1>4, <1>5, <1>6, <1>7 DEF IInv

\* A step of a handler takes no other copy from its place.
LEMMA OtherCopyStays ==
  ASSUME TypeOK, NEW h \in Handlers, NEW q \in Queues, NEW e \in Events, ConsumerStep(h, q, e),
         NEW p \in Queues, NEW f \in Events, p # q \/ f # e
  PROVE  ~Handles(h, p, f) /\ broker'[p][f] = broker[p][f]
<1> USE DEF ConsumerStep, Delivers, Skips, Passes, MarksAndActs, MarksLast, GivesBack, ActsLast, ActsAndMarks
<1>1. handler[h] \in {Free} \cup {Handling(q, e, s) : s \in Steps}
  BY DEF Steps
<1>2. ~Handles(h, p, f)
  BY <1>1, ConstantsAssumption DEF Handles, Handling, Free
<1>3. broker'[p][f] = broker[p][f]
  BY DEF TypeOK
<1> QED BY <1>2, <1>3

\* A step of a handler is about one copy; nothing changes for the others.
LEMMA OthersRest ==
  ASSUME TypeOK, NEW h \in Handlers, NEW q \in Queues, NEW e \in Events, ConsumerStep(h, q, e)
  PROVE  /\ handler' \in [Handlers -> HandlerStates]
         /\ \A g \in Handlers \ {h} : handler'[g] = handler[g]
         /\ \A p \in Queues, f \in Events : <<p, f>> # <<q, e>> =>
              /\ ~Handles(h, p, f) /\ ~Handles(h, p, f)'
              /\ broker'[p][f] = broker[p][f] /\ effects'[p][f] = effects[p][f]
              /\ <<p, f>> \in met' <=> <<p, f>> \in met
              /\ <<p, f>> \in halfway' <=> <<p, f>> \in halfway
<1> USE DEF ConsumerStep, Delivers, Skips, Passes, MarksAndActs, MarksLast, GivesBack, ActsLast, ActsAndMarks
<1>1. PICK x \in {Free} \cup {Handling(q, e, s) : s \in Steps} : Becomes(h, x)
  BY DEF Steps, FirstStep
<1>2. handler[h] \in {Free} \cup {Handling(q, e, s) : s \in Steps}
  BY DEF Steps
<1>3. handler \in [Handlers -> HandlerStates]
  BY DEF TypeOK, HandlerStates
<1>4. x \in HandlerStates
  BY <1>1 DEF HandlerStates, Handling
<1>5. /\ handler' \in [Handlers -> HandlerStates] /\ handler'[h] = x
      /\ \A g \in Handlers \ {h} : handler'[g] = handler[g]
  BY <1>1, <1>3, <1>4 DEF Becomes
<1>6. ASSUME NEW p \in Queues, NEW f \in Events, <<p, f>> # <<q, e>>
      PROVE  ~Handles(h, p, f) /\ ~Handles(h, p, f)'
  BY <1>1, <1>2, <1>5, <1>6, ConstantsAssumption DEF Handles, Handling, Free
<1>7. ASSUME NEW p \in Queues, NEW f \in Events, <<p, f>> # <<q, e>>
      PROVE  broker'[p][f] = broker[p][f]
  BY <1>7 DEF TypeOK
<1>8. ASSUME NEW p \in Queues, NEW f \in Events, <<p, f>> # <<q, e>>
      PROVE  effects'[p][f] = effects[p][f]
  BY <1>8 DEF TypeOK, Effect
<1>9. met' \in {met, met \cup {<<q, e>>}} /\ halfway' \in {halfway, halfway \cup {<<q, e>>}}
  OBVIOUS
<1> QED BY <1>5, <1>6, <1>7, <1>8, <1>9

\* A step of a handler keeps the types and the bound.
LEMMA ConsumerType ==
  ASSUME TypeOK, CopiesBounded, NEW h \in Handlers, NEW q \in Queues, NEW e \in Events,
         ConsumerStep(h, q, e), UNCHANGED <<outbox, run, failures>>
  PROVE  TypeOK' /\ CopiesBounded'
<1>1. broker \in [Queues -> [Events -> 0 .. MaxCopies]] /\ effects \in [Queues -> [Events -> 0 .. 2]]
  BY DEF TypeOK
<1>2. ASSUME Handles(h, q, e) PROVE broker[q][e] + 1 \in 0 .. MaxCopies
  <2>1. broker[q][e] \in Nat /\ MaxCopies \in Nat
    BY <1>1, ConstantsAssumption
  <2>2. broker[q][e] + 1 <= InFlight(q, e) /\ InFlight(q, e) <= MaxCopies /\ InFlight(q, e) \in Nat
    BY <1>2, <2>1, HandledCounts, InFlightCounts DEF CopiesBounded
  <2> QED BY <2>1, <2>2
<1>3. /\ GivesBack(h, q, e) => Handles(h, q, e) /\ ~Handles(h, q, e)'
      /\ Delivers(h, q, e) => ~Handles(h, q, e)
      /\ ~Delivers(h, q, e) => Handles(h, q, e)
  <2>1. handler'[h] = Free => ~Handles(h, q, e)'
    BY ConstantsAssumption DEF Handles, Free
  <2>2. handler \in [Handlers -> HandlerStates]
    BY DEF TypeOK, HandlerStates
  <2> QED BY <2>1, <2>2, ConstantsAssumption
          DEF ConsumerStep, Delivers, Skips, Passes, MarksAndActs, MarksLast, GivesBack, ActsLast, ActsAndMarks,
              Becomes, Handles, Handling, Free
<1>4. broker' \in [Queues -> [Events -> 0 .. MaxCopies]]
  <2>1. CASE Delivers(h, q, e)
    BY <1>1, <2>1, ConstantsAssumption DEF Delivers
  <2>2. CASE GivesBack(h, q, e)
    BY <1>1, <1>2, <1>3, <2>2 DEF GivesBack
  <2>3. CASE broker' = broker
    BY <1>1, <2>3
  <2> QED BY <2>1, <2>2, <2>3 DEF ConsumerStep, Skips, Passes, MarksAndActs, MarksLast, ActsLast, ActsAndMarks
<1>5. effects' \in [Queues -> [Events -> 0 .. 2]]
  <2>1. CASE Effect(q, e)
    BY <1>1, <2>1 DEF Effect
  <2>2. CASE effects' = effects
    BY <1>1, <2>2
  <2> QED BY <2>1, <2>2
          DEF ConsumerStep, Delivers, Skips, Passes, MarksAndActs, MarksLast, GivesBack, ActsLast, ActsAndMarks
<1>6. /\ marked' \subseteq {Key(p, f) : p \in Queues, f \in Events}
      /\ met' \subseteq Queues \X Events /\ halfway' \subseteq Queues \X Events
  BY DEF TypeOK, ConsumerStep, Delivers, Skips, Passes, MarksAndActs, MarksLast, GivesBack, ActsLast, ActsAndMarks
<1>7. TypeOK'
  BY <1>4, <1>5, <1>6, OthersRest DEF TypeOK, HandlerStates
<1>8. ASSUME NEW p \in Queues, NEW f \in Events PROVE InFlight(p, f)' <= InFlight(p, f)
  <2>1. broker[p][f] \in Nat /\ broker'[p][f] \in Nat
    BY <1>1, <1>4, ConstantsAssumption
  <2>2. CASE <<p, f>> # <<q, e>>
    <3>1. broker'[p][f] = broker[p][f] /\ ~Handles(h, p, f)' /\ \A g \in Handlers \ {h} : handler'[g] = handler[g]
      BY <2>2, OthersRest
    <3> QED BY <2>1, <3>1, InFlightMoves
  <2>3. CASE <<p, f>> = <<q, e>>
    <3>1. \/ broker'[q][e] = broker[q][e] /\ (Handles(h, q, e)' => Handles(h, q, e))
          \/ broker'[q][e] = broker[q][e] - 1 /\ ~Handles(h, q, e)
          \/ broker'[q][e] = broker[q][e] + 1 /\ ~Handles(h, q, e)' /\ Handles(h, q, e)
      BY <1>1, <1>3
         DEF ConsumerStep, Delivers, Skips, Passes, MarksAndActs, MarksLast, GivesBack, ActsLast, ActsAndMarks
    <3>2. InFlight(q, e)' <= InFlight(q, e)
      BY <2>1, <2>3, <3>1, OthersRest, InFlightMoves
    <3> QED BY <2>3, <3>2
  <2> QED BY <2>2, <2>3
<1>9. CopiesBounded'
  <2> SUFFICES ASSUME NEW p \in Queues, NEW f \in Events PROVE InFlight(p, f)' <= MaxCopies
    BY DEF CopiesBounded
  <2>1. /\ InFlight(p, f) \in Nat /\ InFlight(p, f) <= MaxCopies /\ MaxCopies \in Nat
        /\ broker'[p][f] \in Nat
    BY <1>1, <1>4, ConstantsAssumption, InFlightCounts DEF CopiesBounded
  <2>2. InFlight(p, f)' \in Nat
    <3>1. IsFiniteSet({g \in Handlers : Handles(g, p, f)}')
      BY ConstantsAssumption, FS_Subset
    <3> QED BY <2>1, <3>1, FS_CardinalityType DEF InFlight
  <2> QED BY <1>8, <2>1, <2>2
<1> QED BY <1>7, <1>9

\* A step of the publisher keeps the types and the bound.
LEMMA PublisherType ==
  ASSUME IInv, (\E r \in Runs : PublisherRun(r)) \/ \E e \in Events : WriteEvent(e)
  PROVE  TypeOK' /\ CopiesBounded'
<1>0. /\ TypeOK /\ RowsFit /\ ReadIsPending /\ CopiesBounded
      /\ run \in [Runs -> RunStates] /\ outbox \in [Events -> Rows] /\ failures \in [Events -> 0 .. MaxRetries]
      /\ broker \in [Queues -> [Events -> 0 .. MaxCopies]]
  BY DEF IInv, TypeOK, RunStates, Columns
<1>1. ConsumersRest /\ Copied
  BY <1>0, PublisherRests
<1>2. ASSUME NEW e \in Events, Accept(e), NEW q \in Queues, NEW f \in Events
      PROVE  /\ broker'[q][f] \in 0 .. MaxCopies
             /\ InFlight(q, f)' <= MaxCopies
  <2>1. broker[q][f] \in Nat /\ MaxCopies \in Nat /\ InFlight(q, f) <= MaxCopies
    BY <1>0, ConstantsAssumption DEF CopiesBounded
  <2>2. InFlight(q, f) \in Nat /\ broker[q][f] <= InFlight(q, f)
    BY <2>1, InFlightCounts
  <2>3. CASE f = e
    <3>1. broker'[q][f] = broker[q][f] + 1 /\ InFlight(q, f) < MaxCopies
      BY <1>0, <1>2, <2>3 DEF Accept
    <3>2. HandlersOf(q, f)' = HandlersOf(q, f)
      BY <1>1 DEF ConsumersRest, HandlersOf, Handles
    <3>3. Cardinality(HandlersOf(q, f)) \in Nat
      BY ConstantsAssumption, FS_Subset, FS_CardinalityType DEF HandlersOf
    <3>4. /\ InFlight(q, f) = broker[q][f] + Cardinality(HandlersOf(q, f))
          /\ InFlight(q, f)' = broker'[q][f] + Cardinality(HandlersOf(q, f)')
      BY DEF InFlight, HandlersOf
    <3> QED BY <2>1, <2>2, <3>1, <3>2, <3>3, <3>4
  <2>4. CASE f # e
    <3>1. broker'[q][f] = broker[q][f]
      BY <1>0, <1>2, <2>4 DEF Accept
    <3>2. InFlight(q, f)' = InFlight(q, f)
      BY <1>1, <3>1 DEF ConsumersRest, InFlight, Handles
    <3> QED BY <1>0, <2>1, <3>1, <3>2
  <2> QED BY <2>3, <2>4
<1>3. broker' \in [Queues -> [Events -> 0 .. MaxCopies]] /\ CopiesBounded'
  <2>1. CASE UNCHANGED broker
    BY <1>0, <1>1, <2>1 DEF ConsumersRest, CopiesBounded, InFlight, Handles
  <2>2. ASSUME NEW e \in Events, Accept(e)
        PROVE  broker' \in [Queues -> [Events -> 0 .. MaxCopies]] /\ CopiesBounded'
    <3>1. broker' \in [Queues -> [Events -> 0 .. MaxCopies]]
      <4>1. \A q \in Queues : broker'[q] \in [Events -> 0 .. MaxCopies]
        <5> TAKE q \in Queues
        <5>1. broker'[q] = [broker[q] EXCEPT ![e] = @ + 1]
          BY <2>2 DEF Accept
        <5>2. \A f \in Events : broker'[q][f] \in 0 .. MaxCopies
          BY <1>2, <2>2
        <5> QED BY <1>0, <5>1, <5>2
      <4> QED BY <2>2, <4>1 DEF Accept
    <3> QED BY <1>2, <2>2, <3>1 DEF CopiesBounded
  <2> QED BY <1>1, <2>1, <2>2 DEF Copied
<1>4. ASSUME NEW r \in Runs, NEW rows \in [Events -> Rows], NEW s \in Events \cup {NoEvent}, NEW d \in SUBSET Columns,
             s # NoEvent => rows[s] # NoRow, d # {} => s # NoEvent, RunBecomes(r, rows, s, d)
      PROVE  /\ run' \in [Runs -> RunStates]
             /\ \A q \in Runs : run'[q].save # NoEvent => run'[q].rows[run'[q].save] # NoRow
             /\ \A q \in Runs : run'[q].dirty # {} => run'[q].save # NoEvent
  <2>1. [rows |-> rows, save |-> s, dirty |-> d] \in RunStates
    BY DEF RunStates
  <2>2. run' \in [Runs -> RunStates]
    BY <1>0, <1>4, <2>1 DEF RunBecomes
  <2>3. ASSUME NEW q \in Runs
        PROVE  /\ run'[q].save # NoEvent => run'[q].rows[run'[q].save] # NoRow
               /\ run'[q].dirty # {} => run'[q].save # NoEvent
    <3>1. CASE q = r
      <4>1. run'[q] = [rows |-> rows, save |-> s, dirty |-> d]
        BY <1>0, <1>4, <3>1 DEF RunBecomes
      <4> QED BY <1>4, <4>1
    <3>2. CASE q # r
      <4>1. run'[q] = run[q]
        BY <1>0, <1>4, <3>2 DEF RunBecomes
      <4> QED BY <1>0, <4>1 DEF TypeOK
    <3> QED BY <3>1, <3>2
  <2> QED BY <2>2, <2>3
<1>5. ASSUME NEW r \in Runs, NEW rows \in [Events -> Rows], RunBecomes(r, rows, NoEvent, {})
       PROVE  /\ run' \in [Runs -> RunStates]
              /\ \A q \in Runs : run'[q].save # NoEvent => run'[q].rows[run'[q].save] # NoRow
              /\ \A q \in Runs : run'[q].dirty # {} => run'[q].save # NoEvent
  <2>1. PICK d \in SUBSET Columns : d = {}
    OBVIOUS
  <2>2. PICK s \in Events \cup {NoEvent} : s = NoEvent
    OBVIOUS
  <2>3. RunBecomes(r, rows, s, d)
    BY <1>5, <2>1, <2>2
  <2> QED BY <1>4, <2>1, <2>2, <2>3
<1> DEFINE Typed == /\ run' \in [Runs -> RunStates]
                    /\ \A q \in Runs : run'[q].save # NoEvent => run'[q].rows[run'[q].save] # NoRow
                    /\ \A q \in Runs : run'[q].dirty # {} => run'[q].save # NoEvent
                    /\ outbox' \in [Events -> Rows] /\ failures' \in [Events -> 0 .. MaxRetries]
<1>6. NoRow \in Rows
  BY ConstantsAssumption DEF NoRow, Rows
<1>7. ASSUME NEW e \in Events, WriteEvent(e) PROVE Typed
  <2>1. outbox' \in [Events -> Rows]
    BY <1>0, <1>7 DEF WriteEvent, Rows
  <2> QED BY <1>0, <1>7, <2>1 DEF WriteEvent, TypeOK
<1>8. ASSUME NEW r \in Runs, NEW e \in Events, Publish(r, e) \/ PublishFails(r, e) PROVE Typed
  <2> DEFINE row == run[r].rows[e]
  <2>1. row \in Rows /\ row.status = "pending" /\ run[r].rows \in [Events -> Rows]
    <3>1. run[r].save = NoEvent /\ row # NoRow
      BY <1>0, <1>8, PublishSteps
    <3> QED BY <1>0, <3>1, ConstantsAssumption DEF RunStates, ReadIsPending
  <2>2. PICK ok \in BOOLEAN : RunBecomes(r, [run[r].rows EXCEPT ![e] = AfterPublish(row, ok)], e, {})
    BY <1>0, <1>8, PublishSteps
  <2>3. AfterPublish(row, ok) \in Rows /\ AfterPublish(row, ok) # NoRow
    BY <2>1, AfterPublishType
  <2> DEFINE rows == [run[r].rows EXCEPT ![e] = AfterPublish(row, ok)]
  <2>4. rows \in [Events -> Rows] /\ rows[e] # NoRow
    BY <2>1, <2>3
  <2>5. failures' \in [Events -> 0 .. MaxRetries] /\ outbox' = outbox
    <3>1. \/ failures' = failures
          \/ failures' = [failures EXCEPT ![e] = IF @ < MaxRetries THEN @ + 1 ELSE @]
      BY <1>0, <1>8, PublishSteps
    <3>2. failures' \in [Events -> 0 .. MaxRetries]
      BY <1>0, <3>1, ConstantsAssumption
    <3> QED BY <1>0, <1>8, <3>2, PublishSteps
  <2> HIDE DEF rows, row
  <2>6. RunBecomes(r, rows, e, {})
    BY <2>2 DEF rows
  <2> QED BY <1>0, <1>4, <2>4, <2>5, <2>6
<1>9. ASSUME NEW r \in Runs, SaveRow(r) PROVE Typed
  <2>1. PICK e \in Events :
          /\ run[r].save = e
          /\ outbox' = [outbox EXCEPT ![e] = Saved(run[r].rows[e], run[r].dirty, outbox[e])]
          /\ RunBecomes(r, [run[r].rows EXCEPT ![e] = NoRow], NoEvent, {})
          /\ failures' = failures
    BY <1>0, <1>9, SaveSteps
  <2>2. run[r].rows \in [Events -> Rows]
    BY <1>0 DEF RunStates
  <2>3. Saved(run[r].rows[e], run[r].dirty, outbox[e]) \in Rows
    BY <1>0, <2>2, SavedType
  <2>4. [run[r].rows EXCEPT ![e] = NoRow] \in [Events -> Rows] /\ outbox' \in [Events -> Rows]
    BY <1>0, <1>6, <2>1, <2>2, <2>3
  <2>5. PICK rows \in [Events -> Rows] : RunBecomes(r, rows, NoEvent, {})
    BY <2>1, <2>4
  <2> QED BY <1>0, <1>5, <2>1, <2>4, <2>5
<1>10. ASSUME NEW r \in Runs, StartRun(r) \/ RunDies(r) PROVE Typed
  <2>1. PICK rows \in [Events -> Rows] : RunBecomes(r, rows, NoEvent, {})
    <3>1. /\ [e \in Events |-> IF outbox[e].status = "pending" THEN outbox[e] ELSE NoRow] \in [Events -> Rows]
          /\ [e \in Events |-> NoRow] \in [Events -> Rows]
      BY <1>0, <1>6
    <3> QED BY <1>0, <1>10, <3>1, StartSteps, DieSteps
  <2>2. outbox' = outbox /\ failures' = failures
    BY <1>0, <1>10, StartSteps, DieSteps
  <2> QED BY <1>0, <1>5, <2>1, <2>2
<1>11. ASSUME NEW r \in Runs, CompareRow(r) PROVE Typed
  <2>1. PICK e \in Events :
          /\ run[r].save = e
          /\ \/ RunBecomes(r, [run[r].rows EXCEPT ![e] = NoRow], NoEvent, {})
             \/ \E d \in SUBSET Columns : RunBecomes(r, run[r].rows, e, d)
    BY <1>0, <1>11, CompareSteps
  <2>2. run[r].rows \in [Events -> Rows] /\ [run[r].rows EXCEPT ![e] = NoRow] \in [Events -> Rows]
    BY <1>0, <1>6 DEF RunStates
  <2>3. e # NoEvent /\ run[r].rows[e] # NoRow
    BY <1>0, <2>1, ConstantsAssumption DEF TypeOK
  <2>4. outbox' = outbox /\ failures' = failures
    BY <1>0, <1>11, CompareSteps
  <2>5. ASSUME NEW rows \in [Events -> Rows], RunBecomes(r, rows, NoEvent, {}) PROVE Typed
    BY <1>0, <1>5, <2>4, <2>5
  <2>6. ASSUME NEW d \in SUBSET Columns, RunBecomes(r, run[r].rows, e, d) PROVE Typed
    <3>1. PICK rows \in [Events -> Rows] : rows = run[r].rows
      BY <2>2
    <3>2. PICK s \in Events \cup {NoEvent} : s = e
      OBVIOUS
    <3>3. RunBecomes(r, rows, s, d) /\ rows[s] # NoRow /\ s # NoEvent
      BY <2>3, <2>6, <3>1, <3>2
    <3>4. /\ run' \in [Runs -> RunStates]
          /\ \A q \in Runs : run'[q].save # NoEvent => run'[q].rows[run'[q].save] # NoRow
          /\ \A q \in Runs : run'[q].dirty # {} => run'[q].save # NoEvent
      BY <1>4, <3>3
    <3>5. outbox' \in [Events -> Rows] /\ failures' \in [Events -> 0 .. MaxRetries]
      BY <1>0, <2>4
    <3> QED BY <3>4, <3>5
  <2>7. CASE RunBecomes(r, [run[r].rows EXCEPT ![e] = NoRow], NoEvent, {})
    <3>1. PICK rows \in [Events -> Rows] : rows = [run[r].rows EXCEPT ![e] = NoRow]
      BY <2>2
    <3> HIDE DEF Typed
    <3> QED BY <2>5, <2>7, <3>1
  <2> HIDE DEF Typed
  <2> QED BY <2>1, <2>6, <2>7
<1>12. Typed
  BY <1>7, <1>8, <1>9, <1>10, <1>11 DEF PublisherRun
<1> HIDE DEF Typed
<1>13. TypeOK'
  BY <1>0, <1>1, <1>3, <1>12 DEF Typed, ConsumersRest, TypeOK, RunStates, Columns
<1> QED BY <1>3, <1>13

-----------------------------------------------------------------------------
(* The rows.                                                               *)

\* A copy that is on its way stays so until the event is marked.
LEMMA SafeStays ==
  ASSUME IInv, [Next]_vars, NEW e \in Events, Safe(e)
  PROVE  Safe(e)'
<1> SUFFICES ASSUME NEW q \in Queues PROVE OnItsWay(q, e)' \/ Key(q, e) \in marked'
  BY DEF Safe, Key
<1>0. /\ OnItsWay(q, e) \/ Key(q, e) \in marked
      /\ TypeOK /\ StepsInOrder /\ broker \in [Queues -> [Events -> 0 .. MaxCopies]]
  BY DEF Safe, IInv, TypeOK
<1>1. CASE (\E r \in Runs : PublisherRun(r)) \/ \E f \in Events : WriteEvent(f)
  <2>1. ConsumersRest /\ Copied
    BY <1>0, <1>1, PublisherRests
  <2>2. broker'[q][e] >= broker[q][e]
    BY <1>0, <2>1, ConstantsAssumption DEF Copied, Accept
  <2>3. broker[q][e] > 0 => broker'[q][e] > 0
    <3>1. CASE UNCHANGED broker
      BY <3>1
    <3>2. ASSUME NEW f \in Events, Accept(f) PROVE broker[q][e] > 0 => broker'[q][e] > 0
      BY <1>0, <3>2, ConstantsAssumption DEF Accept
    <3> QED BY <2>1, <3>1, <3>2 DEF Copied
  <2> QED BY <1>0, <2>1, <2>3 DEF ConsumersRest, OnItsWay, Handles
<1>2. ASSUME NEW h \in Handlers, Consume(h) PROVE OnItsWay(q, e)' \/ Key(q, e) \in marked'
  <2>1. PICK p \in Queues, f \in Events : ConsumerStep(h, p, f)
    BY <1>0, <1>2, ConsumerSteps
  <2>2. marked \subseteq marked'
    BY <2>1
       DEF ConsumerStep, Delivers, Skips, Passes, MarksAndActs, MarksLast, GivesBack, ActsLast, ActsAndMarks
  <2>3. CASE Key(q, e) \in marked
    BY <2>2, <2>3
  <2>4. CASE <<p, f>> # <<q, e>>
    <3>0. TypeOK /\ ConsumerStep(h, p, f)
      BY <1>0, <2>1
    <3>2. \A g \in Handlers \ {h} : handler'[g] = handler[g]
      BY <3>0, OthersRest
    <3>3. broker'[q][e] = broker[q][e] /\ ~Handles(h, q, e)
      BY <2>4, <3>0, OtherCopyStays
    <3>1. /\ broker'[q][e] = broker[q][e] /\ ~Handles(h, q, e)
          /\ \A g \in Handlers \ {h} : handler'[g] = handler[g]
      BY <2>4, <3>2, <3>3
    <3>4. \A g \in Handlers : Handles(g, q, e) => Handles(g, q, e)'
      BY <3>1 DEF Handles
    <3> QED BY <1>0, <2>2, <3>1, <3>4 DEF OnItsWay
  <2>5. CASE p = q /\ f = e
    <3>0. handler \in [Handlers -> HandlerStates]
      BY <1>0 DEF TypeOK, HandlerStates
    <3>1. CASE Delivers(h, q, e) \/ Passes(h, q, e) \/ MarksAndActs(h, q, e) \/ ActsAndMarks(h, q, e)
      <4>1. \E s : handler'[h] = Handling(q, e, s)
        BY <3>0, <3>1 DEF Delivers, Passes, MarksAndActs, ActsAndMarks, Becomes
      <4> QED BY <4>1 DEF Handling, Handles, OnItsWay
    <3>2. CASE Skips(h, q, e) \/ MarksLast(h, q, e)
      BY <3>2 DEF Skips, MarksLast
    <3>3. CASE GivesBack(h, q, e)
      <4>1. broker'[q][e] = broker[q][e] + 1 /\ broker[q][e] \in 0 .. MaxCopies
        BY <1>0, <3>3 DEF GivesBack
      <4> QED BY <4>1, ConstantsAssumption DEF OnItsWay
    <3>4. CASE ActsLast(h, q, e)
      <4>1. PastCheck(h, q, e) /\ handler[h].step # FirstStep(q)
        BY <3>4 DEF ActsLast, Handling, PastCheck, Handles, FirstStep
      <4> QED BY <1>0, <2>2, <3>4, <4>1 DEF StepsInOrder, ActsLast
    <3> QED BY <2>1, <2>5, <3>1, <3>2, <3>3, <3>4 DEF ConsumerStep
  <2> QED BY <2>4, <2>5
<1>3. CASE UNCHANGED vars
  BY <1>0, <1>3 DEF vars, OnItsWay, Handles
<1> QED BY <1>1, <1>2, <1>3 DEF Next

\* Failures are only counted up.
LEMMA FailuresGrow ==
  ASSUME IInv, [Next]_vars, NEW e \in Events
  PROVE  /\ failures[e] \in 0 .. MaxRetries /\ failures'[e] \in 0 .. MaxRetries
         /\ failures[e] <= failures'[e]
<1>0. TypeOK /\ failures[e] \in 0 .. MaxRetries /\ failures \in [Events -> 0 .. MaxRetries]
  BY DEF IInv, TypeOK
<1>1. ASSUME failures' = failures
      PROVE  failures'[e] \in 0 .. MaxRetries /\ failures[e] <= failures'[e]
  BY <1>0, <1>1, ConstantsAssumption
<1>2. ASSUME NEW r \in Runs, NEW f \in Events, Publish(r, f) \/ PublishFails(r, f)
      PROVE  failures'[e] \in 0 .. MaxRetries /\ failures[e] <= failures'[e]
  <2>1. \/ failures' = failures
        \/ failures' = [failures EXCEPT ![f] = IF @ < MaxRetries THEN @ + 1 ELSE @]
    BY <1>0, <1>2, PublishSteps
  <2> QED BY <1>0, <2>1, ConstantsAssumption
<1>3. ASSUME NEW r \in Runs, StartRun(r) \/ RunDies(r) \/ CompareRow(r) \/ SaveRow(r) PROVE failures' = failures
  BY <1>0, <1>3, StartSteps, DieSteps, CompareSteps, SaveSteps
<1>4. ASSUME NEW f \in Events, WriteEvent(f) PROVE failures' = failures
  BY <1>4 DEF WriteEvent
<1>5. ASSUME NEW h \in Handlers, Consume(h) PROVE failures' = failures
  BY <1>0, <1>5, ConsumerSteps
<1>6. ASSUME UNCHANGED vars PROVE failures' = failures
  BY <1>6 DEF vars
<1> QED BY <1>0, <1>1, <1>2, <1>3, <1>4, <1>5, <1>6 DEF Next, PublisherRun

\* A row that nobody writes goes on fitting.
LEMMA FitsStays ==
  ASSUME IInv, [Next]_vars, NEW e \in Events, NEW row \in Rows, RowFits(row, e)
  PROVE  RowFits(row, e)'
<1>1. /\ failures[e] \in 0 .. MaxRetries /\ failures'[e] \in 0 .. MaxRetries
      /\ failures[e] <= failures'[e]
  BY FailuresGrow
<1>2. row.retries \in Nat
  BY ConstantsAssumption DEF Rows
<1>3. row.status = "processed" => Safe(e)'
  BY SafeStays DEF RowFits
<1> QED BY <1>1, <1>2, <1>3, ConstantsAssumption DEF RowFits

\* An empty row says nothing.
LEMMA NoRowFits ==
  ASSUME IInv, [Next]_vars, NEW e \in Events
  PROVE  RowFits(NoRow, e)' /\ RowFits([NoRow EXCEPT !.status = "pending"], e)'
  BY FailuresGrow, ConstantsAssumption DEF RowFits, NoRow

\* A row that save() mixed of two rows that fit does so too: it has its status
\* from one of them, and its retry count.
LEMMA SavedFits ==
  ASSUME NEW e \in Events, NEW x, NEW y, NEW d, RowFits(x, e)', RowFits(y, e)'
  PROVE  \E z : z = Saved(x, d, y) /\ RowFits(z, e)'
<1>1. PICK z : z = Saved(x, d, y)
  OBVIOUS
<1>2. (z.status = x.status \/ z.status = y.status) /\ (z.retries = x.retries \/ z.retries = y.retries)
  BY <1>1 DEF Saved
<1> QED BY <1>1, <1>2 DEF RowFits

\* The row after publish() fits: a published event is in every queue, and one
\* that is given up has failed MAX_RETRIES times.
LEMMA PublishedFits ==
  ASSUME IInv, [Next]_vars, NEW r \in Runs, NEW e \in Events, Publish(r, e) \/ PublishFails(r, e)
  PROVE  \E x \in Rows :
           /\ RowFits(x, e)'
           /\ RunBecomes(r, [run[r].rows EXCEPT ![e] = x], e, {})
           /\ outbox' = outbox
<1>0. /\ TypeOK /\ RowsFit /\ ReadIsPending
      /\ run \in [Runs -> RunStates] /\ failures \in [Events -> 0 .. MaxRetries]
      /\ broker \in [Queues -> [Events -> 0 .. MaxCopies]]
  BY DEF IInv, TypeOK, RunStates, Columns
<1> DEFINE row == run[r].rows[e]
<1>1. row \in Rows /\ row.status = "pending" /\ (row.retries <= failures[e] \/ failures[e] = MaxRetries)
  <2>1. run[r].save = NoEvent /\ row # NoRow
    BY <1>0, PublishSteps
  <2> QED BY <1>0, <2>1, ConstantsAssumption DEF RunStates, ReadIsPending, RowsFit, RowFits
<1>2. failures[e] \in 0 .. MaxRetries
  BY <1>0
<1>3. CASE Accept(e) /\ RunBecomes(r, [run[r].rows EXCEPT ![e] = AfterPublish(row, TRUE)], e, {}) /\ failures' = failures
  <2>1. Safe(e)'
    <3>1. ASSUME NEW q \in Queues PROVE broker'[q][e] > 0
      <4>1. broker'[q][e] = broker[q][e] + 1 /\ broker[q][e] \in 0 .. MaxCopies
        BY <1>0, <1>3 DEF Accept
      <4> QED BY <4>1, ConstantsAssumption
    <3> QED BY <3>1 DEF Safe, OnItsWay
  <2>2. /\ AfterPublish(row, TRUE) \in Rows
        /\ AfterPublish(row, TRUE).status = "processed"
        /\ AfterPublish(row, TRUE).retries = row.retries
    BY <1>1 DEF AfterPublish, Rows
  <2>3. PICK x : x = AfterPublish(row, TRUE)
    OBVIOUS
  <2>4. RowFits(x, e)'
    BY <1>1, <1>3, <2>1, <2>2, <2>3 DEF RowFits
  <2> QED BY <1>0, <1>3, <2>2, <2>3, <2>4, PublishSteps
<1>4. CASE /\ RunBecomes(r, [run[r].rows EXCEPT ![e] = AfterPublish(row, FALSE)], e, {})
           /\ failures' = [failures EXCEPT ![e] = IF @ < MaxRetries THEN @ + 1 ELSE @]
  <2>1. failures'[e] = IF failures[e] < MaxRetries THEN failures[e] + 1 ELSE failures[e]
    BY <1>0, <1>4
  <2>2. AfterPublish(row, FALSE) \in Rows
    BY <1>1, AfterPublishType
  <2>3. /\ AfterPublish(row, FALSE).retries = row.retries + 1
        /\ AfterPublish(row, FALSE).status = IF row.retries + 1 >= MaxRetries THEN "failed" ELSE "pending"
    BY DEF AfterPublish
  <2>4. row.retries \in Nat /\ MaxRetries \in Nat
    BY <1>1, ConstantsAssumption DEF Rows
  <2> HIDE DEF row
  <2>5. PICK x : x = AfterPublish(row, FALSE)
    OBVIOUS
  <2>6. RowFits(x, e)'
    <3>1. x.retries = row.retries + 1 /\ (row.retries <= failures[e] \/ failures[e] = MaxRetries)
      BY <1>1, <2>3, <2>5 DEF row
    <3>2. x.status = IF x.retries >= MaxRetries THEN "failed" ELSE "pending"
      BY <2>3, <2>5
    <3>3. x.retries \in Nat /\ (x.retries <= failures'[e] \/ failures'[e] = MaxRetries) /\ failures'[e] <= MaxRetries
      BY <1>2, <2>1, <2>4, <3>1
    <3>4. failures'[e] \in Nat
      BY <1>2, <2>1, <2>4
    <3> QED BY <2>4, <3>2, <3>3, <3>4 DEF RowFits
  <2> QED BY <1>0, <1>4, <2>2, <2>5, <2>6, PublishSteps DEF row
<1> QED BY <1>0, <1>3, <1>4, PublishSteps

\* Every row of the outbox and every copy of a run goes on fitting, and what is
\* read and not published stays pending.
LEMMA NextRowsFit ==
  ASSUME IInv, [Next]_vars
  PROVE  RowsFit' /\ ReadIsPending'
<1>0. /\ TypeOK /\ RowsFit /\ ReadIsPending
      /\ run \in [Runs -> RunStates] /\ outbox \in [Events -> Rows]
  BY DEF IInv, TypeOK, RunStates, Columns
<1>1. ASSUME NEW e \in Events PROVE \E x \in Rows : x = outbox[e] /\ RowFits(x, e) /\ RowFits(x, e)'
  <2>1. PICK x \in Rows : x = outbox[e]
    BY <1>0
  <2>2. RowFits(x, e)
    BY <1>0, <2>1 DEF RowsFit
  <2> QED BY <2>1, <2>2, FitsStays
<1>2. ASSUME NEW r \in Runs, NEW e \in Events
      PROVE  \E x \in Rows : x = run[r].rows[e] /\ RowFits(x, e) /\ RowFits(x, e)'
  <2>1. PICK x \in Rows : x = run[r].rows[e]
    BY <1>0 DEF RunStates
  <2>2. RowFits(x, e)
    BY <1>0, <2>1 DEF RowsFit
  <2> QED BY <2>1, <2>2, FitsStays
<1> DEFINE OutboxFits == \A e \in Events : \E x : x = outbox'[e] /\ RowFits(x, e)'
           RunFits == \A r \in Runs, e \in Events : \E x : x = run'[r].rows[e] /\ RowFits(x, e)'
<1>3. ASSUME outbox' = outbox PROVE OutboxFits
  BY <1>1, <1>3
<1>4. ASSUME run' = run PROVE RunFits /\ ReadIsPending'
  BY <1>0, <1>2, <1>4 DEF ReadIsPending
<1>5. ASSUME NEW r \in Runs, NEW rows, NEW s, NEW d, RunBecomes(r, rows, s, d),
             \A e \in Events : \E x : x = rows[e] /\ RowFits(x, e)',
             \A e \in Events : s # e /\ rows[e] # NoRow => rows[e].status = "pending"
      PROVE  RunFits /\ ReadIsPending'
  <2>1. run'[r] = [rows |-> rows, save |-> s, dirty |-> d] /\ \A p \in Runs \ {r} : run'[p] = run[p]
    BY <1>0, <1>5 DEF RunBecomes
  <2>2. RunFits
    BY <1>2, <1>5, <2>1
  <2>3. ReadIsPending'
    BY <1>0, <1>5, <2>1 DEF ReadIsPending
  <2> QED BY <2>2, <2>3
<1>6. ASSUME NEW e \in Events, WriteEvent(e) PROVE OutboxFits /\ RunFits /\ ReadIsPending'
  <2>1. run' = run
    BY <1>6 DEF WriteEvent
  <2>2. ASSUME NEW f \in Events PROVE \E x : x = outbox'[f] /\ RowFits(x, f)'
    <3>1. CASE f = e
      <4>1. PICK y \in Rows : y = outbox[e] /\ RowFits(y, e)'
        BY <1>1
      <4>2. PICK x : x = [y EXCEPT !.status = "pending"]
        OBVIOUS
      <4>3. x = outbox'[e]
        BY <1>0, <1>6, <4>1, <4>2 DEF WriteEvent
      <4>4. x.status = "pending" /\ x.retries = y.retries
        BY <4>2 DEF Rows
      <4>5. RowFits(x, e)'
        BY <4>1, <4>4 DEF RowFits
      <4> QED BY <3>1, <4>3, <4>5
    <3>2. CASE f # e
      <4>1. outbox'[f] = outbox[f]
        BY <1>0, <1>6, <3>2 DEF WriteEvent
      <4> QED BY <1>1, <4>1
    <3> QED BY <3>1, <3>2
  <2> QED BY <1>4, <2>1, <2>2
<1>7. ASSUME NEW r \in Runs, NEW e \in Events, Publish(r, e) \/ PublishFails(r, e)
      PROVE  OutboxFits /\ RunFits /\ ReadIsPending'
  <2>1. PICK x \in Rows :
          RowFits(x, e)' /\ RunBecomes(r, [run[r].rows EXCEPT ![e] = x], e, {}) /\ outbox' = outbox
    BY <1>7, PublishedFits
  <2>2. PICK rows : rows = [run[r].rows EXCEPT ![e] = x]
    OBVIOUS
  <2>3. rows[e] = x /\ \A f \in Events \ {e} : rows[f] = run[r].rows[f]
    BY <1>0, <2>2 DEF RunStates
  <2>4. \A f \in Events : \E y : y = rows[f] /\ RowFits(y, f)'
    BY <1>2, <2>1, <2>3
  <2>5. run[r].save = NoEvent
    BY <1>0, <1>7, PublishSteps
  <2>6. \A f \in Events : e # f /\ rows[f] # NoRow => rows[f].status = "pending"
    BY <1>0, <2>3, <2>5, ConstantsAssumption DEF ReadIsPending
  <2> HIDE DEF RunFits, OutboxFits
  <2>7. RunBecomes(r, rows, e, {})
    BY <2>1, <2>2
  <2> QED BY <1>3, <1>5, <2>1, <2>4, <2>6, <2>7
<1>8. ASSUME NEW r \in Runs, NEW e \in Events, run[r].save = e,
             RunBecomes(r, [run[r].rows EXCEPT ![e] = NoRow], NoEvent, {})
      PROVE  RunFits /\ ReadIsPending'
  <2>1. PICK rows : rows = [run[r].rows EXCEPT ![e] = NoRow]
    OBVIOUS
  <2>2. rows[e] = NoRow /\ \A f \in Events \ {e} : rows[f] = run[r].rows[f]
    BY <1>0, <2>1 DEF RunStates
  <2>3. \A f \in Events : \E y : y = rows[f] /\ RowFits(y, f)'
    BY <1>2, <2>2, NoRowFits
  <2>4. \A f \in Events : NoEvent # f /\ rows[f] # NoRow => rows[f].status = "pending"
    BY <1>0, <1>8, <2>2 DEF ReadIsPending
  <2> HIDE DEF RunFits, OutboxFits
  <2>5. RunBecomes(r, rows, NoEvent, {})
    BY <1>8, <2>1
  <2> QED BY <1>5, <2>3, <2>4, <2>5
<1>9. ASSUME NEW r \in Runs, SaveRow(r) PROVE OutboxFits /\ RunFits /\ ReadIsPending'
  <2>1. PICK e \in Events :
          /\ run[r].save = e
          /\ outbox' = [outbox EXCEPT ![e] = Saved(run[r].rows[e], run[r].dirty, outbox[e])]
          /\ RunBecomes(r, [run[r].rows EXCEPT ![e] = NoRow], NoEvent, {})
    BY <1>0, <1>9, SaveSteps
  <2>2. /\ outbox'[e] = Saved(run[r].rows[e], run[r].dirty, outbox[e])
        /\ \A f \in Events \ {e} : outbox'[f] = outbox[f]
    BY <1>0, <2>1
  <2>3. PICK x : x = run[r].rows[e] /\ RowFits(x, e)'
    BY <1>2
  <2>4. PICK y : y = outbox[e] /\ RowFits(y, e)'
    BY <1>1
  <2>5. PICK d : d = run[r].dirty
    OBVIOUS
  <2>6. \E z : z = outbox'[e] /\ RowFits(z, e)'
    BY <2>2, <2>3, <2>4, <2>5, SavedFits
  <2>7. OutboxFits
    BY <1>1, <2>2, <2>6
  <2> HIDE DEF RunFits, OutboxFits
  <2> QED BY <1>8, <2>1, <2>7
<1>10. ASSUME NEW r \in Runs, CompareRow(r) PROVE OutboxFits /\ RunFits /\ ReadIsPending'
  <2>1. PICK e \in Events :
          /\ run[r].save = e
          /\ \/ RunBecomes(r, [run[r].rows EXCEPT ![e] = NoRow], NoEvent, {})
             \/ \E d \in SUBSET Columns : RunBecomes(r, run[r].rows, e, d)
    BY <1>0, <1>10, CompareSteps
  <2>2. outbox' = outbox
    BY <1>0, <1>10, CompareSteps
  <2>3. ASSUME NEW d, RunBecomes(r, run[r].rows, e, d) PROVE RunFits /\ ReadIsPending'
    <3>1. PICK rows : rows = run[r].rows
      OBVIOUS
    <3>2. \A f \in Events : \E y : y = rows[f] /\ RowFits(y, f)'
      BY <1>2, <3>1
    <3>3. \A f \in Events : e # f /\ rows[f] # NoRow => rows[f].status = "pending"
      BY <1>0, <2>1, <3>1 DEF ReadIsPending
    <3> HIDE DEF RunFits, OutboxFits
    <3>4. RunBecomes(r, rows, e, d)
      BY <2>3, <3>1
    <3> QED BY <1>5, <3>2, <3>3, <3>4
  <2> HIDE DEF RunFits, OutboxFits
  <2> QED BY <1>3, <1>8, <2>1, <2>2, <2>3
<1>11. ASSUME NEW r \in Runs, StartRun(r) PROVE OutboxFits /\ RunFits /\ ReadIsPending'
  <2>1. PICK rows : rows = [e \in Events |-> IF outbox[e].status = "pending" THEN outbox[e] ELSE NoRow]
    OBVIOUS
  <2>2. RunBecomes(r, rows, NoEvent, {}) /\ outbox' = outbox
    BY <1>0, <1>11, <2>1, StartSteps
  <2>3. \A f \in Events : \E y : y = rows[f] /\ RowFits(y, f)'
    BY <1>1, <2>1, NoRowFits
  <2>4. \A f \in Events : NoEvent # f /\ rows[f] # NoRow => rows[f].status = "pending"
    BY <2>1
  <2> HIDE DEF RunFits, OutboxFits
  <2> QED BY <1>3, <1>5, <2>2, <2>3, <2>4
<1>12. ASSUME NEW r \in Runs, RunDies(r) PROVE OutboxFits /\ RunFits /\ ReadIsPending'
  <2>1. PICK rows : rows = [e \in Events |-> NoRow]
    OBVIOUS
  <2>2. RunBecomes(r, rows, NoEvent, {}) /\ outbox' = outbox
    BY <1>12, <2>1, DieSteps
  <2>3. \A f \in Events : \E y : y = rows[f] /\ RowFits(y, f)'
    BY <2>1, NoRowFits
  <2>4. \A f \in Events : NoEvent # f /\ rows[f] # NoRow => rows[f].status = "pending"
    BY <2>1
  <2> HIDE DEF RunFits, OutboxFits
  <2> QED BY <1>3, <1>5, <2>2, <2>3, <2>4
<1>13. ASSUME (\E h \in Handlers : Consume(h)) \/ UNCHANGED vars PROVE outbox' = outbox /\ run' = run
  BY <1>0, <1>13, ConsumerSteps DEF vars
<1>14. OutboxFits /\ RunFits /\ ReadIsPending'
  BY <1>3, <1>4, <1>6, <1>7, <1>9, <1>10, <1>11, <1>12, <1>13 DEF Next, PublisherRun
<1>15. RowsFit'
  <2>1. \A e \in Events : RowFits(outbox[e], e)'
    BY <1>14 DEF RowFits
  <2>2. \A e \in Events : \A r \in Runs : RowFits(run[r].rows[e], e)'
    BY <1>14 DEF RowFits
  <2> QED BY <2>1, <2>2 DEF RowsFit
<1> QED BY <1>14, <1>15

-----------------------------------------------------------------------------
(* What the consumers have done.                                           *)

\* A step of a handler about one copy leaves who works on the others as it is,
\* and what is marked, done, met or left halfway stays so.
LEMMA OthersGoOn ==
  ASSUME TypeOK, NEW h \in Handlers, NEW q \in Queues, NEW e \in Events, ConsumerStep(h, q, e)
  PROVE  /\ \A p \in Queues, f \in Events, g \in Handlers : <<g, p, f>> # <<h, q, e>> =>
              /\ g = h => ~PastCheck(g, p, f) /\ ~PastCheck(g, p, f)'
              /\ g # h => handler'[g] = handler[g] /\ (PastCheck(g, p, f)' <=> PastCheck(g, p, f))
         /\ marked' \in {marked, marked \cup {Key(q, e)}}
         /\ met \subseteq met' /\ halfway \subseteq halfway'
         /\ effects[q][e] > 0 => effects'[q][e] > 0
<1>1. ASSUME NEW g \in Handlers, g # h PROVE handler'[g] = handler[g]
  BY <1>1, OthersRest
<1>2. ASSUME NEW p \in Queues, NEW f \in Events, <<p, f>> # <<q, e>>
      PROVE  ~PastCheck(h, p, f) /\ ~PastCheck(h, p, f)'
  <2>1. ~Handles(h, p, f) /\ ~Handles(h, p, f)'
    BY <1>2, OthersRest
  <2> QED BY <2>1 DEF PastCheck
<1>3. ASSUME NEW g \in Handlers, NEW p \in Queues, NEW f \in Events, g # h
      PROVE  PastCheck(g, p, f)' <=> PastCheck(g, p, f)
  BY <1>1, <1>3 DEF PastCheck, Handles
<1>4. effects[q][e] > 0 => effects'[q][e] > 0
  <2>1. effects \in [Queues -> [Events -> 0 .. 2]]
    BY DEF TypeOK
  <2>2. ASSUME Effect(q, e) PROVE effects'[q][e] > 0
    BY <2>1, <2>2 DEF Effect
  <2> QED BY <2>2
          DEF ConsumerStep, Delivers, Skips, Passes, MarksAndActs, MarksLast, GivesBack, ActsLast, ActsAndMarks
<1>5. /\ marked' \in {marked, marked \cup {Key(q, e)}}
      /\ met \subseteq met' /\ halfway \subseteq halfway'
  BY DEF ConsumerStep, Delivers, Skips, Passes, MarksAndActs, MarksLast, GivesBack, ActsLast, ActsAndMarks
<1> QED BY <1>1, <1>2, <1>3, <1>4, <1>5

\* Where handler h stands before and after its step.
LEMMA OwnStep ==
  ASSUME TypeOK, NEW h \in Handlers, NEW q \in Queues, NEW e \in Events
  PROVE  /\ \A s : handler[h] = Handling(q, e, s) => (PastCheck(h, q, e) <=> s \in {"mark", "act"}) /\ handler[h].step = s
         /\ \A s : Becomes(h, Handling(q, e, s)) =>
              (PastCheck(h, q, e)' <=> s \in {"mark", "act"}) /\ handler'[h].step = s
         /\ handler[h] = Free => ~PastCheck(h, q, e)
         /\ Becomes(h, Free) => ~PastCheck(h, q, e)'
<1>1. handler \in [Handlers -> HandlerStates]
  BY DEF TypeOK, HandlerStates
<1>2. \A s : Becomes(h, Handling(q, e, s)) => handler'[h] = Handling(q, e, s)
  BY <1>1 DEF Becomes
<1>3. Becomes(h, Free) => handler'[h] = Free
  BY <1>1 DEF Becomes
<1>4. \A s : Handling(q, e, s).queue = q /\ Handling(q, e, s).event = e /\ Handling(q, e, s).step = s
  BY DEF Handling
<1>5. Free.step \notin {"mark", "act"}
  BY DEF Free
<1> QED BY <1>2, <1>3, <1>4, <1>5 DEF PastCheck, Handles

\* A consumer keeps to its order of marking and acting.
LEMMA ConsumerKeepsOrder ==
  ASSUME TypeOK, StepsInOrder, NEW h \in Handlers, NEW q \in Queues, NEW e \in Events, ConsumerStep(h, q, e)
  PROVE  StepsInOrder'
<1>0. ASSUME NEW p \in Queues, NEW f \in Events, <<p, f>> # <<q, e>>
      PROVE  effects'[p][f] = effects[p][f]
  BY <1>0, OthersRest
<1> SUFFICES ASSUME NEW g \in Handlers, NEW p \in Queues, NEW f \in Events,
                    PastCheck(g, p, f)', handler'[g].step # FirstStep(p)
             PROVE  IF p \in MarksFirst THEN Key(p, f) \in marked' ELSE effects'[p][f] > 0
  BY DEF StepsInOrder, FirstStep, Key
<1>1. CASE g # h
  <2>1. handler'[g] = handler[g] /\ PastCheck(g, p, f) /\ marked \subseteq marked'
    BY <1>1, OthersGoOn
  <2>2. IF p \in MarksFirst THEN Key(p, f) \in marked ELSE effects[p][f] > 0
    BY <2>1 DEF StepsInOrder
  <2>3. effects[p][f] > 0 => effects'[p][f] > 0
    <3>1. CASE <<p, f>> = <<q, e>>
      BY <3>1, OthersGoOn
    <3>2. CASE <<p, f>> # <<q, e>>
      BY <1>0, <3>2
    <3> QED BY <3>1, <3>2
  <2> QED BY <2>1, <2>2, <2>3
<1>2. CASE g = h
  <2>1. p = q /\ f = e
    BY <1>2, OthersGoOn
  <2>2. CASE MarksAndActs(h, q, e)
    BY <2>1, <2>2 DEF MarksAndActs
  <2>3. CASE ActsAndMarks(h, q, e)
    <3>1. effects \in [Queues -> [Events -> 0 .. 2]]
      BY DEF TypeOK
    <3>2. effects'[q][e] > 0
      BY <2>3, <3>1 DEF ActsAndMarks, Effect
    <3> QED BY <2>1, <2>3, <3>2 DEF ActsAndMarks
  <2>4. ~Becomes(h, Free) /\ ~Becomes(h, Handling(q, e, "check")) /\ ~Becomes(h, Handling(q, e, FirstStep(q)))
    BY <1>2, <2>1, OwnStep
  <2> QED BY <2>2, <2>3, <2>4
          DEF ConsumerStep, Delivers, Skips, Passes, MarksLast, GivesBack, ActsLast
<1> QED BY <1>1, <1>2

\* Where no copies met and nobody died halfway, nobody starts on an event that
\* another one is at, or that is done.
LEMMA ConsumerIsAlone ==
  ASSUME TypeOK, StepsInOrder, OneAtATime,
         NEW h \in Handlers, NEW q \in Queues, NEW e \in Events, ConsumerStep(h, q, e)
  PROVE  OneAtATime'
<1>0. met \subseteq met' /\ halfway \subseteq halfway' /\ marked \subseteq marked'
  BY OthersGoOn
<1>1. ASSUME NEW p \in Queues, NEW f \in Events, <<p, f>> # <<q, e>>, <<p, f>> \notin met' \cup halfway'
      PROVE  /\ \A i, j \in Handlers : PastCheck(i, p, f)' /\ PastCheck(j, p, f)' => i = j
             /\ effects'[p][f] > 0 =>
                  /\ effects'[p][f] = 1
                  /\ \A i \in Handlers : PastCheck(i, p, f)' => p \notin MarksFirst /\ handler'[i].step = "mark"
                  /\ Key(p, f) \in marked' \/ \E i \in Handlers : PastCheck(i, p, f)'
  <2>1. effects'[p][f] = effects[p][f] /\ <<p, f>> \notin met \cup halfway
    BY <1>0, <1>1, OthersRest
  <2>2. \A i \in Handlers : /\ PastCheck(i, p, f)' <=> PastCheck(i, p, f)
                            /\ PastCheck(i, p, f) => handler'[i] = handler[i]
    BY <1>1, OthersGoOn
  <2>3. /\ \A i, j \in Handlers : PastCheck(i, p, f) /\ PastCheck(j, p, f) => i = j
        /\ effects[p][f] > 0 =>
             /\ effects[p][f] = 1
             /\ \A i \in Handlers : PastCheck(i, p, f) => p \notin MarksFirst /\ handler[i].step = "mark"
             /\ Key(p, f) \in marked \/ \E i \in Handlers : PastCheck(i, p, f)
    BY <2>1 DEF OneAtATime
  <2> QED BY <1>0, <2>1, <2>2, <2>3
<1>2. ASSUME <<q, e>> \notin met' \cup halfway'
      PROVE  /\ \A i, j \in Handlers : PastCheck(i, q, e)' /\ PastCheck(j, q, e)' => i = j
             /\ effects'[q][e] > 0 =>
                  /\ effects'[q][e] = 1
                  /\ \A i \in Handlers : PastCheck(i, q, e)' => q \notin MarksFirst /\ handler'[i].step = "mark"
                  /\ Key(q, e) \in marked' \/ \E i \in Handlers : PastCheck(i, q, e)'
  <2>1. \A i \in Handlers \ {h} : (PastCheck(i, q, e)' <=> PastCheck(i, q, e)) /\ handler'[i] = handler[i]
    BY OthersGoOn
  <2>2. \A i, j \in Handlers : PastCheck(i, q, e) /\ PastCheck(j, q, e) => i = j
    BY <1>0, <1>2 DEF OneAtATime
  <2>3. effects[q][e] > 0 =>
             /\ effects[q][e] = 1
             /\ \A i \in Handlers : PastCheck(i, q, e) => q \notin MarksFirst /\ handler[i].step = "mark"
             /\ Key(q, e) \in marked \/ \E i \in Handlers : PastCheck(i, q, e)
    BY <1>0, <1>2 DEF OneAtATime
  <2>4. effects \in [Queues -> [Events -> 0 .. 2]] /\ effects[q][e] \in 0 .. 2
    BY DEF TypeOK
  <2>5. CASE Delivers(h, q, e) \/ Skips(h, q, e)
    <3>1. /\ ~PastCheck(h, q, e) /\ ~PastCheck(h, q, e)'
          /\ UNCHANGED <<marked, effects>>
      BY <2>5, OwnStep DEF Delivers, Skips
    <3> QED BY <2>1, <2>2, <2>3, <3>1
  <2>6. CASE Passes(h, q, e)
    <3>1. ~PastCheck(h, q, e) /\ Key(q, e) \notin marked /\ UNCHANGED <<marked, effects>>
      BY <2>6, OwnStep DEF Passes
    <3>2. \A i \in Handlers \ {h} : ~PastCheck(i, q, e)
      BY <1>2, <2>6 DEF Passes
    <3>3. ~(effects[q][e] > 0)
      BY <2>3, <3>1, <3>2
    <3> QED BY <2>1, <3>1, <3>2, <3>3
  <2>7. CASE MarksAndActs(h, q, e)
    <3>1. PastCheck(h, q, e) /\ q \in MarksFirst /\ UNCHANGED effects
      BY <2>7, OwnStep DEF MarksAndActs
    <3>2. ~(effects[q][e] > 0)
      BY <2>3, <3>1
    <3> QED BY <2>1, <2>2, <3>1, <3>2
  <2>8. CASE MarksLast(h, q, e)
    <3>1. ~PastCheck(h, q, e)' /\ Key(q, e) \in marked' /\ UNCHANGED effects
      BY <2>8, OwnStep DEF MarksLast
    <3> QED BY <2>1, <2>2, <2>3, <3>1
  <2>9. CASE GivesBack(h, q, e)
    <3>1. ~PastCheck(h, q, e)' /\ UNCHANGED <<marked, effects>>
      BY <2>9, OwnStep DEF GivesBack
    <3>2. ASSUME effects[q][e] > 0, Key(q, e) \notin marked PROVE \E i \in Handlers \ {h} : PastCheck(i, q, e)
      <4>1. PICK i \in Handlers : PastCheck(i, q, e)
        BY <2>3, <3>2
      <4>2. q \notin MarksFirst /\ handler[i].step = "mark"
        BY <2>3, <3>2, <4>1
      <4>3. ASSUME i = h PROVE FALSE
        <5>1. handler[h] = Handling(q, e, "mark")
          BY <2>9, <4>2, <4>3, OwnStep DEF GivesBack
        <5>2. FirstStep(q) # "mark"
          BY <4>2 DEF FirstStep
        <5>3. PICK s \in Steps :
                /\ handler[h] = Handling(q, e, s)
                /\ \/ s \in {"mark", "act"} /\ s # FirstStep(q) => s = "mark" /\ Key(q, e) \in marked
                   \/ halfway' = halfway \cup {<<q, e>>}
          BY <2>9 DEF GivesBack
        <5>4. s = "mark"
          BY <5>1, <5>3, OwnStep
        <5> QED BY <1>2, <3>2, <5>2, <5>3, <5>4
      <4> QED BY <4>1, <4>3
    <3> QED BY <2>1, <2>2, <2>3, <3>1, <3>2
  <2>10. CASE ActsLast(h, q, e)
    <3>1. PastCheck(h, q, e) /\ handler[h].step = "act" /\ ~PastCheck(h, q, e)' /\ q \in MarksFirst
      BY <2>10, OwnStep DEF ActsLast
    <3>2. effects[q][e] = 0
      BY <2>3, <2>4, <3>1
    <3>3. effects'[q][e] = 1
      BY <2>4, <2>10, <3>2 DEF ActsLast, Effect
    <3>4. Key(q, e) \in marked'
      BY <1>0, <3>1 DEF StepsInOrder, FirstStep
    <3> QED BY <2>1, <2>2, <3>1, <3>3, <3>4
  <2>11. CASE ActsAndMarks(h, q, e)
    <3>1. /\ PastCheck(h, q, e) /\ handler[h].step = "act" /\ q \notin MarksFirst
          /\ PastCheck(h, q, e)' /\ handler'[h].step = "mark"
      BY <2>11, OwnStep DEF ActsAndMarks
    <3>2. effects[q][e] = 0
      BY <2>3, <2>4, <3>1
    <3>3. effects'[q][e] = 1
      BY <2>4, <2>11, <3>2 DEF ActsAndMarks, Effect
    <3> QED BY <2>1, <2>2, <3>1, <3>3
  <2> QED BY <2>5, <2>6, <2>7, <2>8, <2>9, <2>10, <2>11 DEF ConsumerStep
<1>3. \A p \in Queues, f \in Events :
        <<p, f>> \notin met' \cup halfway' =>
          /\ \A i, j \in Handlers : PastCheck(i, p, f)' /\ PastCheck(j, p, f)' => i = j
          /\ effects'[p][f] > 0 =>
               /\ effects'[p][f] = 1
               /\ \A i \in Handlers : PastCheck(i, p, f)' => p \notin MarksFirst /\ handler'[i].step = "mark"
               /\ Key(p, f) \in marked' \/ \E i \in Handlers : PastCheck(i, p, f)'
  BY <1>1, <1>2
<1> QED BY <1>3 DEF OneAtATime, Key

\* What a consumer marked by itself it has acted on, or is about to.
LEMMA ConsumerMarksRightly ==
  ASSUME TypeOK, StepsInOrder, MarkedIsHandled,
         NEW h \in Handlers, NEW q \in Queues, NEW e \in Events, ConsumerStep(h, q, e)
  PROVE  MarkedIsHandled'
<1>0. halfway \subseteq halfway' /\ marked' \in {marked, marked \cup {Key(q, e)}}
  BY OthersGoOn
<1>1. ASSUME NEW p \in Queues, NEW f \in Events, <<p, f>> # <<q, e>>,
             Alone(p), Key(p, f) \in marked', <<p, f>> \notin halfway'
      PROVE  \/ effects'[p][f] > 0
             \/ p \in MarksFirst /\ \E i \in Handlers : PastCheck(i, p, f)' /\ handler'[i].step = "act"
  <2>1. Key(p, f) \in marked
    <3>1. Key(p, f) # Key(q, e)
      BY <1>1 DEF Key, Alone
    <3> QED BY <1>0, <1>1, <3>1
  <2>2. \/ effects[p][f] > 0
        \/ p \in MarksFirst /\ \E i \in Handlers : PastCheck(i, p, f) /\ handler[i].step = "act"
    BY <1>0, <1>1, <2>1 DEF MarkedIsHandled
  <2>3. effects'[p][f] = effects[p][f]
    BY <1>1, OthersRest
  <2>4. \A i \in Handlers : PastCheck(i, p, f) => PastCheck(i, p, f)' /\ handler'[i] = handler[i]
    BY <1>1, OthersGoOn
  <2> QED BY <2>2, <2>3, <2>4
<1>2. ASSUME Alone(q), Key(q, e) \in marked', <<q, e>> \notin halfway'
      PROVE  \/ effects'[q][e] > 0
             \/ q \in MarksFirst /\ \E i \in Handlers : PastCheck(i, q, e)' /\ handler'[i].step = "act"
  <2>1. CASE MarksAndActs(h, q, e)
    BY <2>1, OwnStep DEF MarksAndActs
  <2>2. CASE MarksLast(h, q, e)
    <3>1. PastCheck(h, q, e) /\ handler[h].step = "mark" /\ q \notin MarksFirst
      BY <2>2, OwnStep DEF MarksLast
    <3>2. effects[q][e] > 0
      BY <3>1 DEF StepsInOrder, FirstStep
    <3> QED BY <3>2, OthersGoOn
  <2>3. CASE ActsLast(h, q, e) \/ ActsAndMarks(h, q, e)
    <3>1. effects \in [Queues -> [Events -> 0 .. 2]] /\ Effect(q, e)
      BY <2>3 DEF TypeOK, ActsLast, ActsAndMarks
    <3> QED BY <3>1 DEF Effect
  <2>4. CASE Delivers(h, q, e) \/ Skips(h, q, e) \/ Passes(h, q, e) \/ GivesBack(h, q, e)
    <3>1. Key(q, e) \in marked /\ UNCHANGED <<marked, effects>>
      BY <1>2, <2>4 DEF Delivers, Skips, Passes, GivesBack
    <3>2. \/ effects[q][e] > 0
          \/ q \in MarksFirst /\ \E i \in Handlers : PastCheck(i, q, e) /\ handler[i].step = "act"
      BY <1>0, <1>2, <3>1 DEF MarkedIsHandled
    <3>3. ASSUME q \in MarksFirst, PastCheck(h, q, e), handler[h].step = "act" PROVE FALSE
      <4>1. GivesBack(h, q, e)
        BY <2>4, <3>3, OwnStep DEF Delivers, Skips, Passes
      <4>2. PICK s \in Steps :
              /\ handler[h] = Handling(q, e, s)
              /\ \/ s \in {"mark", "act"} /\ s # FirstStep(q) => s = "mark" /\ Key(q, e) \in marked
                 \/ halfway' = halfway \cup {<<q, e>>}
        BY <4>1 DEF GivesBack
      <4>3. s = "act" /\ FirstStep(q) = "mark"
        BY <3>3, <4>2, OwnStep DEF FirstStep
      <4> QED BY <1>2, <4>2, <4>3
    <3>4. \A i \in Handlers \ {h} : PastCheck(i, q, e) => PastCheck(i, q, e)' /\ handler'[i] = handler[i]
      BY OthersGoOn
    <3> QED BY <3>1, <3>2, <3>3, <3>4
  <2> QED BY <2>1, <2>2, <2>3, <2>4 DEF ConsumerStep
<1>3. \A p \in Queues, f \in Events :
        Alone(p) /\ Key(p, f) \in marked' /\ <<p, f>> \notin halfway' =>
          \/ effects'[p][f] > 0
          \/ p \in MarksFirst /\ \E i \in Handlers : PastCheck(i, p, f)' /\ handler'[i].step = "act"
  BY <1>1, <1>2
<1> QED BY <1>3 DEF MarkedIsHandled, Key, Alone

-----------------------------------------------------------------------------
(* The invariant.                                                          *)

\* Every step keeps the invariant.
LEMMA NextIInv == IInv /\ [Next]_vars => IInv'
<1> SUFFICES ASSUME IInv, [Next]_vars PROVE IInv'
  OBVIOUS
<1>0. TypeOK /\ CopiesBounded /\ StepsInOrder /\ OneAtATime /\ MarkedIsHandled
  BY DEF IInv
<1>1. RowsFit' /\ ReadIsPending'
  BY NextRowsFit
<1>2. ASSUME ConsumersRest PROVE StepsInOrder' /\ OneAtATime' /\ MarkedIsHandled'
  <2>1. \A h \in Handlers, q \in Queues, e \in Events : PastCheck(h, q, e)' <=> PastCheck(h, q, e)
    BY <1>2 DEF ConsumersRest, PastCheck, Handles
  <2>2. UNCHANGED <<handler, marked, effects, met, halfway>>
    BY <1>2 DEF ConsumersRest
  <2>3. StepsInOrder'
    BY <1>0, <2>1, <2>2 DEF StepsInOrder, Key, FirstStep
  <2>4. OneAtATime'
    BY <1>0, <2>1, <2>2 DEF OneAtATime, Key
  <2>5. MarkedIsHandled'
    BY <1>0, <2>1, <2>2 DEF MarkedIsHandled, Key, Alone
  <2> QED BY <2>3, <2>4, <2>5
<1>3. CASE (\E r \in Runs : PublisherRun(r)) \/ \E e \in Events : WriteEvent(e)
  <2>1. TypeOK' /\ CopiesBounded'
    BY <1>3, PublisherType
  <2>2. ConsumersRest
    BY <1>0, <1>3, PublisherRests
  <2> QED BY <1>1, <1>2, <2>1, <2>2 DEF IInv
<1>4. ASSUME NEW h \in Handlers, Consume(h) PROVE IInv'
  <2>1. PICK q \in Queues, e \in Events : ConsumerStep(h, q, e)
    BY <1>0, <1>4, ConsumerSteps
  <2>2. UNCHANGED <<outbox, run, failures>>
    BY <1>0, <1>4, ConsumerSteps
  <2>3. TypeOK' /\ CopiesBounded'
    BY <1>0, <2>1, <2>2, ConsumerType
  <2>4. StepsInOrder' /\ OneAtATime' /\ MarkedIsHandled'
    BY <1>0, <2>1, ConsumerKeepsOrder, ConsumerIsAlone, ConsumerMarksRightly
  <2> QED BY <1>1, <2>3, <2>4 DEF IInv
<1>5. CASE UNCHANGED vars
  <2>1. ConsumersRest
    BY <1>5 DEF vars, ConsumersRest
  <2>2. TypeOK'
    BY <1>0, <1>5 DEF vars, TypeOK
  <2>3. CopiesBounded'
    BY <1>0, <1>5 DEF vars, CopiesBounded, InFlight, Handles
  <2> QED BY <1>1, <1>2, <2>1, <2>2, <2>3 DEF IInv
<1> QED BY <1>3, <1>4, <1>5 DEF Next

-----------------------------------------------------------------------------
(* The theorems.                                                           *)

\* What rows, copies, marks and effects say of each other holds in every state.
THEOREM DeliveryHolds == Spec => []IInv
  BY InitIInv, NextIInv, PTL DEF Spec

\* Rows, copies and handlers keep their types: a run saves only rows that it has
\* read, and writes only columns that it compared.
THEOREM TypeCorrect == Spec => []TypeOK
<1>1. IInv => TypeOK
  BY DEF IInv
<1> QED BY <1>1, DeliveryHolds, PTL

\* A processed event is never lost between the publisher and any queue: a copy
\* is on its way or the event is marked.
THEOREM ProcessedIsNotLostCorrect == Spec => []ProcessedIsNotLost
<1>1. ASSUME IInv PROVE ProcessedIsNotLost
  <2> SUFFICES ASSUME NEW e \in Events, NEW q \in Queues, outbox[e].status = "processed"
               PROVE  InFlight(q, e) > 0 \/ Key(q, e) \in marked
    BY DEF ProcessedIsNotLost
  <2>1. OnItsWay(q, e) \/ Key(q, e) \in marked
    BY <1>1 DEF IInv, RowsFit, RowFits, Safe
  <2>2. broker[q][e] \in Nat
    BY <1>1, ConstantsAssumption DEF IInv, TypeOK
  <2> QED BY <2>1, <2>2, InFlightCounts
<1> QED BY <1>1, DeliveryHolds, PTL

\* No event is given up before MAX_RETRIES calls of publish() have failed for it,
\* however the runs save over each other.
THEOREM GivesUpAfterMaxRetriesCorrect == Spec => []GivesUpAfterMaxRetries
<1>1. IInv => GivesUpAfterMaxRetries
  BY DEF IInv, RowsFit, RowFits, GivesUpAfterMaxRetries
<1> QED BY <1>1, DeliveryHolds, PTL

\* A consumer repeats itself only where two copies met or one died halfway.
THEOREM RepeatedOnlyIfCorrect == Spec => []RepeatedOnlyIf
<1>1. ASSUME IInv PROVE RepeatedOnlyIf
  <2> SUFFICES ASSUME NEW q \in Queues, NEW e \in Events, effects[q][e] > 1, <<q, e>> \notin met \cup halfway
               PROVE  FALSE
    BY DEF RepeatedOnlyIf
  <2>1. effects[q][e] \in 0 .. 2
    BY <1>1 DEF IInv, TypeOK
  <2>2. effects[q][e] > 0 => effects[q][e] = 1
    BY <1>1 DEF IInv, OneAtATime
  <2> QED BY <2>1, <2>2
<1> QED BY <1>1, DeliveryHolds, PTL

\* When all copies are dealt with, a consumer alone on its processed_events has
\* acted on the event, unless it died halfway.
THEOREM ArrivedIsHandledCorrect == Spec => []ArrivedIsHandled
<1>1. ASSUME IInv PROVE ArrivedIsHandled
  <2> SUFFICES ASSUME NEW q \in Queues, NEW e \in Events,
                      Alone(q), Arrived(q, e), <<q, e>> \notin halfway
               PROVE  effects[q][e] > 0
    BY DEF ArrivedIsHandled
  <2>1. broker[q][e] \in Nat
    BY <1>1, ConstantsAssumption DEF IInv, TypeOK
  <2>2. ~OnItsWay(q, e)
    BY <2>1, InFlightCounts DEF Arrived
  <2>3. Key(q, e) \in marked
    BY <1>1, <2>2 DEF IInv, RowsFit, RowFits, Safe, Arrived
  <2>4. \A h \in Handlers : ~PastCheck(h, q, e)
    BY <2>2 DEF OnItsWay, PastCheck
  <2> QED BY <1>1, <2>3, <2>4 DEF IInv, MarkedIsHandled
<1> QED BY <1>1, DeliveryHolds, PTL


-----------------------------------------------------------------------------
(* Only what was written is published.                                     *)

Written(e) == outbox[e].status # "none"

\* A run has read only rows that a transaction has committed.
WrittenFirst ==
  \A r \in Runs, e \in Events :
    run[r].rows[e] # NoRow => run[r].rows[e].status # "none" /\ Written(e)

\* A run that becomes what it was, up to rows that were committed.
LEMMA RunStaysWritten ==
  ASSUME TypeOK, WrittenFirst, NEW r \in Runs, NEW rows, NEW s, NEW d, RunBecomes(r, rows, s, d),
         \A e \in Events : rows[e] # NoRow => rows[e].status # "none" /\ Written(e)',
         \A e \in Events : Written(e) => Written(e)'
  PROVE  WrittenFirst'
<1>1. run \in [Runs -> RunStates]
  BY DEF TypeOK, RunStates, Columns
<1>2. run'[r].rows = rows /\ \A p \in Runs \ {r} : run'[p] = run[p]
  BY <1>1 DEF RunBecomes
<1> QED BY <1>2 DEF WrittenFirst

LEMMA InitWrittenFirst == Init => WrittenFirst
  BY DEF Init, WrittenFirst, IdleRun

LEMMA NextWrittenFirst == IInv /\ WrittenFirst /\ [Next]_vars => WrittenFirst'
<1> SUFFICES ASSUME IInv, WrittenFirst, [Next]_vars PROVE WrittenFirst'
  OBVIOUS
<1>0. /\ TypeOK /\ outbox \in [Events -> Rows] /\ run \in [Runs -> RunStates]
      /\ \A r \in Runs : run[r].rows \in [Events -> Rows]
  BY DEF IInv, TypeOK, RunStates, Columns
<1>1. ASSUME outbox' = outbox, run' = run PROVE WrittenFirst'
  BY <1>1 DEF WrittenFirst, Written
<1>2. ASSUME NEW e \in Events, WriteEvent(e) PROVE WrittenFirst'
  <2>1. run' = run /\ \A f \in Events : Written(f) => Written(f)'
    BY <1>0, <1>2 DEF WriteEvent, Written, Rows
  <2> QED BY <2>1 DEF WrittenFirst
<1>3. ASSUME NEW r \in Runs, NEW e \in Events, Publish(r, e) \/ PublishFails(r, e) PROVE WrittenFirst'
  <2>1. PICK ok \in BOOLEAN : RunBecomes(r, [run[r].rows EXCEPT ![e] = AfterPublish(run[r].rows[e], ok)], e, {})
    BY <1>0, <1>3, PublishSteps
  <2>2. run[r].rows[e] # NoRow /\ outbox' = outbox
    BY <1>0, <1>3, PublishSteps
  <2>3. PICK rows : rows = [run[r].rows EXCEPT ![e] = AfterPublish(run[r].rows[e], ok)]
    OBVIOUS
  <2>4. AfterPublish(run[r].rows[e], ok).status # "none"
    BY <1>0, <2>2 DEF AfterPublish, Rows, WrittenFirst
  <2>5. \A f \in Events : rows[f] # NoRow => rows[f].status # "none" /\ Written(f)
    BY <1>0, <2>2, <2>3, <2>4 DEF WrittenFirst
  <2>6. RunBecomes(r, rows, e, {})
    BY <2>1, <2>3
  <2> QED BY <1>0, <2>2, <2>5, <2>6, RunStaysWritten DEF Written
<1>4. ASSUME NEW r \in Runs, NEW e \in Events, RunBecomes(r, [run[r].rows EXCEPT ![e] = NoRow], NoEvent, {}),
             \A f \in Events : Written(f) => Written(f)'
      PROVE  WrittenFirst'
  <2>1. PICK rows : rows = [run[r].rows EXCEPT ![e] = NoRow]
    OBVIOUS
  <2>2. \A f \in Events : rows[f] # NoRow => rows[f].status # "none" /\ Written(f)
    BY <1>0, <2>1 DEF WrittenFirst
  <2>3. RunBecomes(r, rows, NoEvent, {})
    BY <1>4, <2>1
  <2> QED BY <1>0, <1>4, <2>2, <2>3, RunStaysWritten
<1>5. ASSUME NEW r \in Runs, SaveRow(r) PROVE WrittenFirst'
  <2>1. PICK e \in Events :
          /\ run[r].save = e
          /\ outbox' = [outbox EXCEPT ![e] = Saved(run[r].rows[e], run[r].dirty, outbox[e])]
          /\ RunBecomes(r, [run[r].rows EXCEPT ![e] = NoRow], NoEvent, {})
    BY <1>0, <1>5, SaveSteps
  <2>2. run[r].rows[e] # NoRow
    <3>1. run[r].save = e /\ e # NoEvent
      BY <2>1, ConstantsAssumption
    <3>2. run[r].save # NoEvent => run[r].rows[run[r].save] # NoRow
      BY <1>0 DEF TypeOK
    <3> QED BY <3>1, <3>2
  <2>3. Saved(run[r].rows[e], run[r].dirty, outbox[e]).status # "none"
    BY <2>2 DEF Saved, WrittenFirst, Written
  <2>4. \A f \in Events : Written(f) => Written(f)'
    BY <1>0, <2>1, <2>3 DEF Written
  <2> QED BY <1>4, <2>1, <2>4
<1>6. ASSUME NEW r \in Runs, CompareRow(r) PROVE WrittenFirst'
  <2>1. PICK e \in Events :
          /\ run[r].save = e
          /\ \/ RunBecomes(r, [run[r].rows EXCEPT ![e] = NoRow], NoEvent, {})
             \/ \E d \in SUBSET Columns : RunBecomes(r, run[r].rows, e, d)
    BY <1>0, <1>6, CompareSteps
  <2>2. \A f \in Events : Written(f)' = Written(f)
    BY <1>0, <1>6, CompareSteps DEF Written
  <2>3. ASSUME NEW d \in SUBSET Columns, RunBecomes(r, run[r].rows, e, d) PROVE WrittenFirst'
    <3>1. \A f \in Events : run[r].rows[f] # NoRow => run[r].rows[f].status # "none" /\ Written(f)'
      BY <2>2 DEF WrittenFirst
    <3> QED BY <1>0, <2>2, <2>3, <3>1, RunStaysWritten
  <2> QED BY <1>4, <2>1, <2>2, <2>3
<1>7. ASSUME NEW r \in Runs, StartRun(r) \/ RunDies(r) PROVE WrittenFirst'
  <2>1. PICK rows :
          /\ RunBecomes(r, rows, NoEvent, {})
          /\ \A e \in Events : rows[e] # NoRow => rows[e] = outbox[e] /\ outbox[e].status = "pending"
    <3>1. CASE StartRun(r)
      <4>1. PICK rows : rows = [e \in Events |-> IF outbox[e].status = "pending" THEN outbox[e] ELSE NoRow]
        OBVIOUS
      <4>2. RunBecomes(r, rows, NoEvent, {})
        BY <1>0, <3>1, <4>1, StartSteps
      <4> QED BY <4>1, <4>2
    <3>2. CASE RunDies(r)
      <4>1. PICK rows : rows = [e \in Events |-> NoRow]
        OBVIOUS
      <4>2. RunBecomes(r, rows, NoEvent, {})
        BY <3>2, <4>1, DieSteps
      <4> QED BY <4>1, <4>2
    <3> QED BY <1>7, <3>1, <3>2
  <2>2. outbox' = outbox
    BY <1>0, <1>7, StartSteps, DieSteps
  <2>3. \A e \in Events : rows[e] # NoRow => rows[e].status # "none" /\ Written(e)'
    BY <2>1, <2>2 DEF Written
  <2> QED BY <1>0, <2>1, <2>2, <2>3, RunStaysWritten DEF Written
<1>8. ASSUME (\E h \in Handlers : Consume(h)) \/ UNCHANGED vars PROVE outbox' = outbox /\ run' = run
  BY <1>0, <1>8, ConsumerSteps DEF vars
<1> QED BY <1>1, <1>2, <1>3, <1>5, <1>6, <1>7, <1>8 DEF Next, PublisherRun

-----------------------------------------------------------------------------
(* What the promise sees.                                                  *)

\* Waiting is what is on its way.
WaitingFits ==
  /\ Waiting \subseteq Queues \X Events
  /\ \A q \in Queues, e \in Events : <<q, e>> \in Waiting <=> OnItsWay(q, e)

LEMMA WaitingIsOnItsWay == TypeOK => WaitingFits
<1> SUFFICES ASSUME TypeOK PROVE WaitingFits
  OBVIOUS
<1>1. \A q \in Queues, e \in Events : broker[q][e] \in Nat
  BY ConstantsAssumption DEF TypeOK
<1>2. \A q \in Queues, e \in Events : InFlight(q, e) > 0 <=> OnItsWay(q, e)
  BY <1>1, InFlightCounts
<1> QED BY <1>2 DEF Waiting, WaitingFits

\* The same of the next state.
LEMMA WaitingIsOnItsWayNext == TypeOK' => WaitingFits'
  BY WaitingIsOnItsWay, PTL

\* A step that leaves broker and handlers alone leaves the waiting copies alone.
LEMMA WaitingRests ==
  ASSUME UNCHANGED <<broker, handler>>
  PROVE  Waiting' = Waiting
  BY DEF Waiting, InFlight, Handles

LEMMA ActedRests ==
  ASSUME UNCHANGED effects
  PROVE  Acted' = Acted
  BY DEF Acted

LEMMA StatusRests ==
  ASSUME UNCHANGED outbox
  PROVE  StatusOf' = StatusOf
  BY DEF StatusOf

\* Every initial state keeps the promise.
LEMMA PromiseInit == Init => Promise!Init
<1> SUFFICES ASSUME Init PROVE Promise!Init
  OBVIOUS
<1>1. TypeOK
  BY InitIInv DEF IInv
<1>2. StatusOf = [e \in Events |-> "none"] /\ failures = [e \in Events |-> 0] /\ marked = {}
  BY DEF Init, StatusOf, NoRow
<1>3. \A q \in Queues, e \in Events : ~OnItsWay(q, e)
  BY ConstantsAssumption DEF Init, OnItsWay, Handles, Free
<1>4. Waiting = {}
  BY <1>1, <1>3, WaitingIsOnItsWay DEF WaitingFits
<1>5. Acted = {}
  BY DEF Acted, Init
<1> QED BY <1>2, <1>4, <1>5 DEF Promise!Init

\* What a publisher's step is to the promise.
LEMMA PublisherKeepsPromise ==
  ASSUME IInv, IInv', WrittenFirst, NEW r \in Runs, PublisherRun(r)
  PROVE  Promise!Next \/ UNCHANGED Promise!promise
<1>0. /\ TypeOK /\ TypeOK' /\ outbox \in [Events -> Rows] /\ outbox' \in [Events -> Rows]
      /\ run[r].rows \in [Events -> Rows]
  BY DEF IInv, TypeOK
<1>1. ConsumersRest
  BY <1>0, PublisherRests
<1>2. Acted' = Acted /\ marked' = marked
  BY <1>1, ActedRests DEF ConsumersRest
<1>3. ASSUME UNCHANGED <<outbox, broker, failures>> PROVE UNCHANGED Promise!promise
  <2>1. StatusOf' = StatusOf /\ Waiting' = Waiting
    BY <1>1, <1>3, StatusRests, WaitingRests DEF ConsumersRest
  <2> QED BY <1>2, <1>3, <2>1 DEF Promise!promise
<1>4. ASSUME NEW e \in Events, Publish(r, e) \/ PublishFails(r, e)
      PROVE  \E fails \in BOOLEAN : Promise!Attempt(e, fails)
  <2>1. StatusOf' = StatusOf /\ StatusOf[e] # "none"
    <3>1. run[r].rows[e] # NoRow /\ outbox' = outbox
      BY <1>0, <1>4, PublishSteps
    <3> QED BY <3>1, StatusRests DEF WrittenFirst, Written, StatusOf
  <2>2. ASSUME Accept(e) PROVE Waiting' = Waiting \cup {<<q, e>> : q \in Queues}
    <3>1. \A q \in Queues : broker'[q][e] = broker[q][e] + 1
                            /\ \A f \in Events \ {e} : broker'[q][f] = broker[q][f]
      BY <1>0, <2>2 DEF Accept, TypeOK
    <3>2. \A q \in Queues, f \in Events : broker[q][f] \in Nat
      BY <1>0, ConstantsAssumption DEF TypeOK
    <3>3. \A q \in Queues, f \in Events : OnItsWay(q, f)' <=> OnItsWay(q, f) \/ f = e
      BY <1>1, <3>1, <3>2 DEF OnItsWay, ConsumersRest, Handles
    <3>4. /\ Waiting \subseteq Queues \X Events /\ Waiting' \subseteq Queues \X Events
          /\ \A q \in Queues, f \in Events : <<q, f>> \in Waiting <=> OnItsWay(q, f)
          /\ \A q \in Queues, f \in Events : <<q, f>> \in Waiting' <=> OnItsWay(q, f)'
      BY <1>0, WaitingIsOnItsWay, WaitingIsOnItsWayNext DEF WaitingFits
    <3> HIDE DEF Waiting
    <3> QED BY <3>3, <3>4
  <2>3. ASSUME UNCHANGED broker PROVE Waiting' = Waiting
    BY <1>1, <2>3, WaitingRests DEF ConsumersRest
  <2>4. CASE Publish(r, e)
    <3>1. Accept(e) /\ failures' = failures
      BY <2>4 DEF Publish
    <3>2. Promise!Attempt(e, FALSE)
      BY <1>2, <2>1, <2>2, <3>1 DEF Promise!Attempt
    <3> QED BY <3>2
  <2>5. CASE PublishFails(r, e)
    <3>1. /\ Accept(e) \/ UNCHANGED broker
          /\ failures' = [failures EXCEPT ![e] = IF @ < MaxRetries THEN @ + 1 ELSE @]
      BY <2>5 DEF PublishFails
    <3>2. failures' = IF failures[e] < MaxRetries THEN [failures EXCEPT ![e] = @ + 1] ELSE failures
      <4>1. failures \in [Events -> 0 .. MaxRetries]
        BY <1>0 DEF TypeOK
      <4>2. CASE failures[e] < MaxRetries
        BY <3>1, <4>1, <4>2
      <4>3. CASE ~(failures[e] < MaxRetries)
        <5>1. failures' = [failures EXCEPT ![e] = failures[e]]
          BY <3>1, <4>1, <4>3
        <5>2. failures' = failures
          BY <4>1, <5>1
        <5> QED BY <4>3, <5>2
      <4> QED BY <4>2, <4>3
    <3>3. Promise!Attempt(e, TRUE)
      BY <1>2, <2>1, <2>2, <2>3, <3>1, <3>2 DEF Promise!Attempt
    <3> QED BY <3>3
  <2> QED BY <1>4, <2>4, <2>5
<1>5. ASSUME SaveRow(r) PROVE \E e \in Events, to \in {"pending", "processed", "failed"} : Promise!Conclude(e, to)
  <2>1. PICK e \in Events :
          /\ run[r].save = e
          /\ outbox' = [outbox EXCEPT ![e] = Saved(run[r].rows[e], run[r].dirty, outbox[e])]
    BY <1>0, <1>5, SaveSteps
  <2>2. UNCHANGED <<broker, failures>>
    BY <1>0, <1>5, SaveSteps
  <2>3. PICK to : to = outbox'[e].status
    OBVIOUS
  <2>4. run[r].rows[e].status # "none" /\ outbox[e].status # "none"
    <3>1. run[r].save = e /\ e # NoEvent
      BY <2>1, ConstantsAssumption
    <3>2. run[r].save # NoEvent => run[r].rows[run[r].save] # NoRow
      BY <1>0 DEF TypeOK
    <3> QED BY <3>1, <3>2 DEF WrittenFirst, Written
  <2>5. to \in {"pending", "processed", "failed"}
    <3>1. to = Saved(run[r].rows[e], run[r].dirty, outbox[e]).status
      BY <1>0, <2>1, <2>3
    <3>2. to # "none"
      BY <2>4, <3>1 DEF Saved
    <3> QED BY <1>0, <2>3, <3>2 DEF Rows
  <2>6. StatusOf' = [StatusOf EXCEPT ![e] = to]
    BY <1>0, <2>1, <2>3 DEF StatusOf
  <2>7. StatusOf[e] # "none"
    BY <2>4 DEF StatusOf
  <2>8. Waiting' = Waiting
    BY <1>1, <2>2, WaitingRests DEF ConsumersRest
  <2>9. /\ to = "failed" => failures[e] = MaxRetries
        /\ to = "processed" => Safe(e)'
    BY <2>2, <2>3 DEF IInv, RowsFit, RowFits
  <2>10. to = "processed" => \A q \in Queues : <<q, e>> \in Waiting \/ Promise!IsNoted(q, e)
    <3>1. \A q \in Queues : OnItsWay(q, e)' <=> OnItsWay(q, e)
      BY <1>1, <2>2 DEF OnItsWay, ConsumersRest, Handles
    <3> QED BY <1>0, <1>2, <2>9, <3>1, WaitingIsOnItsWay DEF WaitingFits, Safe, Key, Promise!IsNoted
  <2>11. Promise!Conclude(e, to)
    BY <1>2, <2>2, <2>6, <2>7, <2>8, <2>9, <2>10 DEF Promise!Conclude
  <2> QED BY <2>5, <2>11
<1>6. CASE StartRun(r) \/ RunDies(r) \/ CompareRow(r)
  <2>1. UNCHANGED <<outbox, broker, failures>>
    BY <1>0, <1>6, StartSteps, DieSteps, CompareSteps
  <2> QED BY <1>3, <2>1
<1>7. CASE \E e \in Events : Publish(r, e) \/ PublishFails(r, e)
  BY <1>4, <1>7 DEF Promise!Next
<1>8. CASE SaveRow(r)
  BY <1>5, <1>8 DEF Promise!Next
<1> QED BY <1>6, <1>7, <1>8 DEF PublisherRun

\* What a consumer's step is to the promise.
LEMMA ConsumerKeepsPromise ==
  ASSUME IInv, IInv', NEW h \in Handlers, Consume(h)
  PROVE  Promise!Next
<1>0. /\ TypeOK /\ TypeOK' /\ StepsInOrder
      /\ handler \in [Handlers -> HandlerStates] /\ broker \in [Queues -> [Events -> 0 .. MaxCopies]]
      /\ effects \in [Queues -> [Events -> 0 .. 2]]
  BY DEF IInv, TypeOK, HandlerStates
<1>1. PICK q \in Queues, e \in Events : ConsumerStep(h, q, e)
  BY <1>0, ConsumerSteps
<1>2. UNCHANGED <<outbox, run, failures>>
  BY <1>0, ConsumerSteps
<1>3. StatusOf' = StatusOf
  BY <1>2, StatusRests
<1>others. \A p \in Queues, f \in Events :
        <<p, f>> # <<q, e>> =>
          /\ broker'[p][f] = broker[p][f] /\ ~Handles(h, p, f) /\ ~Handles(h, p, f)'
          /\ \A g \in Handlers \ {h} : handler'[g] = handler[g]
  <2>1. TypeOK /\ ConsumerStep(h, q, e)
    BY <1>0, <1>1
  <2>2. ASSUME NEW g \in Handlers \ {h} PROVE handler'[g] = handler[g]
    BY <2>1, OthersRest
  <2>3. ASSUME NEW p \in Queues, NEW f \in Events, <<p, f>> # <<q, e>>
        PROVE  ~Handles(h, p, f) /\ ~Handles(h, p, f)' /\ broker'[p][f] = broker[p][f]
    BY <2>1, <2>3, OthersRest
  <2> QED BY <2>2, <2>3
<1> USE DEF ConsumerStep, Delivers, Skips, Passes, MarksAndActs, MarksLast, GivesBack, ActsLast, ActsAndMarks
<1>4. OnItsWay(q, e)
  <2>1. CASE Delivers(h, q, e)
    BY <2>1 DEF OnItsWay
  <2>2. CASE ~Delivers(h, q, e)
    <3>1. \E s : handler[h] = Handling(q, e, s)
      BY <1>1, <2>2
    <3> QED BY <3>1 DEF OnItsWay, Handles, Handling
  <2> QED BY <2>1, <2>2
<1>5. \A p \in Queues, f \in Events : <<p, f>> # <<q, e>> => (OnItsWay(p, f)' <=> OnItsWay(p, f))
  <2> SUFFICES ASSUME NEW p \in Queues, NEW f \in Events, <<p, f>> # <<q, e>>
               PROVE  OnItsWay(p, f)' <=> OnItsWay(p, f)
    OBVIOUS
  <2>1. /\ broker'[p][f] = broker[p][f] /\ ~Handles(h, p, f) /\ ~Handles(h, p, f)'
        /\ \A g \in Handlers \ {h} : handler'[g] = handler[g]
    BY <1>others
  <2>2. \A g \in Handlers : Handles(g, p, f) <=> Handles(g, p, f)'
    BY <2>1 DEF Handles
  <2> QED BY <2>1, <2>2 DEF OnItsWay
<1>6. marked' \in {marked, marked \cup {<<DatabaseOf[q], e>>}}
  BY <1>1 DEF Key
<1>7. OnItsWay(q, e)' \/ <<DatabaseOf[q], e>> \in marked'
  <2>1. CASE Delivers(h, q, e) \/ Passes(h, q, e) \/ MarksAndActs(h, q, e) \/ ActsAndMarks(h, q, e)
    <3>1. \E s : handler'[h] = Handling(q, e, s)
      BY <1>0, <2>1 DEF Becomes
    <3> QED BY <3>1 DEF Handling, Handles, OnItsWay
  <2>2. CASE Skips(h, q, e) \/ MarksLast(h, q, e)
    BY <2>2 DEF Key
  <2>3. CASE GivesBack(h, q, e)
    <3>1. broker'[q][e] = broker[q][e] + 1 /\ broker[q][e] \in 0 .. MaxCopies
      BY <1>0, <2>3
    <3> QED BY <3>1, ConstantsAssumption DEF OnItsWay
  <2>4. CASE ActsLast(h, q, e)
    <3>1. PastCheck(h, q, e) /\ handler[h].step # FirstStep(q)
      BY <2>4 DEF Handling, PastCheck, Handles, FirstStep
    <3> QED BY <1>0, <2>4, <3>1 DEF StepsInOrder, Key
  <2> QED BY <1>1, <2>1, <2>2, <2>3, <2>4
<1>8. /\ Waiting \subseteq Queues \X Events /\ Waiting' \subseteq Queues \X Events
      /\ \A p \in Queues, f \in Events : <<p, f>> \in Waiting <=> OnItsWay(p, f)
      /\ \A p \in Queues, f \in Events : <<p, f>> \in Waiting' <=> OnItsWay(p, f)'
  BY <1>0, WaitingIsOnItsWay, WaitingIsOnItsWayNext DEF WaitingFits
<1>9. /\ Waiting' \in {Waiting, Waiting \ {<<q, e>>}}
      /\ <<q, e>> \in Waiting
      /\ <<q, e>> \notin Waiting' => <<DatabaseOf[q], e>> \in marked'
  <2> HIDE DEF ConsumerStep, Delivers, Skips, Passes, MarksAndActs, MarksLast, GivesBack, ActsLast, ActsAndMarks
  <2>1. <<q, e>> \in Waiting
    BY <1>4, <1>8
  <2>2. \A p \in Queues \X Events : p # <<q, e>> => (p \in Waiting' <=> p \in Waiting)
    BY <1>5, <1>8
  <2>3. CASE OnItsWay(q, e)'
    <3>1. <<q, e>> \in Waiting'
      BY <1>8, <2>3
    <3>2. \A p : p \in Waiting' <=> p \in Waiting
      BY <1>8, <2>1, <2>2, <3>1
    <3> QED BY <2>1, <3>1, <3>2
  <2>4. CASE ~OnItsWay(q, e)'
    <3>1. <<q, e>> \notin Waiting'
      BY <1>8, <2>4
    <3>2. \A p : p \in Waiting' <=> p \in Waiting \ {<<q, e>>}
      BY <1>8, <2>2, <3>1
    <3> QED BY <1>7, <2>1, <2>4, <3>2
  <2> QED BY <2>3, <2>4
<1>10. Acted' \in {Acted, Acted \cup {<<q, e>>}}
  <2>1. effects' = effects \/ Effect(q, e)
    BY <1>1
  <2>2. CASE effects' = effects
    BY <2>2, ActedRests
  <2>3. CASE Effect(q, e)
    <3>1. effects'[q][e] > 0 /\ effects' \in [Queues -> [Events -> 0 .. 2]]
      BY <1>0, <2>3 DEF Effect
    <3>2. \A p \in Queues, f \in Events : <<p, f>> # <<q, e>> => effects'[p][f] = effects[p][f]
      BY <1>0, <2>3 DEF Effect
    <3>3. \A p \in Queues \X Events : p \in Acted' <=> p \in Acted \/ p = <<q, e>>
      BY <3>1, <3>2 DEF Acted
    <3>4. Acted \subseteq Queues \X Events /\ Acted' \subseteq Queues \X Events
      BY DEF Acted
    <3> QED BY <3>3, <3>4
  <2> QED BY <2>1, <2>2, <2>3
<1>11. Promise!Handle(q, e)
  BY <1>2, <1>3, <1>6, <1>9, <1>10 DEF Promise!Handle
<1> QED BY <1>11 DEF Promise!Next

\* Committing an event is the promise's first step.
LEMMA WriteKeepsPromise ==
  ASSUME TypeOK, NEW e \in Events, WriteEvent(e)
  PROVE  Promise!Next
<1>1. StatusOf[e] = "none" /\ StatusOf' = [StatusOf EXCEPT ![e] = "pending"]
  <2>1. outbox \in [Events -> Rows] /\ outbox[e].status = "none"
    BY DEF TypeOK, WriteEvent, NoRow, Rows
  <2>2. outbox'[e].status = "pending" /\ \A f \in Events \ {e} : outbox'[f] = outbox[f]
    BY <2>1 DEF WriteEvent, Rows
  <2>3. StatusOf' = [f \in Events |-> outbox'[f].status]
    BY DEF StatusOf
  <2> QED BY <2>1, <2>2, <2>3 DEF StatusOf
<1>2. Waiting' = Waiting /\ Acted' = Acted /\ UNCHANGED <<failures, marked>>
  BY WaitingRests, ActedRests DEF WriteEvent
<1>3. Promise!Write(e)
  BY <1>1, <1>2 DEF Promise!Write
<1> QED BY <1>3 DEF Promise!Next

-----------------------------------------------------------------------------
\* The publishers and consumers, with every crash, failed call, overlap and repeated
\* delivery of OutboxDelivery, keep the promise of AtLeastOnce: outbox.publisher.ts.
THEOREM PromiseKept == Spec => DeliversAtLeastOnce
<1>1. Init => IInv /\ WrittenFirst /\ Promise!Init
  BY InitIInv, InitWrittenFirst, PromiseInit
<1>2. IInv /\ WrittenFirst /\ [Next]_vars => IInv' /\ WrittenFirst'
  BY NextIInv, NextWrittenFirst
<1>3. IInv /\ WrittenFirst /\ IInv' /\ [Next]_vars => [Promise!Next]_(Promise!promise)
  <2> SUFFICES ASSUME IInv, WrittenFirst, IInv', [Next]_vars PROVE Promise!Next \/ UNCHANGED Promise!promise
    OBVIOUS
  <2>1. CASE UNCHANGED vars
    <3>1. StatusOf' = StatusOf /\ Waiting' = Waiting /\ Acted' = Acted /\ UNCHANGED <<failures, marked>>
      BY <2>1, StatusRests, WaitingRests, ActedRests DEF vars
    <3> QED BY <3>1 DEF Promise!promise
  <2>2. ASSUME NEW e \in Events, WriteEvent(e) PROVE Promise!Next
    BY <2>2, WriteKeepsPromise DEF IInv
  <2> QED BY <2>1, <2>2, PublisherKeepsPromise, ConsumerKeepsPromise DEF Next
<1> QED BY <1>1, <1>2, <1>3, PTL DEF Spec, DeliversAtLeastOnce, Promise!Spec
=============================================================================
