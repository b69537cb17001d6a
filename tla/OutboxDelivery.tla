--------------------------- MODULE OutboxDelivery ---------------------------
(***************************************************************************)
(* How an event gets from one service to the consumers of the others:      *)
(* event_outbox, the OutboxPublisher that a cron starts every few seconds, *)
(* the queues of RabbitMQ, and consumers that look an event up in          *)
(* processed_events before they act on it.                                 *)
(*                                                                         *)
(* A run of the publisher works on the rows it read; saving one reads the  *)
(* row back and then writes the columns that differ.  Runs overlap.  A     *)
(* consumer looks the event up, acts and marks it in statements of their   *)
(* own: some mark it first, some last.                                     *)
(* What is handed to the queues is unacknowledged until the consumer       *)
(* returns and goes back to the queue when it throws or its process dies.  *)
(*                                                                         *)
(* The order of the rows of a run and its batch size are left out.         *)
(***************************************************************************)
EXTENDS Integers, FiniteSets

CONSTANTS
  Events,      \* rows event_outbox may get
  Runs,        \* publisher runs that may overlap
  Queues,      \* the queues bound to the type of the events
  Handlers,    \* deliveries that are handled at once
  NoEvent,
  NoQueue,
  MarksFirst,  \* queues whose consumer marks the event before it acts on it
  DatabaseOf,  \* whose processed_events the consumer of a queue uses
  MaxRetries,  \* MAX_RETRIES
  MaxCopies    \* bound: copies of one event that one queue ever holds

ASSUME ConstantsAssumption ==
  /\ NoEvent \notin Events
  /\ NoQueue \notin Queues
  /\ MarksFirst \subseteq Queues
  /\ MaxRetries \in Nat \ {0}
  /\ MaxCopies \in Nat \ {0}
  /\ IsFiniteSet(Handlers)

VARIABLES
  outbox,    \* event_outbox: status and retry_count
  run,       \* the rows a run read, the one it saves, and the columns it will write
  broker,    \* copies that wait in each queue
  handler,   \* copies handed to a consumer and not acknowledged
  marked,    \* processed_events of every database
  effects,   \* how often a consumer acted on an event: never, once or more
  failures,  \* history: failed calls of publish, counted up to MaxRetries
  met,       \* history: copies that were handled while another one was
  halfway    \* history: consumers that died between marking and acting

vars == <<outbox, run, broker, handler, marked, effects, failures, met, halfway>>

NoRow == [status |-> "none", retries |-> 0]

Rows == [status : {"none", "pending", "processed", "failed"}, retries : Nat]

IdleRun == [rows |-> [e \in Events |-> NoRow], save |-> NoEvent, dirty |-> {}]

Free == [queue |-> NoQueue, event |-> NoEvent, step |-> "free"]

\* eventId, the key in processed_events, is the same for all consumers.
Key(q, e) == <<DatabaseOf[q], e>>

Handles(h, q, e) == handler[h].queue = q /\ handler[h].event = e

InFlight(q, e) == broker[q][e] + Cardinality({h \in Handlers : Handles(h, q, e)})

Init ==
  /\ outbox = [e \in Events |-> NoRow]
  /\ run = [r \in Runs |-> IdleRun]
  /\ broker = [q \in Queues |-> [e \in Events |-> 0]]
  /\ handler = [h \in Handlers |-> Free]
  /\ marked = {}
  /\ effects = [q \in Queues |-> [e \in Events |-> 0]]
  /\ failures = [e \in Events |-> 0]
  /\ met = {}
  /\ halfway = {}

-----------------------------------------------------------------------------
(* The publisher.                                                          *)

\* A transaction that ends in publish() or publishAll() commits.
WriteEvent(e) ==
  /\ outbox[e].status = "none"
  /\ outbox' = [outbox EXCEPT ![e].status = "pending"]
  /\ UNCHANGED <<run, broker, handler, marked, effects, failures, met, halfway>>

\* The cron; a run that is still at work does not keep the next from starting.
StartRun(r) ==
  /\ run[r] = IdleRun
  /\ \E e \in Events : outbox[e].status = "pending"
  /\ run' = [run EXCEPT ![r].rows =
               [e \in Events |-> IF outbox[e].status = "pending" THEN outbox[e] ELSE NoRow]]
  /\ UNCHANGED <<outbox, broker, handler, marked, effects, failures, met, halfway>>

Publishes(r, e) == run[r].save = NoEvent /\ run[r].rows[e] # NoRow

\* The exchange routes a copy to every queue.
Accept(e) ==
  /\ \A q \in Queues : InFlight(q, e) < MaxCopies
  /\ broker' = [q \in Queues |-> [broker[q] EXCEPT ![e] = @ + 1]]

\* Mutant of AfterPublish: the row is done, however publish() ended.
AfterPublishIgnoresError(row, ok) == [row EXCEPT !.status = "processed"]

\* Mutant of AfterPublish: failures are not counted.
AfterPublishForgetsRetries(row, ok) == IF ok THEN [row EXCEPT !.status = "processed"] ELSE row

\* What the run makes of its copy of the row.
AfterPublish(row, ok) ==
  IF ok THEN [row EXCEPT !.status = "processed"]
  ELSE [status |-> IF row.retries + 1 >= MaxRetries THEN "failed" ELSE "pending",
        retries |-> row.retries + 1]

Published(r, e, ok) ==
  run' = [run EXCEPT ![r].rows[e] = AfterPublish(run[r].rows[e], ok), ![r].save = e]

Publish(r, e) ==
  /\ Publishes(r, e)
  /\ Accept(e)
  /\ Published(r, e, TRUE)
  /\ UNCHANGED <<outbox, handler, marked, effects, failures, met, halfway>>

\* publish() throws; the broker may have the message all the same.
PublishFails(r, e) ==
  /\ Publishes(r, e)
  /\ Accept(e) \/ UNCHANGED broker
  /\ Published(r, e, FALSE)
  /\ failures' = [failures EXCEPT ![e] = IF @ < MaxRetries THEN @ + 1 ELSE @]
  /\ UNCHANGED <<outbox, handler, marked, effects, met, halfway>>

RowDone(r) ==
  run' = [run EXCEPT ![r].rows[run[r].save] = NoRow, ![r].save = NoEvent, ![r].dirty = {}]

Differs(x, y) ==
  (IF x.status # y.status THEN {"status"} ELSE {}) \cup
  (IF x.retries # y.retries THEN {"retries"} ELSE {})

\* save() reads the row back; if no column differs there is nothing to write.
CompareRow(r) ==
  LET e == run[r].save
      columns == Differs(run[r].rows[e], outbox[e]) IN
  /\ e # NoEvent /\ run[r].dirty = {}
  /\ IF columns = {} THEN RowDone(r) ELSE run' = [run EXCEPT ![r].dirty = columns]
  /\ UNCHANGED <<outbox, broker, handler, marked, effects, failures, met, halfway>>

Saved(x, columns, y) ==
  [status |-> IF "status" \in columns THEN x.status ELSE y.status,
   retries |-> IF "retries" \in columns THEN x.retries ELSE y.retries]

\* save() writes the columns that differed, over what the table has by now.
SaveRow(r) ==
  LET e == run[r].save IN
  /\ run[r].dirty # {}
  /\ outbox' = [outbox EXCEPT ![e] = Saved(run[r].rows[e], run[r].dirty, @)]
  /\ RowDone(r)
  /\ UNCHANGED <<broker, handler, marked, effects, failures, met, halfway>>

\* The process dies, or save() throws and ends the run.
RunDies(r) ==
  /\ run[r] # IdleRun
  /\ run' = [run EXCEPT ![r] = IdleRun]
  /\ UNCHANGED <<outbox, broker, handler, marked, effects, failures, met, halfway>>

-----------------------------------------------------------------------------
(* The consumers.                                                          *)

\* The broker hands a copy to a consumer.
Deliver(h, q, e) ==
  /\ handler[h] = Free
  /\ broker[q][e] > 0
  /\ broker' = [broker EXCEPT ![q][e] = @ - 1]
  /\ handler' = [handler EXCEPT ![h] = [queue |-> q, event |-> e, step |-> "check"]]
  /\ UNCHANGED <<outbox, run, marked, effects, failures, met, halfway>>

\* The consumer returns and the copy is acknowledged.
Acknowledge(h) == handler' = [handler EXCEPT ![h] = Free]

\* Mutant of Reject: what a consumer throws on is dropped.
RejectDrops(h) == Acknowledge(h) /\ UNCHANGED broker

\* The consumer throws, or dies, and the copy goes back to the queue.
Reject(h) ==
  LET q == handler[h].queue
      e == handler[h].event IN
  /\ handler' = [handler EXCEPT ![h] = Free]
  /\ broker' = [broker EXCEPT ![q][e] = @ + 1]

FirstStep(q) == IF q \in MarksFirst THEN "mark" ELSE "act"

\* Mutant of IsProcessed: the look-up is left out.
IsProcessedNever(q, e) == FALSE

\* existsBy({ eventId })
IsProcessed(q, e) == Key(q, e) \in marked

CheckEvent(h) ==
  LET q == handler[h].queue
      e == handler[h].event IN
  /\ handler[h].step = "check"
  /\ IF IsProcessed(q, e)
       THEN Acknowledge(h) /\ UNCHANGED met
       ELSE /\ handler' = [handler EXCEPT ![h].step = FirstStep(q)]
            /\ met' = IF \E g \in Handlers \ {h} : Handles(g, q, e) /\ handler[g].step # "check"
                        THEN met \cup {<<q, e>>} ELSE met
  /\ UNCHANGED <<outbox, run, broker, marked, effects, failures, halfway>>

\* save() of the key: a row that is there already makes the insert fail, or is
\* found and left as it is.
MarkEvent(h) ==
  LET q == handler[h].queue
      e == handler[h].event IN
  /\ handler[h].step = "mark"
  /\ \/ /\ marked' = marked \cup {Key(q, e)}
        /\ IF q \in MarksFirst THEN handler' = [handler EXCEPT ![h].step = "act"] ELSE Acknowledge(h)
        /\ UNCHANGED <<broker>>
     \/ /\ Key(q, e) \in marked
        /\ Reject(h)
        /\ UNCHANGED <<marked>>
  /\ UNCHANGED <<outbox, run, effects, failures, met, halfway>>

\* What the consumer is there for.
Act(h) ==
  LET q == handler[h].queue
      e == handler[h].event IN
  /\ handler[h].step = "act"
  /\ effects' = [effects EXCEPT ![q][e] = IF @ < 2 THEN @ + 1 ELSE @]
  /\ IF q \in MarksFirst THEN Acknowledge(h) ELSE handler' = [handler EXCEPT ![h].step = "mark"]
  /\ UNCHANGED <<outbox, run, broker, marked, failures, met, halfway>>

HandlerDies(h) ==
  LET q == handler[h].queue
      e == handler[h].event IN
  /\ handler[h] # Free
  /\ Reject(h)
  /\ halfway' = IF handler[h].step \in {"mark", "act"} /\ handler[h].step # FirstStep(q)
                  THEN halfway \cup {<<q, e>>} ELSE halfway
  /\ UNCHANGED <<outbox, run, marked, effects, failures, met>>

-----------------------------------------------------------------------------
PublisherRun(r) ==
  \/ StartRun(r) \/ CompareRow(r) \/ SaveRow(r) \/ RunDies(r)
  \/ \E e \in Events : Publish(r, e) \/ PublishFails(r, e)

Consume(h) ==
  \/ \E q \in Queues, e \in Events : Deliver(h, q, e)
  \/ CheckEvent(h) \/ MarkEvent(h) \/ Act(h) \/ HandlerDies(h)

Next ==
  \/ \E e \in Events : WriteEvent(e)
  \/ \E r \in Runs : PublisherRun(r)
  \/ \E h \in Handlers : Consume(h)

Spec == Init /\ [][Next]_vars

\* The cron keeps starting runs, runs go through their rows whether publish()
\* throws or not, the broker keeps delivering, and neither all runs nor a consumer
\* die at the same place for ever.
Fairness ==
  /\ SF_vars(\E r \in Runs : StartRun(r))
  /\ SF_vars(\E r \in Runs : CompareRow(r))
  /\ SF_vars(\E r \in Runs : SaveRow(r))
  /\ \A e \in Events : SF_vars(\E r \in Runs : Publish(r, e) \/ PublishFails(r, e))
  /\ \A h \in Handlers :
       /\ \A q \in Queues, e \in Events : SF_vars(Deliver(h, q, e))
       /\ \A q \in Queues, e \in Events : SF_vars(Handles(h, q, e) /\ CheckEvent(h))
       /\ \A q \in Queues, e \in Events : SF_vars(Handles(h, q, e) /\ MarkEvent(h))
       /\ \A q \in Queues, e \in Events : SF_vars(Handles(h, q, e) /\ Act(h))

FairSpec == Spec /\ Fairness
-----------------------------------------------------------------------------
(* Properties.                                                             *)

Steps == {"check", "mark", "act"}

\* The rows, the copies of the publisher and the queues have their types; a run
\* saves only rows that it has read, and writes only what it compared before.
TypeOK ==
  /\ outbox \in [Events -> Rows]
  /\ run \in [Runs -> [rows : [Events -> Rows], save : Events \cup {NoEvent},
                     dirty : SUBSET {"status", "retries"}]]
  /\ \A r \in Runs : run[r].save # NoEvent => run[r].rows[run[r].save] # NoRow
  /\ \A r \in Runs : run[r].dirty # {} => run[r].save # NoEvent
  /\ broker \in [Queues -> [Events -> 0 .. MaxCopies]]
  /\ handler \in [Handlers -> [queue : Queues, event : Events, step : Steps] \cup {Free}]
  /\ marked \subseteq {Key(q, e) : q \in Queues, e \in Events}
  /\ effects \in [Queues -> [Events -> 0 .. 2]]
  /\ failures \in [Events -> 0 .. MaxRetries]
  /\ met \subseteq Queues \X Events /\ halfway \subseteq Queues \X Events

\* An event whose row says processed is not lost on its way: each queue still has
\* a copy of it, or the event is in processed_events of the queue's database,
\* whatever died, was thrown or was published twice.
ProcessedIsNotLost ==
  \A e \in Events, q \in Queues :
    outbox[e].status = "processed" => InFlight(q, e) > 0 \/ Key(q, e) \in marked

\* An event is given up only after MAX_RETRIES calls of publish() have failed,
\* also when overlapping runs save their retry counts over each other's.
GivesUpAfterMaxRetries ==
  \A e \in Events : outbox[e].status = "failed" => failures[e] = MaxRetries

\* A consumer acts twice on one event only if two copies were handled at the same
\* time, or it died between acting and marking.
RepeatedOnlyIf ==
  \A q \in Queues, e \in Events : effects[q][e] > 1 => <<q, e>> \in met \cup halfway

Arrived(q, e) == outbox[e].status = "processed" /\ InFlight(q, e) = 0

Alone(q) == \A p \in Queues \ {q} : DatabaseOf[p] # DatabaseOf[q]

\* Once all copies are dealt with, a consumer that shares its processed_events
\* with no other consumer of the event has acted on it, unless it died between
\* marking and acting.
ArrivedIsHandled ==
  \A q \in Queues, e \in Events :
    Alone(q) /\ Arrived(q, e) /\ <<q, e>> \notin halfway => effects[q][e] > 0

\* Of the detail AtLeastOnce sees the status of each row, the queues that hold a copy and the
\* consumers that have acted.
StatusOf == [e \in Events |-> outbox[e].status]
Waiting == {p \in Queues \X Events : InFlight(p[1], p[2]) > 0}
Acted == {p \in Queues \X Events : effects[p[1]][p[2]] > 0}

Promise == INSTANCE AtLeastOnce WITH
  status <- StatusOf, failures <- failures, waiting <- Waiting, noted <- marked, acted <- Acted

\* Overlapping runs that save over each other, calls that fail after the broker has the message,
\* deliveries at the same time and processes that die at any step keep the promise of
\* AtLeastOnce: outbox.publisher.ts, booking-sync.consumer.ts, notification.consumers.ts.
DeliversAtLeastOnce == Promise!Spec

Settled(e) == outbox[e].status \in {"processed", "failed"}

\* Every event is published or given up in the end, and for good: overlapping
\* runs can make a processed row pending again, but not time after time.
EventIsSettled == \A e \in Events : outbox[e].status = "pending" ~> []Settled(e)

\* A copy that reached a queue is marked in the end, however often consumers die.
CopyIsHandled ==
  \A q \in Queues, e \in Events : broker[q][e] > 0 ~> Key(q, e) \in marked
=============================================================================
