-------------------------- MODULE MCOutboxDelivery --------------------------
(***************************************************************************)
(* One booking.confirmed event, two overlapping publisher runs and two     *)
(* deliveries at once.  Of the two queues of session-service one consumer  *)
(* marks first and the other last, and they share processed_events;        *)
(* notification-service has its own.                                       *)
(***************************************************************************)
EXTENDS OutboxDelivery, TLC

CONSTANTS sync, ctrl, notify

MCMarksFirst == {ctrl, notify} \cap Queues

MCDatabaseOf == [q \in Queues |-> IF q = notify THEN "notification_db" ELSE "session_db"]

\* An event is published or given up for good in the end, and a copy that reached a queue is
\* marked: outbox.publisher.ts, booking-sync.consumer.ts.
EventGetsThrough == EventIsSettled /\ CopyIsHandled

\* Runs are alike, and so are the deliveries.
MCSymmetry == Permutations(Runs) \cup Permutations(Handlers)
=============================================================================
