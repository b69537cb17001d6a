----------------------------- MODULE AtLeastOnce -----------------------------
(***************************************************************************)
(* What the outbox promises the services: an event that a transaction has  *)
(* committed reaches every queue before its row says so, is given up only  *)
(* after MAX_RETRIES failed attempts, and is let go of by a consumer only  *)
(* once it is noted in processed_events of the consumer's database.  How   *)
(* often a consumer acts, and whether runs of the publisher undo each      *)
(* other's rows, is not promised.  OutboxDelivery implements it.           *)
(***************************************************************************)
EXTENDS Integers

CONSTANTS Events, Queues, DatabaseOf, MaxRetries

VARIABLES
  status,   \* of the event's row in event_outbox
  failures, \* attempts that failed, counted up to MaxRetries
  waiting,  \* queues that have a copy of an event, handled or not
  noted,    \* processed_events of each database
  acted     \* consumers that have acted on an event

promise == <<status, failures, waiting, noted, acted>>

IsNoted(q, e) == <<DatabaseOf[q], e>> \in noted

Init ==
  /\ status = [e \in Events |-> "none"] /\ failures = [e \in Events |-> 0]
  /\ waiting = {} /\ noted = {} /\ acted = {}

\* The transaction commits the event with what it is about.
Write(e) ==
  /\ status[e] = "none"
  /\ status' = [status EXCEPT ![e] = "pending"]
  /\ UNCHANGED <<failures, waiting, noted, acted>>

\* Publishing an event that was written: a copy for every queue, or for none if it fails.
Attempt(e, fails) ==
  /\ status[e] # "none"
  /\ \/ waiting' = waiting \cup {<<q, e>> : q \in Queues}
     \/ fails /\ UNCHANGED waiting
  /\ failures' = IF fails /\ failures[e] < MaxRetries THEN [failures EXCEPT ![e] = @ + 1] ELSE failures
  /\ UNCHANGED <<status, noted, acted>>

\* What the row may come to say.
Conclude(e, to) ==
  /\ status[e] # "none"
  /\ to = "processed" => \A q \in Queues : <<q, e>> \in waiting \/ IsNoted(q, e)
  /\ to = "failed" => failures[e] = MaxRetries
  /\ status' = [status EXCEPT ![e] = to]
  /\ UNCHANGED <<failures, waiting, noted, acted>>

\* A consumer acts on a copy, notes it, or lets go of it.
Handle(q, e) ==
  /\ <<q, e>> \in waiting
  /\ acted' \in {acted, acted \cup {<<q, e>>}}
  /\ noted' \in {noted, noted \cup {<<DatabaseOf[q], e>>}}
  /\ waiting' \in {waiting, waiting \ {<<q, e>>}}
  /\ <<q, e>> \notin waiting' => <<DatabaseOf[q], e>> \in noted'
  /\ UNCHANGED <<status, failures>>

Next ==
  \E e \in Events :
    \/ Write(e)
    \/ \E fails \in BOOLEAN : Attempt(e, fails)
    \/ \E to \in {"pending", "processed", "failed"} : Conclude(e, to)
    \/ \E q \in Queues : Handle(q, e)

Spec == Init /\ [][Next]_promise
==============================================================================
