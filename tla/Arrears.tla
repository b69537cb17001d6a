------------------------------ MODULE Arrears ------------------------------
(***************************************************************************)
(* The debt of one user: a bill the wallet cannot pay makes billing-       *)
(* service announce it, a top-up makes it announce that the debt is        *)
(* cleared, and iam-service and session-service each keep a flag and an    *)
(* amount, by two consumers with a queue each.  A consumer remembers its   *)
(* message first and then reads, adds and writes without a lock.  In       *)
(* iam-service there is a row for every debt too, and two requests write   *)
(* the cached user back whole, flag and amount included.                   *)
(***************************************************************************)
EXTENDS Integers, FiniteSets

CONSTANTS
  Debts,       \* sessions whose bill the wallet could not pay
  Topups,      \* top-ups of the wallet
  NoMessage,
  Services,    \* iam-service and session-service
  Iam,         \* the one that has the rows
  Consumers,   \* deliveries each service handles at once
  AmountOf     \* what a debt owes, and a top-up brings

Messages == Debts \cup Topups

ASSUME ArrearsAssumption ==
  /\ Iam \in Services /\ NoMessage \notin Messages
  /\ Debts \cap Topups = {}
  /\ AmountOf \in [Messages -> Nat \ {0}]

VARIABLES
  sentBy,    \* messages billing-service has published
  arrived,   \* messages that wait at a service
  markedAt,  \* processed_events of a service
  consumer,  \* what a consumer is at, and the amount it has read
  flag,      \* hasOutstandingDebt
  owed,      \* arrearsAmount
  rowOf,     \* user_arrears: none, outstanding, cleared
  copy,      \* the cached user a request in iam-service has read
  expected,  \* history: the sum of debts handled since the last clearing
  torn       \* history: services where a handler overlapped another or died after its mark

arrears == <<sentBy, arrived, markedAt, consumer, flag, owed, rowOf, copy, expected, torn>>

Resting == [at |-> "idle", msg |-> NoMessage, read |-> 0]

NoCopy == [held |-> FALSE, flag |-> FALSE, owed |-> 0]

ArrearsInit ==
  /\ sentBy = {}
  /\ arrived = [v \in Services |-> {}]
  /\ markedAt = [v \in Services |-> {}]
  /\ consumer = [v \in Services |-> [w \in Consumers |-> Resting]]
  /\ flag = [v \in Services |-> FALSE]
  /\ owed = [v \in Services |-> 0]
  /\ rowOf = [d \in Debts |-> "none"]
  /\ copy = NoCopy
  /\ expected = [v \in Services |-> 0]
  /\ torn = {}

\* SessionCompletedBillingConsumer for a debt, WalletTopupArrearsClearConsumer for a
\* top-up: what the top-up brings, and whether anything is owed, is not looked at.
Publish(m) ==
  /\ m \notin sentBy
  /\ sentBy' = sentBy \cup {m}
  /\ arrived' = [v \in Services |-> arrived[v] \cup {m}]
  /\ UNCHANGED <<markedAt, consumer, flag, owed, rowOf, copy, expected, torn>>

Busy(v) == {w \in Consumers : consumer[v][w] # Resting}

Free(v, w, m) ==
  /\ consumer[v][w] = Resting
  /\ m \in arrived[v] /\ \A u \in Consumers : consumer[v][u].msg # m

\* A debt's key is that of its session; a clearing is keyed by the time it is handled.
IsMarked(v, m) == m \in Debts /\ m \in markedAt[v]

SkipMessage(v, m) ==
  /\ IsMarked(v, m) /\ m \in arrived[v] /\ \A u \in Consumers : consumer[v][u].msg # m
  /\ arrived' = [arrived EXCEPT ![v] = @ \ {m}]
  /\ UNCHANGED <<sentBy, markedAt, consumer, flag, owed, rowOf, copy, expected, torn>>

\* Handlers at work at once are torn, and so is whoever writes while a request of
\* iam-service holds a copy of the user.
MarkMessage(v, w, m) ==
  /\ Free(v, w, m) /\ ~IsMarked(v, m)
  /\ markedAt' = [markedAt EXCEPT ![v] = @ \cup {m}]
  /\ consumer' = [consumer EXCEPT ![v][w] = [at |-> "marked", msg |-> m, read |-> 0]]
  /\ torn' = IF Busy(v) # {} \/ (v = Iam /\ copy.held) THEN torn \cup {v} ELSE torn
  /\ UNCHANGED <<sentBy, arrived, flag, owed, rowOf, copy, expected>>

Goto(v, w, label, n) == consumer' = [consumer EXCEPT ![v][w] = [at |-> label, msg |-> @.msg, read |-> n]]

\* iam-service records the debt; session-service keeps no rows.
RecordDebt(v, w) ==
  LET m == consumer[v][w].msg IN
  /\ consumer[v][w].at = "marked" /\ m \in Debts
  /\ rowOf' = IF v = Iam THEN [rowOf EXCEPT ![m] = "outstanding"] ELSE rowOf
  /\ Goto(v, w, "recorded", 0)
  /\ UNCHANGED <<sentBy, arrived, markedAt, flag, owed, copy, expected, torn>>

ReadOwed(v, w) ==
  /\ consumer[v][w].at = "recorded" /\ consumer[v][w].msg \in Debts
  /\ Goto(v, w, "read", owed[v])
  /\ UNCHANGED <<sentBy, arrived, markedAt, flag, owed, rowOf, copy, expected, torn>>

\* Mutant of Sum: the amount is replaced.
SumReplaced(read, m) == AmountOf[m]

Sum(read, m) == read + AmountOf[m]

Done(v, w, m) ==
  /\ consumer' = [consumer EXCEPT ![v][w] = Resting]
  /\ arrived' = [arrived EXCEPT ![v] = @ \ {m}]

AddDebt(v, w) ==
  LET m == consumer[v][w].msg IN
  /\ consumer[v][w].at = "read"
  /\ flag' = [flag EXCEPT ![v] = TRUE]
  /\ owed' = [owed EXCEPT ![v] = Sum(consumer[v][w].read, m)]
  /\ expected' = [expected EXCEPT ![v] = @ + AmountOf[m]]
  /\ Done(v, w, m)
  /\ UNCHANGED <<sentBy, markedAt, rowOf, copy, torn>>

ClearedRows(rows) == [d \in Debts |-> IF rows[d] = "outstanding" THEN "cleared" ELSE rows[d]]

ClearRows(v, w) ==
  /\ consumer[v][w].at = "marked" /\ consumer[v][w].msg \in Topups
  /\ rowOf' = IF v = Iam THEN ClearedRows(rowOf) ELSE rowOf
  /\ Goto(v, w, "recorded", 0)
  /\ UNCHANGED <<sentBy, arrived, markedAt, flag, owed, copy, expected, torn>>

ResetFlag(v, w) ==
  LET m == consumer[v][w].msg IN
  /\ consumer[v][w].at = "recorded" /\ m \in Topups
  /\ flag' = [flag EXCEPT ![v] = FALSE]
  /\ owed' = [owed EXCEPT ![v] = 0]
  /\ expected' = [expected EXCEPT ![v] = 0]
  /\ Done(v, w, m)
  /\ UNCHANGED <<sentBy, markedAt, rowOf, copy, torn>>

\* The message is delivered again: a debt is skipped then, a clearing starts anew.
ConsumerDies(v, w) ==
  /\ consumer[v][w] # Resting
  /\ consumer' = [consumer EXCEPT ![v][w] = Resting]
  /\ torn' = torn \cup {v}
  /\ UNCHANGED <<sentBy, arrived, markedAt, flag, owed, rowOf, copy, expected>>

\* updateStatus of a user, and the staff's list that brings the cache up to date.
ReadUser ==
  /\ ~copy.held
  /\ copy' = [held |-> TRUE, flag |-> flag[Iam], owed |-> owed[Iam]]
  /\ torn' = IF Busy(Iam) # {} THEN torn \cup {Iam} ELSE torn
  /\ UNCHANGED <<sentBy, arrived, markedAt, consumer, flag, owed, rowOf, expected>>

WriteUser ==
  /\ copy.held
  /\ flag' = [flag EXCEPT ![Iam] = copy.flag]
  /\ owed' = [owed EXCEPT ![Iam] = copy.owed]
  /\ copy' = NoCopy
  /\ UNCHANGED <<sentBy, arrived, markedAt, consumer, rowOf, expected, torn>>

ArrearsNext ==
  \/ \E m \in Messages : Publish(m)
  \/ \E v \in Services, m \in Messages : SkipMessage(v, m) \/ \E w \in Consumers : MarkMessage(v, w, m)
  \/ \E v \in Services, w \in Consumers :
       RecordDebt(v, w) \/ ReadOwed(v, w) \/ AddDebt(v, w) \/ ClearRows(v, w) \/ ResetFlag(v, w) \/ ConsumerDies(v, w)
  \/ ReadUser \/ WriteUser

ArrearsSpec == ArrearsInit /\ [][ArrearsNext]_arrears

-----------------------------------------------------------------------------
(* Properties.                                                             *)

\* Messages, flags, amounts and rows have their types.
ArrearsTypeOK ==
  /\ sentBy \subseteq Messages
  /\ \A v \in Services : arrived[v] \subseteq sentBy /\ markedAt[v] \subseteq sentBy
  /\ flag \in [Services -> BOOLEAN] /\ owed \in [Services -> Nat]
  /\ rowOf \in [Debts -> {"none", "outstanding", "cleared"}]
  /\ torn \subseteq Services

\* At rest both services know the debt: what is owed is the sum of the debts handled since
\* the last clearing, the guards' flag says whether there is one, and iam-service has an
\* outstanding row exactly then; unless two handlers overlapped, one died after its mark,
\* or the user was written back whole around them.
DebtIsRemembered ==
  \A v \in Services \ torn :
    Busy(v) = {} =>
      /\ owed[v] = expected[v] /\ (flag[v] <=> owed[v] > 0)
      /\ v = Iam => (flag[v] <=> \E d \in Debts : rowOf[d] = "outstanding")
=============================================================================
