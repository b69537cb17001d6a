---------------------------- MODULE OcppGateway ----------------------------
(***************************************************************************)
(* One charger at the OCPP gateway: its sockets, the one registered for    *)
(* it, the status the gateway last published and the commands the platform *)
(* sends it.  A charger may connect again before the gateway learns that   *)
(* its old socket is gone.  Commands come from a queue that keeps what is  *)
(* not acknowledged; what a command brought is only logged.  Everything    *)
(* the gateway knows is lost when it restarts.                             *)
(***************************************************************************)
EXTENDS Integers, FiniteSets

CONSTANTS
  Sockets,      \* connections the charger ever makes
  NoSocket,
  Commands,     \* remote starts and stops
  MaxRestarts   \* bound: restarts of the gateway

ASSUME GatewayAssumption == NoSocket \notin Sockets

VARIABLES
  socket,      \* the connections: none, open, closing (the event is to come), closed
  conn,        \* the gateway's entry for the charger
  latest,      \* history: the socket that connected last
  word,        \* the status last published
  command,     \* the commands' messages: queued, pending (in pendingCalls), settled
  carried,     \* how often the charger has been told each command
  restarts,
  closedUnder, \* history: open sockets that another's close event took from the map
  unanswered   \* history: sockets on which a call of the charger got no answer

gateway == <<socket, conn, latest, word, command, carried, restarts, closedUnder, unanswered>>

GatewayInit ==
  /\ socket = [s \in Sockets |-> "none"]
  /\ conn = NoSocket /\ latest = NoSocket
  /\ word = "none"
  /\ command = [k \in Commands |-> "queued"]
  /\ carried = [k \in Commands |-> 0]
  /\ restarts = 0
  /\ closedUnder = {} /\ unanswered = {}

\* Mutant of Registered: the entry that is there stays.
RegisteredFirst(s) == IF conn = NoSocket THEN s ELSE conn

\* registerCharger: the latest connection is the charger's.
Registered(s) == s

Connect(s) ==
  /\ socket[s] = "none"
  /\ socket' = [socket EXCEPT ![s] = "open"]
  /\ conn' = Registered(s) /\ latest' = s
  /\ UNCHANGED <<word, command, carried, restarts, closedUnder, unanswered>>

Disconnect(s) ==
  /\ socket[s] = "open"
  /\ socket' = [socket EXCEPT ![s] = "closing"]
  /\ UNCHANGED <<conn, latest, word, command, carried, restarts, closedUnder, unanswered>>

\* The close event removes the charger's entry, whichever socket that is, and
\* reports the charger offline.
Closed(s) ==
  /\ socket[s] = "closing"
  /\ socket' = [socket EXCEPT ![s] = "closed"]
  /\ conn' = NoSocket
  /\ word' = "offline"
  /\ closedUnder' = closedUnder \cup ({conn} \ {s, NoSocket})
  /\ UNCHANGED <<latest, command, carried, restarts, unanswered>>

IsConnected == conn # NoSocket /\ socket[conn] = "open"

\* sendCallResult answers on the registered socket.
Answered(s) == unanswered' = IF IsConnected /\ conn = s THEN unanswered ELSE unanswered \cup {s}

\* BootNotification, Heartbeat, MeterValues, StartTransaction, StopTransaction and
\* Authorize: the answer, and a message that is no status.
HandleCall(s) ==
  /\ socket[s] = "open"
  /\ Answered(s)
  /\ UNCHANGED <<socket, conn, latest, word, command, carried, restarts, closedUnder>>

\* StatusNotification: the message is lost when the broker refuses it.
HandleStatus(s) ==
  /\ socket[s] = "open"
  /\ Answered(s)
  /\ word' \in {word, "reported"}
  /\ UNCHANGED <<socket, conn, latest, command, carried, restarts, closedUnder>>

\* A command for a charger that is not connected is logged and acknowledged.
DropCommand(k) ==
  /\ command[k] = "queued" /\ ~IsConnected
  /\ command' = [command EXCEPT ![k] = "settled"]
  /\ UNCHANGED <<socket, conn, latest, word, carried, restarts, closedUnder, unanswered>>

SendCommand(k) ==
  /\ command[k] = "queued" /\ IsConnected
  /\ command' = [command EXCEPT ![k] = "pending"]
  /\ carried' = [carried EXCEPT ![k] = @ + 1]
  /\ UNCHANGED <<socket, conn, latest, word, restarts, closedUnder, unanswered>>

\* The charger's result or error finds the resolver, from whichever socket.
Answer(k, s) ==
  /\ command[k] = "pending" /\ socket[s] = "open"
  /\ command' = [command EXCEPT ![k] = "settled"]
  /\ UNCHANGED <<socket, conn, latest, word, carried, restarts, closedUnder, unanswered>>

\* After 30 seconds the command counts as refused and is acknowledged.
GivenUp(k) == [command EXCEPT ![k] = "settled"]

TimeOut(k) ==
  /\ command[k] = "pending"
  /\ command' = GivenUp(k)
  /\ UNCHANGED <<socket, conn, latest, word, carried, restarts, closedUnder, unanswered>>

\* No close event is published; the broker delivers again what was pending.
Restart ==
  /\ restarts < MaxRestarts
  /\ restarts' = restarts + 1
  /\ socket' = [s \in Sockets |-> IF socket[s] = "none" THEN "none" ELSE "closed"]
  /\ conn' = NoSocket
  /\ command' = [k \in Commands |-> IF command[k] = "pending" THEN "queued" ELSE command[k]]
  /\ UNCHANGED <<latest, word, carried, closedUnder, unanswered>>

GatewayNext ==
  \/ \E s \in Sockets : Connect(s) \/ Disconnect(s) \/ Closed(s) \/ HandleCall(s) \/ HandleStatus(s)
  \/ \E k \in Commands : DropCommand(k) \/ SendCommand(k) \/ TimeOut(k) \/ \E s \in Sockets : Answer(k, s)
  \/ Restart

-----------------------------------------------------------------------------
(* Properties.                                                             *)

\* Sockets, commands and the entry have their types.
GatewayTypeOK ==
  /\ socket \in [Sockets -> {"none", "open", "closing", "closed"}]
  /\ {conn, latest} \subseteq Sockets \cup {NoSocket}
  /\ word \in {"none", "reported", "offline"}
  /\ command \in [Commands -> {"queued", "pending", "settled"}] /\ carried \in [Commands -> Nat]
  /\ closedUnder \subseteq Sockets /\ unanswered \subseteq Sockets

\* The platform reaches the charger by its latest socket, unless the close of an older
\* one came after it connected, and a command is given up once, not tried again: it is
\* sent once for every time the gateway was started.
ChargerIsReached ==
  /\ \A s \in Sockets : latest = s /\ socket[s] = "open" => conn = s \/ s \in closedUnder
  /\ \A k \in Commands : carried[k] <= restarts + 1
=============================================================================
