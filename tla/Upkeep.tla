-------------------------------- MODULE Upkeep --------------------------------
(***************************************************************************)
(* Incidents and maintenance of stations: the four handlers of             *)
(* StationController and the maintenance page that calls them.  A handler  *)
(* that updates a row reads it, and saves later every column that differs  *)
(* from the row as it is by then; crew members update the same rows at     *)
(* once, each from a page that shows them as they were.                    *)
(*                                                                         *)
(* A member of the crew is staff of the stations its token names, or an    *)
(* administrator, whose token is as good as one that names them all.       *)
(***************************************************************************)
EXTENDS Integers

CONSTANTS
  Crew,
  Posts,     \* stations
  PostsOf,   \* stationIds of each member's token
  Tickets,   \* incidents there may be
  Orders,    \* maintenance records there may be
  LastHour   \* bound: the clock

ASSUME UpkeepAssumption == PostsOf \in [Crew -> SUBSET Posts] /\ LastHour \in Nat

VARIABLES
  hour,
  ticket,    \* station_incidents
  order,     \* station_maintenance
  sheet,     \* each member's maintenance page: the rows with a button, as it last read them
  chore      \* each member's update under way: the row it read

upkeep == <<hour, ticket, order, sheet, chore>>

Hours == 0 .. LastHour
Never == -1
NoPost == "no station"
ASSUME NoPostAssumption == NoPost \notin Posts
NoTicket == [post |-> NoPost, status |-> "none", resolvedAt |-> Never]
NoOrder == [post |-> NoPost, start |-> Never, end |-> Never]
TicketStatuses == {"pending_confirmation", "in_progress", "resolved", "rejected"}
TicketRow == [post : Posts, status : TicketStatuses, resolvedAt : Hours \cup {Never}] \cup {NoTicket}
OrderRow == [post : Posts, start : Hours, end : Hours] \cup {NoOrder}
NoChore == [kind |-> "none"]

UpkeepInit ==
  /\ hour = 0
  /\ ticket = [i \in Tickets |-> NoTicket] /\ order = [m \in Orders |-> NoOrder]
  /\ sheet = [c \in Crew |-> {}] /\ chore = [c \in Crew |-> NoChore]

PassHour == hour < LastHour /\ hour' = hour + 1 /\ UNCHANGED <<ticket, order, sheet, chore>>

-----------------------------------------------------------------------------
(* The server                                                              *)

\* reportIncident: a report waits for confirmation.
ReportIncident(c, i, p) ==
  /\ ticket[i] = NoTicket /\ p \in PostsOf[c]
  /\ ticket' = [ticket EXCEPT ![i] = [post |-> p, status |-> "pending_confirmation", resolvedAt |-> Never]]
  /\ UNCHANGED <<hour, order, sheet, chore>>

\* resolveIncident reads the incident and looks at its station ...
LoadTicket(c, i, status) ==
  /\ chore[c] = NoChore /\ ticket[i].post \in PostsOf[c]
  /\ chore' = [chore EXCEPT ![c] = [kind |-> "ticket", of |-> i, row |-> ticket[i], status |-> status]]
  /\ UNCHANGED <<hour, ticket, order, sheet>>

\* Mutant of Patched: the time is noted only where work on the incident had begun.
PatchedInTurn(row, status) ==
  [row EXCEPT !.status = status,
              !.resolvedAt = IF status = "resolved" /\ row.status = "in_progress" THEN hour ELSE row.resolvedAt]

\* ... and a resolved incident gets its time, which no later status takes away.
Patched(row, status) ==
  [row EXCEPT !.status = status, !.resolvedAt = IF status = "resolved" THEN hour ELSE row.resolvedAt]

SaveTicket(c) ==
  /\ chore[c].kind = "ticket"
  /\ ticket' = [ticket EXCEPT ![chore[c].of] = Patched(chore[c].row, chore[c].status)]
  /\ chore' = [chore EXCEPT ![c] = NoChore]
  /\ UNCHANGED <<hour, order, sheet>>

\* scheduleMaintenance.  The form asks for a start before the end.
ScheduleMaintenance(c, m, p, from, to) ==
  /\ order[m] = NoOrder /\ p \in PostsOf[c] /\ from < to
  /\ order' = [order EXCEPT ![m] = [post |-> p, start |-> from, end |-> to]]
  /\ UNCHANGED <<hour, ticket, sheet, chore>>

\* updateMaintenance reads the record; the page's clock gives the end, its status is ignored.
LoadOrder(c, m) ==
  /\ chore[c] = NoChore /\ order[m].post \in PostsOf[c]
  /\ chore' = [chore EXCEPT ![c] = [kind |-> "order", of |-> m, row |-> order[m], end |-> hour]]
  /\ UNCHANGED <<hour, ticket, order, sheet>>

SaveOrder(c) ==
  /\ chore[c].kind = "order"
  /\ order' = [order EXCEPT ![chore[c].of] = [chore[c].row EXCEPT !.end = chore[c].end]]
  /\ chore' = [chore EXCEPT ![c] = NoChore]
  /\ UNCHANGED <<hour, ticket, sheet>>

-----------------------------------------------------------------------------
(* The page                                                                *)

\* The badge of a maintenance is made from its times alone.
Badge(row) ==
  IF row.start > hour THEN "SCHEDULED" ELSE IF hour <= row.end THEN "IN_PROGRESS" ELSE "COMPLETED"

\* listIncidents and listMaintenance: the rows of the stations the token names.
OpenTickets(c) == {i \in Tickets : ticket[i].post \in PostsOf[c] /\ ticket[i].status # "resolved"}
OpenOrders(c) == {m \in Orders : order[m].post \in PostsOf[c] /\ Badge(order[m]) # "COMPLETED"}

\* Both lists, read again when an update of the page has succeeded.
ReadSheet(c) ==
  /\ sheet' = [sheet EXCEPT ![c] = OpenTickets(c) \cup OpenOrders(c)]
  /\ UNCHANGED <<hour, ticket, order, chore>>

\* The button of an incident is there until it is shown resolved; other tools set any status.
Resolve(c, i, status) == i \in sheet[c] /\ LoadTicket(c, i, status)

\* The button of a maintenance is there until its badge says it is over.
Complete(c, m) == m \in sheet[c] /\ LoadOrder(c, m)

UpkeepNext ==
  \/ PassHour
  \/ \E c \in Crew :
       \/ SaveTicket(c) \/ SaveOrder(c) \/ ReadSheet(c)
       \/ \E i \in Tickets, p \in Posts : ReportIncident(c, i, p)
       \/ \E i \in Tickets, status \in TicketStatuses : Resolve(c, i, status)
       \/ \E m \in Orders, p \in Posts, from, to \in Hours : ScheduleMaintenance(c, m, p, from, to)
       \/ \E m \in Orders : Complete(c, m)

UpkeepSpec == UpkeepInit /\ [][UpkeepNext]_upkeep

-----------------------------------------------------------------------------
\* What an update has read: a row of a station that somebody's token names.
TicketChores == [kind : {"ticket"}, of : Tickets, row : {row \in TicketRow : row.post \in Posts}, status : TicketStatuses]
OrderChores == [kind : {"order"}, of : Orders, row : {row \in OrderRow : row.post \in Posts}, end : Hours]

\* Rows, pages and updates have their types: IncidentOrmEntity, MaintenanceOrmEntity.
UpkeepTypeOK ==
  /\ hour \in Hours /\ ticket \in [Tickets -> TicketRow] /\ order \in [Orders -> OrderRow]
  /\ sheet \in [Crew -> SUBSET (Tickets \cup Orders)]
  /\ chore \in [Crew -> {NoChore} \cup TicketChores \cup OrderChores]

\* Whoever's update is saved last, and whichever states the updates that cross had read, an
\* incident that is resolved says since when: resolveIncident.
ResolvedHasItsTime ==
  \A i \in Tickets : ticket[i].status = "resolved" => ticket[i].resolvedAt \in 0 .. hour
==============================================================================
