--------------------------- MODULE ChargerStatus ---------------------------
(***************************************************************************)
(* The status of one charger in ev-infrastructure-service: its row, the    *)
(* status of its station and the copy in Redis.  The platform (session     *)
(* service) and the charger (through the OCPP gateway) report on it in     *)
(* messages that a consumer handles several at once and again when it      *)
(* fails; staff change it directly.  Every writer reads first and writes   *)
(* in a later statement, and none locks.                                   *)
(*                                                                         *)
(* The service's own event has another routing key (charger.status_changed)*)
(* and does not come back to the consumer.  Of a station only the status   *)
(* is kept; of the caches only the charger's is read by anyone.            *)
(***************************************************************************)
EXTENDS Integers, Sequences

CONSTANTS
  StaffStatuses, PlatformStatuses,  \* statuses staff and the session service ask for
  OcppWords,   \* statuses the charger reports
  MaxReports,  \* bound: messages ever sent
  MaxCrashes   \* bound: handlers that fail

VARIABLES
  row,       \* charging_points.status
  station,   \* stations.status: active or not
  cache,     \* ev:infra:charger:status, "none" when it is not there
  report,    \* the messages in the order they were sent, and how far each is handled
  clerk,     \* the request of a member of staff
  reader,    \* GetChargerAvailabilityUseCase
  crashes,
  late,      \* history: the copy was made from a status the row had lost, or not renewed
  disturbed  \* history: reports were not handled one after the other, or staff stepped in

depot == <<row, station, cache, report, clerk, reader, crashes, late, disturbed>>

Statuses == {"available", "in_use", "reserved", "offline", "faulted"}

Nobody == [at |-> "idle", status |-> "none"]

DepotInit ==
  /\ row = "none" /\ station = "none" /\ cache = "none"
  /\ report = <<>>
  /\ clerk = Nobody /\ reader = Nobody
  /\ crashes = 0
  /\ late = FALSE /\ disturbed = FALSE

\* What the repository makes of a row: offline while the station is not active.
Shown == IF station = "active" THEN row ELSE "offline"

Transitions ==
  [available |-> {"in_use", "reserved", "offline", "faulted"},
   in_use    |-> {"available", "faulted", "offline"},
   reserved  |-> {"available", "in_use", "offline"},
   offline   |-> {"available", "faulted"},
   faulted   |-> {"offline", "available"}]

Keep(v) == UNCHANGED v

-----------------------------------------------------------------------------
(* Stations and chargers.                                                  *)

CreateStation ==
  /\ station = "none"
  /\ station' = "active"
  /\ Keep(<<row, cache, report, clerk, reader, crashes, late, disturbed>>)

\* AddChargerUseCase: the station was active when it was read.
LoadAddCharger ==
  /\ clerk = Nobody /\ row = "none" /\ station = "active"
  /\ clerk' = [at |-> "insert", status |-> "available"]
  /\ Keep(<<row, station, cache, report, reader, crashes, late, disturbed>>)

InsertCharger ==
  /\ clerk.at = "insert"
  /\ row' = clerk.status
  /\ clerk' = Nobody
  /\ Keep(<<station, cache, report, reader, crashes, late, disturbed>>)

\* updateStatus: the transition is judged by the status that was read, which is
\* offline for the chargers of a station that is not active.
LoadStatus(new) ==
  /\ clerk = Nobody /\ row # "none"
  /\ new \in Transitions[Shown]
  /\ clerk' = [at |-> "status", status |-> new]
  /\ Keep(<<row, station, cache, report, reader, crashes, late, disturbed>>)

\* The row gets the new status whatever it is by now; the copy in Redis stays.
CommitStatus ==
  /\ clerk.at = "status"
  /\ row' = clerk.status
  /\ clerk' = Nobody
  /\ late' = TRUE /\ disturbed' = TRUE
  /\ Keep(<<station, cache, report, reader, crashes>>)

\* UpdateStationUseCase with a status, DeleteStationUseCase: the copies in Redis go
\* after the transaction, and stay when Redis fails.
CommitStation(new) ==
  /\ clerk = Nobody /\ station # "none"
  /\ station' = new
  /\ clerk' = [at |-> "invalidate", status |-> new]
  /\ Keep(<<row, cache, report, reader, crashes, late, disturbed>>)

\* Mutant of Invalidated: the copy stays where it is.
InvalidatedNot(copy) == copy

Invalidated(copy) == "none"

InvalidateStation ==
  /\ clerk.at = "invalidate"
  /\ \/ cache' = Invalidated(cache) /\ late' = FALSE
     \/ crashes < MaxCrashes /\ late' = TRUE /\ Keep(cache)
  /\ crashes' = IF late' THEN crashes + 1 ELSE crashes
  /\ clerk' = Nobody
  /\ Keep(<<row, station, report, reader, disturbed>>)

-----------------------------------------------------------------------------
(* The charger's reports.                                                  *)

\* Mutant of OcppStatus: the words of the protocol are kept.
OcppStatusRaw == [w \in {"available", "preparing", "charging", "finishing", "reserved", "unavailable", "offline", "faulted", "suspended"} |-> w]

\* What the statuses of OCPP 1.6 become.
OcppStatus ==
  [available |-> "available", preparing |-> "in_use", charging |-> "in_use", finishing |-> "in_use", reserved |-> "reserved",
   unavailable |-> "offline", offline |-> "offline", faulted |-> "faulted", suspended |-> "available"]

ASSUME DepotAssumption ==
  /\ MaxReports \in Nat /\ MaxCrashes \in Nat
  /\ PlatformStatuses \subseteq Statuses /\ OcppWords \subseteq DOMAIN OcppStatus

Send(from, status) ==
  /\ Len(report) < MaxReports
  /\ report' = Append(report, [from |-> from, status |-> status, at |-> "sent", seen |-> "none", again |-> FALSE])
  /\ Keep(<<row, station, cache, clerk, reader, crashes, late, disturbed>>)

PlatformReports == \E status \in PlatformStatuses : Send("platform", status)

ChargerReports == \E status \in OcppWords : Send("ocpp", OcppStatus[status])

FaultReported == Send("fault", "faulted")

Handled(m) == report[m].at \in {"done", "dropped"}

\* Reports are handled one after the other as long as none of them is begun before an
\* earlier one is done, or begun again after a later one.
InTurn(m) ==
  \A n \in DOMAIN report : /\ n < m => Handled(n)
                           /\ n > m => report[n].at = "sent" /\ ~report[n].again

\* The report is not in processed_events, and the row is read; without it the report
\* is dropped.
ReadCharger(m) ==
  /\ report[m].at = "sent" /\ report[m].from # "fault"
  /\ report' = [report EXCEPT ![m].at = IF row = "none" THEN "dropped" ELSE "read", ![m].seen = row]
  /\ disturbed' = (disturbed \/ ~InTurn(m) \/ row = "none")
  /\ Keep(<<row, station, cache, clerk, reader, crashes, late>>)

\* The session service publishes faults without an eventId, and a search for none finds
\* any event that was processed: the fault is taken for it.
ReadFault(m) ==
  /\ report[m].at = "sent" /\ report[m].from = "fault"
  /\ report' = [report EXCEPT ![m].at = IF \E n \in DOMAIN report : report[n].at = "done" THEN "dropped" ELSE "read", ![m].seen = row]
  /\ disturbed' = (disturbed \/ ~InTurn(m) \/ row = "none")
  /\ Keep(<<row, station, cache, clerk, reader, crashes, late>>)

\* Mutant of Ignored: the charger's word counts as much as the platform's.
IgnoredNever(r) == FALSE

\* A charger that says it is available does not end the platform's use of it.
Ignored(r) == r.from = "ocpp" /\ r.status = "available" /\ r.seen = "in_use"

IgnoreReport(m) ==
  /\ report[m].at = "read" /\ Ignored(report[m])
  /\ report' = [report EXCEPT ![m].at = "done"]
  /\ Keep(<<row, station, cache, clerk, reader, crashes, late, disturbed>>)

UpdateRow(m) ==
  /\ report[m].at = "read" /\ ~Ignored(report[m])
  /\ row' = IF row = "none" THEN "none" ELSE report[m].status
  /\ report' = [report EXCEPT ![m].at = "cache"]
  /\ Keep(<<station, cache, clerk, reader, crashes, late, disturbed>>)

\* setChargerStatus
CacheStatus(m) ==
  /\ report[m].at = "cache"
  /\ cache' = report[m].status
  /\ late' = (row # report[m].status)
  /\ report' = [report EXCEPT ![m].at = "mark"]
  /\ Keep(<<row, station, clerk, reader, crashes, disturbed>>)

MarkReport(m) ==
  /\ report[m].at = "mark" /\ report[m].from # "fault"
  /\ report' = [report EXCEPT ![m].at = "done"]
  /\ Keep(<<row, station, cache, clerk, reader, crashes, late, disturbed>>)

\* Mutant of Refused: the report is taken for handled.
RefusedAsDone(m) == [report EXCEPT ![m].at = "done"]

\* The broker keeps what was not acknowledged.
Refused(m) == [report EXCEPT ![m].at = "sent", ![m].again = TRUE]

HandlerFails(m) ==
  /\ report[m].at \in {"read", "cache", "mark"}
  /\ crashes < MaxCrashes
  /\ crashes' = crashes + 1
  /\ report' = Refused(m)
  /\ late' = (late \/ report[m].at = "cache")
  /\ Keep(<<row, station, cache, clerk, reader, disturbed>>)

\* A fault has no identifier to be remembered by: the insert is refused.
FaultIsNotMarked(m) ==
  /\ report[m].at = "mark" /\ report[m].from = "fault"
  /\ report' = Refused(m)
  /\ Keep(<<row, station, cache, clerk, reader, crashes, late, disturbed>>)

-----------------------------------------------------------------------------
(* The copy in Redis.                                                      *)

\* The copy is not there and the row is read.
ReadAvailability ==
  /\ reader = Nobody /\ cache = "none" /\ row # "none"
  /\ reader' = [at |-> "warm", status |-> Shown]
  /\ Keep(<<row, station, cache, report, clerk, crashes, late, disturbed>>)

WarmCache ==
  /\ reader.at = "warm"
  /\ cache' = reader.status
  /\ late' = (reader.status \notin {row, Shown})
  /\ reader' = Nobody
  /\ Keep(<<row, station, report, clerk, crashes, disturbed>>)

CacheExpires ==
  /\ cache # "none"
  /\ cache' = "none"
  /\ late' = FALSE
  /\ Keep(<<row, station, report, clerk, reader, crashes, disturbed>>)

DepotNext ==
  \/ CreateStation \/ LoadAddCharger \/ InsertCharger
  \/ \E new \in StaffStatuses : LoadStatus(new)
  \/ CommitStatus \/ InvalidateStation
  \/ \E new \in {"active", "closed"} : CommitStation(new)
  \/ PlatformReports \/ ChargerReports \/ FaultReported
  \/ \E m \in DOMAIN report :
       \/ ReadCharger(m) \/ ReadFault(m) \/ IgnoreReport(m) \/ UpdateRow(m) \/ CacheStatus(m)
       \/ MarkReport(m) \/ FaultIsNotMarked(m) \/ HandlerFails(m)
  \/ ReadAvailability \/ WarmCache \/ CacheExpires

-----------------------------------------------------------------------------
(* Properties.                                                             *)

Reports == [from : {"platform", "ocpp", "fault"}, status : Statuses, at : {"sent", "read", "cache", "mark", "done", "dropped"},
            seen : Statuses \cup {"none"}, again : BOOLEAN]

\* Rows, copies and messages have their types.
DepotTypeOK ==
  /\ {row, cache} \subseteq Statuses \cup {"none"}
  /\ station \in {"none", "active", "closed"}
  /\ report \in Seq(Reports) /\ Len(report) <= MaxReports
  /\ clerk.at \in {"idle", "insert", "status", "invalidate"} /\ reader.at \in {"idle", "warm"}
  /\ crashes \in 0..MaxCrashes

\* The charger's word makes a charger available that the platform uses only when the
\* handler had looked before the platform took it ("must NOT overwrite platform in_use").
UseEndsByPlatform ==
  [][\A m \in DOMAIN report : UpdateRow(m) /\ report[m].from = "ocpp" /\ row = "in_use" /\ row' = "available"
       => report[m].seen # "in_use"]_depot

Quiet ==
  /\ \A m \in DOMAIN report : Handled(m)
  /\ clerk = Nobody /\ reader = Nobody

\* Once nobody is at work, Redis tells the status of the row, or the one its readers
\* are shown, unless staff changed the row past it or a slow writer had the last word.
CacheTellsRow == Quiet /\ ~late => cache \in {"none", row, Shown}

\* What a report makes of the status that the ones before it left.
Applied(before, r) == IF r.at = "dropped" \/ Ignored([r EXCEPT !.seen = before]) THEN before ELSE r.status

\* The statuses that the first n reports leave when each is applied to what the last one left.
Replays(n) == {left \in [0..n -> Statuses] : left[0] = "available" /\ \A k \in 1..n : left[k] = Applied(left[k - 1], report[k])}

\* Reports that were handled one after the other, however often, leave the status the
\* last of them asks for.
RowFollowsReports == Quiet /\ ~disturbed /\ row # "none" => \E left \in Replays(Len(report)) : row = left[Len(report)]
=============================================================================
