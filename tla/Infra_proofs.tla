---------------------------- MODULE Infra_proofs ----------------------------
(***************************************************************************)
(* Proofs about the services around the charger: the gateway's connections *)
(* (OcppGateway), the status of a charger (ChargerStatus) and its prices   *)
(* (PricingRules), for any number of sockets, commands, reports, rules and *)
(* administrators, and days of any length.                                 *)
(***************************************************************************)
EXTENDS MCInfra, FiniteSetTheorems, WellFoundedInduction, TLAPS

-----------------------------------------------------------------------------
(* OcppGateway: the entry of the charger and the commands sent to it.      *)

\* A command that waits in the queue was sent once for every start before this one.
SentPerStart ==
  \A k \in Commands : carried[k] <= IF command[k] = "queued" THEN restarts ELSE restarts + 1

GatewayInv == GatewayTypeOK /\ restarts \in Nat /\ ChargerIsReached /\ SentPerStart

LEMMA GatewayStarts == GatewayInit => GatewayInv
<1> SUFFICES ASSUME GatewayInit PROVE GatewayInv
  OBVIOUS
<1>1. GatewayTypeOK /\ restarts \in Nat
  BY DEF GatewayInit, GatewayTypeOK
<1>2. ChargerIsReached /\ SentPerStart
  BY GatewayAssumption DEF GatewayInit, ChargerIsReached, SentPerStart
<1> QED
  BY <1>1, <1>2 DEF GatewayInv

LEMMA GatewayStep == ASSUME GatewayInv, [GatewayNext]_gateway PROVE GatewayInv'
<1> USE GatewayAssumption DEF GatewayInv
<1>1. CASE UNCHANGED gateway
  BY <1>1 DEF gateway, GatewayTypeOK, ChargerIsReached, SentPerStart
<1>2. ASSUME NEW s \in Sockets, Connect(s) PROVE GatewayInv'
  <2>1. GatewayTypeOK' /\ restarts' = restarts /\ SentPerStart'
    BY <1>2 DEF Connect, Registered, GatewayTypeOK, SentPerStart
  <2>2. ChargerIsReached'
    BY <1>2 DEF Connect, Registered, GatewayTypeOK, ChargerIsReached
  <2> QED
    BY <2>1, <2>2
<1>3. ASSUME NEW s \in Sockets, Disconnect(s) PROVE GatewayInv'
  BY <1>3 DEF Disconnect, GatewayTypeOK, ChargerIsReached, SentPerStart
<1>4. ASSUME NEW s \in Sockets, Closed(s) PROVE GatewayInv'
  <2>1. GatewayTypeOK' /\ restarts' = restarts /\ SentPerStart'
    BY <1>4 DEF Closed, GatewayTypeOK, SentPerStart
  <2>2. ChargerIsReached'
    BY <1>4 DEF Closed, GatewayTypeOK, ChargerIsReached
  <2> QED
    BY <2>1, <2>2
<1>5. ASSUME NEW s \in Sockets, HandleCall(s) \/ HandleStatus(s) PROVE GatewayInv'
  BY <1>5 DEF HandleCall, HandleStatus, Answered, GatewayTypeOK, ChargerIsReached, SentPerStart
<1>6. ASSUME NEW k \in Commands, DropCommand(k) \/ TimeOut(k) \/ (\E s \in Sockets : Answer(k, s)) PROVE GatewayInv'
  <2>1. /\ command' = [command EXCEPT ![k] = "settled"]
        /\ UNCHANGED <<socket, conn, latest, word, carried, restarts, closedUnder, unanswered>>
    BY <1>6 DEF DropCommand, TimeOut, Answer, GivenUp
  <2>2. GatewayTypeOK' /\ restarts' = restarts /\ SentPerStart'
    BY <2>1 DEF GatewayTypeOK, SentPerStart
  <2> QED
    BY <2>1, <2>2 DEF ChargerIsReached
<1>7. ASSUME NEW k \in Commands, SendCommand(k) PROVE GatewayInv'
  <2>1. GatewayTypeOK' /\ restarts' = restarts /\ SentPerStart'
    <3>1. /\ command[k] = "queued" /\ command' = [command EXCEPT ![k] = "pending"]
          /\ carried' = [carried EXCEPT ![k] = carried[k] + 1]
          /\ UNCHANGED <<socket, conn, latest, word, restarts, closedUnder, unanswered>>
      BY <1>7 DEF SendCommand
    <3>2. command \in [Commands -> {"queued", "pending", "settled"}] /\ carried \in [Commands -> Nat]
      BY DEF GatewayTypeOK
    <3>3. GatewayTypeOK'
      BY <3>1, <3>2 DEF GatewayTypeOK
    <3>4. \A d \in Commands : carried'[d] <= IF command'[d] = "queued" THEN restarts ELSE restarts + 1
      <4> TAKE d \in Commands
      <4>1. carried[d] \in Nat /\ carried[d] <= (IF command[d] = "queued" THEN restarts ELSE restarts + 1) /\ restarts \in Nat
        BY <3>2 DEF SentPerStart
      <4>2. CASE d = k
        <5>1. carried'[d] = carried[d] + 1 /\ command'[d] = "pending" /\ command[d] = "queued"
          BY <3>1, <3>2, <4>2
        <5> QED
          BY <4>1, <5>1
      <4>3. CASE d # k
        BY <3>1, <3>2, <4>1, <4>3
      <4> QED
        BY <4>2, <4>3
    <3> QED
      BY <3>1, <3>3, <3>4 DEF SentPerStart
  <2>2. \A d \in Commands : carried'[d] <= restarts' + 1
    <3> TAKE d \in Commands
    <3>1. carried'[d] \in Nat /\ restarts' \in Nat
      BY <2>1 DEF GatewayTypeOK
    <3>2. carried'[d] <= restarts' \/ carried'[d] <= restarts' + 1
      BY <2>1 DEF SentPerStart
    <3> QED
      BY <3>1, <3>2
  <2>3. UNCHANGED <<socket, conn, latest, closedUnder>>
    BY <1>7 DEF SendCommand
  <2> QED
    BY <2>1, <2>2, <2>3 DEF ChargerIsReached
<1>8. CASE Restart
  <2>1. GatewayTypeOK' /\ restarts' = restarts + 1 /\ SentPerStart'
    BY <1>8 DEF Restart, GatewayTypeOK, SentPerStart
  <2>2. ChargerIsReached'
    BY <1>8 DEF Restart, GatewayTypeOK, ChargerIsReached
  <2> QED
    BY <2>1, <2>2
<1> QED
  BY <1>1, <1>2, <1>3, <1>4, <1>5, <1>6, <1>7, <1>8 DEF GatewayNext

-----------------------------------------------------------------------------
(* ChargerStatus: the row, the copy in Redis and the reports.              *)

ReportsTyped == report \in Seq(Reports) /\ Len(report) <= MaxReports

\* The statuses that the clerk and the reader hold were asked for or read.
HandsTyped ==
  /\ clerk \in [at : {"idle", "insert", "status", "invalidate"}, status : Statuses \cup {"none", "active", "closed"}]
  /\ clerk.at \in {"insert", "status"} => clerk.status \in Statuses
  /\ clerk.at = "insert" => clerk.status = "available"
  /\ reader \in [at : {"idle", "warm"}, status : Statuses \cup {"none"}]

\* A copy that is not late tells the row, or is about to be renewed.
CopyTells ==
  ~late => \/ cache \in {"none", row, Shown}
           \/ \E m \in DOMAIN report : report[m].at = "cache"
           \/ clerk.at = "invalidate"

\* Before there is a row there is nothing to copy, and only then one is inserted, for a station.
NoRowNoCopy ==
  /\ row = "none" => reader.at = "idle" /\ (~late => cache = "none")
  /\ clerk.at = "insert" => row = "none"
  /\ clerk.at = "status" => row # "none"
  /\ station = "none" => row = "none" /\ clerk.at # "insert"

DepotInv ==
  /\ row \in Statuses \cup {"none"} /\ cache \in Statuses \cup {"none"}
  /\ station \in {"none", "active", "closed"} /\ crashes \in 0..MaxCrashes
  /\ late \in BOOLEAN /\ disturbed \in BOOLEAN
  /\ ReportsTyped /\ HandsTyped /\ CopyTells /\ NoRowNoCopy

LEMMA DepotStarts == DepotInit => DepotInv
<1> SUFFICES ASSUME DepotInit PROVE DepotInv
  OBVIOUS
<1>1. late = FALSE /\ disturbed = FALSE /\ report = <<>> /\ row = "none" /\ cache = "none" /\ station = "none" /\ crashes = 0
      /\ clerk = Nobody /\ reader = Nobody
  BY Zenon DEF DepotInit
<1>2. ReportsTyped
  BY <1>1, DepotAssumption DEF ReportsTyped
<1>3. HandsTyped /\ CopyTells /\ NoRowNoCopy
  BY <1>1 DEF HandsTyped, CopyTells, NoRowNoCopy, Nobody
<1>4. late \in BOOLEAN /\ disturbed \in BOOLEAN
  BY <1>1, Zenon
<1> QED
  BY <1>1, <1>2, <1>3, <1>4, DepotAssumption DEF DepotInv

\* What a step does to the reports: one is sent, or one moves on.
Sends == \E r \in Reports : r.at = "sent" /\ ~r.again /\ report' = Append(report, r) /\ Len(report) < MaxReports
Moves(m) == \E r \in Reports : report' = [report EXCEPT ![m] = r]

LEMMA ReportsStay ==
  ASSUME ReportsTyped, Sends \/ \E m \in DOMAIN report : Moves(m)
  PROVE  ReportsTyped'
<1>1. CASE Sends
  BY <1>1, DepotAssumption DEF Sends, ReportsTyped
<1>2. ASSUME NEW m \in DOMAIN report, NEW r \in Reports, report' = [report EXCEPT ![m] = r]
      PROVE  ReportsTyped'
  BY <1>2 DEF ReportsTyped
<1> QED
  BY <1>1, <1>2 DEF Moves

\* Every step of a report's handler keeps the other fields of the report.
LEMMA ReportMoves ==
  ASSUME ReportsTyped, NEW m \in DOMAIN report, row \in Statuses \cup {"none"},
         ReadCharger(m) \/ ReadFault(m) \/ IgnoreReport(m) \/ UpdateRow(m) \/ CacheStatus(m) \/ MarkReport(m) \/ FaultIsNotMarked(m)
           \/ HandlerFails(m)
  PROVE  Moves(m) /\ ReportsTyped'
<1>1. report[m] \in Reports /\ report \in Seq(Reports)
  BY DEF ReportsTyped
<1>2. ASSUME NEW r \in Reports, report' = [report EXCEPT ![m] = r]
      PROVE  Moves(m) /\ ReportsTyped'
  <2>1. Moves(m)
    BY <1>2 DEF Moves
  <2> QED
    BY <2>1, ReportsStay
<1>3. ASSUME NEW label \in {"sent", "read", "cache", "mark", "done", "dropped"}, report' = [report EXCEPT ![m].at = label, ![m].seen = row]
      PROVE  Moves(m) /\ ReportsTyped'
  <2>1. PICK r : r = [report[m] EXCEPT !.at = label, !.seen = row]
    OBVIOUS
  <2>2. r \in Reports
    BY <1>1, <2>1 DEF Reports
  <2>3. report' = [report EXCEPT ![m] = r]
    BY <1>1, <1>3, <2>1
  <2> QED
    BY <1>2, <2>2, <2>3
<1>4. ASSUME NEW label \in {"sent", "read", "cache", "mark", "done", "dropped"}, report' = [report EXCEPT ![m].at = label]
      PROVE  Moves(m) /\ ReportsTyped'
  <2>1. PICK r : r = [report[m] EXCEPT !.at = label]
    OBVIOUS
  <2>2. r \in Reports
    BY <1>1, <2>1 DEF Reports
  <2>3. report' = [report EXCEPT ![m] = r]
    BY <1>1, <1>4, <2>1
  <2> QED
    BY <1>2, <2>2, <2>3
<1>5. ASSUME report' = Refused(m)
      PROVE  Moves(m) /\ ReportsTyped'
  <2>1. PICK r : r = [report[m] EXCEPT !.at = "sent", !.again = TRUE]
    OBVIOUS
  <2>2. r \in Reports
    BY <1>1, <2>1 DEF Reports
  <2>3. report' = [report EXCEPT ![m] = r]
    BY <1>1, <1>5, <2>1 DEF Refused
  <2> QED
    BY <1>2, <2>2, <2>3
<1>6. CASE ReadCharger(m) \/ ReadFault(m)
  BY <1>3, <1>6 DEF ReadCharger, ReadFault
<1>7. CASE IgnoreReport(m) \/ UpdateRow(m) \/ CacheStatus(m) \/ MarkReport(m)
  BY <1>4, <1>7 DEF IgnoreReport, UpdateRow, CacheStatus, MarkReport
<1>8. CASE FaultIsNotMarked(m) \/ HandlerFails(m)
  BY <1>5, <1>8 DEF FaultIsNotMarked, HandlerFails
<1> QED
  BY <1>6, <1>7, <1>8

LEMMA ReportSends ==
  ASSUME ReportsTyped, PlatformReports \/ ChargerReports \/ FaultReported
  PROVE  Sends /\ UNCHANGED <<row, station, cache, clerk, reader, crashes, late, disturbed>>
<1>1. ASSUME NEW from \in {"platform", "ocpp", "fault"}, NEW status \in Statuses, Send(from, status)
      PROVE  Sends /\ UNCHANGED <<row, station, cache, clerk, reader, crashes, late, disturbed>>
  <2>1. PICK r : r = [from |-> from, status |-> status, at |-> "sent", seen |-> "none", again |-> FALSE]
    OBVIOUS
  <2>2. r \in Reports /\ r.at = "sent" /\ ~r.again
    BY <2>1 DEF Reports
  <2>3. Len(report) < MaxReports /\ report' = Append(report, r) /\ UNCHANGED <<row, station, cache, clerk, reader, crashes, late, disturbed>>
    BY <1>1, <2>1 DEF Send, Keep
  <2> QED
    BY <2>2, <2>3 DEF Sends
<1>2. \A said \in OcppWords : OcppStatus[said] \in Statuses
  BY DepotAssumption DEF OcppStatus, Statuses
<1>3. CASE PlatformReports
  BY <1>1, <1>3, DepotAssumption DEF PlatformReports
<1>4. CASE ChargerReports
  BY <1>1, <1>2, <1>4 DEF ChargerReports
<1>5. CASE FaultReported
  BY <1>1, <1>5 DEF FaultReported, Statuses
<1> QED
  BY <1>3, <1>4, <1>5

\* Everything but the row, the copies and the hands of a step that works on a report.
LEMMA DepotStep == ASSUME DepotInv, [DepotNext]_depot PROVE DepotInv'
<1>1. /\ row \in Statuses \cup {"none"} /\ cache \in Statuses \cup {"none"} /\ station \in {"none", "active", "closed"}
      /\ crashes \in 0..MaxCrashes /\ late \in BOOLEAN /\ disturbed \in BOOLEAN
      /\ ReportsTyped /\ HandsTyped /\ CopyTells /\ NoRowNoCopy
  BY DEF DepotInv
<1>2. ASSUME UNCHANGED <<row, station, cache, clerk, reader, late>>, ReportsTyped', crashes' \in 0..MaxCrashes, disturbed' \in BOOLEAN,
             (\E m \in DOMAIN report : report[m].at = "cache") => \E m \in DOMAIN report' : report'[m].at = "cache"
      PROVE  DepotInv'
  BY <1>1, <1>2 DEF DepotInv, HandsTyped, CopyTells, NoRowNoCopy, Shown
<1>3. CASE UNCHANGED depot
  <2>1. UNCHANGED <<row, station, cache, clerk, reader, late>> /\ report' = report /\ crashes' = crashes /\ disturbed' = disturbed
    BY <1>3, Zenon DEF depot
  <2>2. ReportsTyped'
    BY <1>1, <2>1 DEF ReportsTyped
  <2> QED
    BY <1>1, <1>2, <2>1, <2>2
<1>4. CASE PlatformReports \/ ChargerReports \/ FaultReported
  <2>1. Sends /\ UNCHANGED <<row, station, cache, clerk, reader, crashes, late, disturbed>>
    BY <1>1, <1>4, ReportSends
  <2>2. ReportsTyped'
    BY <1>1, <2>1, ReportsStay
  <2>3. \A m \in DOMAIN report : m \in DOMAIN report' /\ report'[m] = report[m]
    BY <1>1, <2>1 DEF Sends, ReportsTyped
  <2> QED
    BY <1>1, <1>2, <2>1, <2>2, <2>3
<1>5. CASE CreateStation \/ LoadAddCharger \/ \E new \in StaffStatuses : LoadStatus(new)
  <2>1. UNCHANGED <<row, cache, report, reader, crashes, late, disturbed>>
    BY <1>5, Zenon DEF CreateStation, LoadAddCharger, LoadStatus, Keep
  <2>2. ReportsTyped'
    BY <1>1, <2>1 DEF ReportsTyped
  <2>3. HandsTyped' /\ station' \in {"none", "active", "closed"} /\ (Shown' = Shown \/ row = "none")
    <3>1. CASE CreateStation
      BY <1>1, <2>1, <3>1 DEF CreateStation, Keep, HandsTyped, NoRowNoCopy
    <3>2. CASE LoadAddCharger
      <4>1. clerk' = [at |-> "insert", status |-> "available"] /\ station' = station /\ reader' = reader
        BY <2>1, <3>2 DEF LoadAddCharger, Keep
      <4>2. HandsTyped'
        BY <1>1, <4>1 DEF HandsTyped, Statuses
      <4> QED
        BY <1>1, <2>1, <4>1, <4>2 DEF Shown
    <3>3. ASSUME NEW new \in StaffStatuses, LoadStatus(new)
          PROVE  HandsTyped' /\ station' \in {"none", "active", "closed"} /\ (Shown' = Shown \/ row = "none")
      <4>1. Shown \in Statuses
        BY <1>1, <3>3 DEF LoadStatus, Shown, Statuses
      <4>2. new \in Statuses
        BY <3>3, <4>1 DEF LoadStatus, Transitions, Statuses
      <4> QED
        BY <1>1, <2>1, <3>3, <4>2 DEF LoadStatus, Keep, HandsTyped, Shown
    <3> QED
      BY <1>5, <3>1, <3>2, <3>3
  <2>4. (clerk.at # "invalidate" \/ clerk' = clerk) /\ (clerk'.at = "insert" => row = "none" /\ station' # "none")
        /\ (clerk'.at = "status" => row # "none")
        /\ (station' = station \/ station' = "active")
    BY <1>1, <1>5 DEF CreateStation, LoadAddCharger, LoadStatus, Keep, Nobody, NoRowNoCopy
  <2>5. CopyTells' /\ NoRowNoCopy'
    BY <1>1, <2>1, <2>3, <2>4 DEF CopyTells, NoRowNoCopy
  <2> QED
    BY <1>1, <2>1, <2>2, <2>3, <2>5 DEF DepotInv
<1>6. CASE InsertCharger
  <2>1. UNCHANGED <<station, cache, report, reader, crashes, late, disturbed>> /\ row' = clerk.status /\ clerk' = Nobody
        /\ clerk.at = "insert"
    BY <1>6 DEF InsertCharger, Keep
  <2>2. row' \in Statuses /\ HandsTyped' /\ ReportsTyped'
    BY <1>1, <2>1 DEF HandsTyped, ReportsTyped, Nobody
  <2>3. CopyTells' /\ NoRowNoCopy'
    BY <1>1, <2>1, <2>2 DEF CopyTells, NoRowNoCopy, Shown, Statuses, Nobody
  <2> QED
    BY <1>1, <2>1, <2>2, <2>3 DEF DepotInv
<1>7. CASE CommitStatus
  <2>1. UNCHANGED <<station, cache, report, reader, crashes>> /\ row' = clerk.status /\ clerk' = Nobody /\ clerk.at = "status"
        /\ late' = TRUE /\ disturbed' = TRUE
    BY <1>7, Zenon DEF CommitStatus, Keep
  <2>2. row' \in Statuses /\ HandsTyped' /\ ReportsTyped' /\ late' \in BOOLEAN /\ disturbed' \in BOOLEAN
    BY <1>1, <2>1 DEF HandsTyped, ReportsTyped, Nobody
  <2>3. CopyTells' /\ NoRowNoCopy'
    BY <1>1, <2>1, <2>2 DEF CopyTells, NoRowNoCopy, Statuses, Nobody
  <2> QED
    BY <1>1, <2>1, <2>2, <2>3 DEF DepotInv
<1>8. ASSUME NEW new \in {"active", "closed"}, CommitStation(new)
      PROVE  DepotInv'
  <2>1. UNCHANGED <<row, cache, report, reader, crashes, late, disturbed>> /\ station' = new
        /\ clerk' = [at |-> "invalidate", status |-> new]
    BY <1>8 DEF CommitStation, Keep
  <2>2. HandsTyped' /\ ReportsTyped'
    BY <1>1, <2>1 DEF HandsTyped, ReportsTyped
  <2>3. CopyTells' /\ NoRowNoCopy'
    BY <1>1, <2>1 DEF CopyTells, NoRowNoCopy
  <2> QED
    BY <1>1, <2>1, <2>2, <2>3 DEF DepotInv
<1>9. CASE InvalidateStation
  <2>1. /\ UNCHANGED <<row, station, report, reader, disturbed>> /\ clerk' = Nobody
        /\ \/ cache' = "none" /\ late' = FALSE /\ crashes' = crashes
           \/ cache' = cache /\ late' = TRUE /\ crashes' = crashes + 1 /\ crashes < MaxCrashes
    BY <1>9 DEF InvalidateStation, Invalidated, Keep
  <2>2. HandsTyped' /\ ReportsTyped'
    BY <1>1, <2>1 DEF HandsTyped, ReportsTyped, Nobody
  <2>3. CopyTells' /\ NoRowNoCopy'
    BY <1>1, <2>1 DEF CopyTells, NoRowNoCopy, Nobody
  <2>4. late' \in BOOLEAN /\ cache' \in Statuses \cup {"none"}
    BY <1>1, <2>1, Zenon
  <2>5. crashes' \in 0..MaxCrashes
    BY <1>1, <2>1, DepotAssumption
  <2> QED
    BY <1>1, <2>1, <2>2, <2>3, <2>4, <2>5 DEF DepotInv
<1>10. CASE ReadAvailability
  <2>1. UNCHANGED <<row, station, cache, report, clerk, crashes, late, disturbed>> /\ reader' = [at |-> "warm", status |-> Shown]
        /\ row # "none"
    BY <1>10 DEF ReadAvailability, Keep
  <2>2. HandsTyped' /\ ReportsTyped'
    BY <1>1, <2>1 DEF HandsTyped, ReportsTyped, Shown, Statuses
  <2>3. CopyTells' /\ NoRowNoCopy'
    BY <1>1, <2>1 DEF CopyTells, NoRowNoCopy, Shown
  <2> QED
    BY <1>1, <2>1, <2>2, <2>3 DEF DepotInv
<1>11. CASE WarmCache
  <2>1. UNCHANGED <<row, station, report, clerk, crashes, disturbed>> /\ reader' = Nobody /\ cache' = reader.status
        /\ reader.at = "warm" /\ late' = (reader.status \notin {row, Shown})
    BY <1>11 DEF WarmCache, Keep
  <2>2. HandsTyped' /\ ReportsTyped' /\ cache' \in Statuses \cup {"none"} /\ late' \in BOOLEAN /\ row # "none"
    BY <1>1, <2>1 DEF HandsTyped, ReportsTyped, Nobody, NoRowNoCopy
  <2>3. CopyTells' /\ NoRowNoCopy'
    BY <1>1, <2>1, <2>2 DEF CopyTells, NoRowNoCopy, Shown
  <2> QED
    BY <1>1, <2>1, <2>2, <2>3 DEF DepotInv
<1>12. CASE CacheExpires
  <2>1. UNCHANGED <<row, station, report, clerk, reader, crashes, disturbed>> /\ cache' = "none" /\ late' = FALSE
    BY <1>12, Zenon DEF CacheExpires, Keep
  <2>2. HandsTyped' /\ ReportsTyped' /\ late' \in BOOLEAN
    BY <1>1, <2>1 DEF HandsTyped, ReportsTyped
  <2>3. CopyTells' /\ NoRowNoCopy'
    BY <1>1, <2>1 DEF CopyTells, NoRowNoCopy
  <2> QED
    BY <1>1, <2>1, <2>2, <2>3 DEF DepotInv
<1>13. ASSUME NEW m \in DOMAIN report,
              ReadCharger(m) \/ ReadFault(m) \/ IgnoreReport(m) \/ UpdateRow(m) \/ CacheStatus(m) \/ MarkReport(m) \/ FaultIsNotMarked(m)
                \/ HandlerFails(m)
       PROVE  DepotInv'
  <2>1. Moves(m) /\ ReportsTyped' /\ report[m] \in Reports /\ DOMAIN report' = DOMAIN report
        /\ \A n \in DOMAIN report \ {m} : report'[n] = report[n]
    BY <1>1, <1>13, ReportMoves DEF Moves, ReportsTyped
  <2>2. CASE ReadCharger(m) \/ ReadFault(m)
    <3>1. UNCHANGED <<row, station, cache, clerk, reader, late>> /\ crashes' = crashes /\ report[m].at = "sent"
      BY <2>2, Zenon DEF ReadCharger, ReadFault, Keep
    <3>2. disturbed' \in BOOLEAN
      BY <2>2, Zenon DEF ReadCharger, ReadFault
    <3> QED
      BY <1>1, <1>2, <2>1, <3>1, <3>2
  <2>3. CASE IgnoreReport(m) \/ MarkReport(m) \/ FaultIsNotMarked(m)
    <3>1. UNCHANGED <<row, station, cache, clerk, reader, late>> /\ crashes' = crashes /\ disturbed' = disturbed
          /\ report[m].at # "cache"
      BY <2>3 DEF IgnoreReport, MarkReport, FaultIsNotMarked, Keep
    <3> QED
      BY <1>1, <1>2, <2>1, <3>1
  <2>4. CASE UpdateRow(m)
    <3>1. UNCHANGED <<station, cache, clerk, reader, crashes, late, disturbed>>
          /\ row' = (IF row = "none" THEN "none" ELSE report[m].status) /\ report' = [report EXCEPT ![m].at = "cache"]
      BY <2>4 DEF UpdateRow, Keep
    <3>2. row' \in Statuses \cup {"none"} /\ (row' = "none" <=> row = "none") /\ HandsTyped'
      BY <1>1, <2>1, <3>1 DEF HandsTyped, Reports, Statuses
    <3>3. report'[m].at = "cache" /\ m \in DOMAIN report'
      BY <1>1, <2>1, <3>1 DEF ReportsTyped, Reports
    <3>4. CopyTells' /\ NoRowNoCopy'
      BY <1>1, <3>1, <3>2, <3>3 DEF CopyTells, NoRowNoCopy
    <3> QED
      BY <1>1, <2>1, <3>1, <3>2, <3>4 DEF DepotInv
  <2>5. CASE CacheStatus(m)
    <3>1. UNCHANGED <<row, station, clerk, reader, crashes, disturbed>> /\ cache' = report[m].status
          /\ late' = (row # report[m].status)
      BY <2>5 DEF CacheStatus, Keep
    <3>2. HandsTyped' /\ cache' \in Statuses /\ late' \in BOOLEAN
      BY <1>1, <2>1, <3>1 DEF HandsTyped, Reports
    <3>3. CopyTells' /\ NoRowNoCopy'
      BY <1>1, <3>1, <3>2 DEF CopyTells, NoRowNoCopy, Statuses
    <3> QED
      BY <1>1, <2>1, <3>1, <3>2, <3>3 DEF DepotInv
  <2>6. CASE HandlerFails(m)
    <3>1. UNCHANGED <<row, station, cache, clerk, reader, disturbed>> /\ late' = (late \/ report[m].at = "cache")
          /\ crashes' = crashes + 1 /\ crashes < MaxCrashes
      BY <2>6 DEF HandlerFails, Keep
    <3>2. HandsTyped' /\ late' \in BOOLEAN /\ crashes' \in 0..MaxCrashes
      BY <1>1, <3>1, DepotAssumption DEF HandsTyped
    <3>3. CopyTells' /\ NoRowNoCopy'
      BY <1>1, <2>1, <3>1 DEF CopyTells, NoRowNoCopy, Shown
    <3> QED
      BY <1>1, <2>1, <3>1, <3>2, <3>3 DEF DepotInv
  <2> QED
    BY <1>13, <2>2, <2>3, <2>4, <2>5, <2>6
<1> QED
  BY <1>3, <1>4, <1>5, <1>6, <1>7, <1>8, <1>9, <1>10, <1>11, <1>12, <1>13 DEF DepotNext

\* How far the row has come when k reports are handled and the next one may be at work.
Stands(k, before) ==
  IF k = Len(report) THEN row = before
  ELSE LET e == report[k + 1] IN
       /\ ~Handled(k + 1) /\ row \in {before, Applied(before, e)}
       /\ e.at = "sent" /\ ~e.again => row = before
       /\ e.at = "read" => e.seen = row
       /\ e.at \in {"cache", "mark"} => row = e.status /\ Applied(before, e) = e.status
       /\ e.from = "fault" /\ (e.again \/ e.at # "sent") => \A n \in 1..k : report[n].at # "done"

Untouched(n) == report[n].at = "sent" /\ ~report[n].again

\* Undisturbed reports are handled up to some report, and untouched after the next one.
InOrder ==
  ~disturbed =>
    \E k \in 0..Len(report) :
      /\ \A n \in 1..k : Handled(n)
      /\ \A n \in k + 2..Len(report) : Untouched(n)
      /\ row = "none" => k = 0 /\ \A n \in DOMAIN report : Untouched(n)
      /\ row # "none" => \E left \in Replays(k) : Stands(k, left[k])

LEMMA SeqExcept ==
  ASSUME NEW S, NEW s \in Seq(S), NEW m \in DOMAIN s, NEW e \in S, NEW t, t = [s EXCEPT ![m] = e]
  PROVE  t[m] = e /\ (\A n \in DOMAIN s : n # m => t[n] = s[n]) /\ Len(t) = Len(s) /\ DOMAIN t = DOMAIN s
OBVIOUS

LEMMA Places ==
  ASSUME NEW len \in Nat, NEW k \in 0..len
  PROVE  /\ k \in Nat /\ \A n \in 1..k : n \in 1..len /\ n # k + 1
         /\ \A n \in k + 2..len : n \in 1..len /\ n # k + 1 /\ k + 1 \in 1..len /\ k + 1 < n /\ k # len
         /\ k # len => k + 1 \in 1..len /\ k + 1 \in 0..len
         /\ k # len /\ k + 1 # len => k + 2 \in k + 2..len
         /\ \A n \in (k + 1) + 2..len : n \in k + 2..len
         /\ \A n \in 1..k + 1 : n \in 1..k \/ n = k + 1
         /\ \A n \in 1..len : n \in 1..k \/ n = k + 1 \/ n \in k + 2..len
         /\ (k + 1) + 1 = k + 2
OBVIOUS

\* What the reports leave does not depend on the later ones, and goes on with the next one.
LEMMA ReplaysStay ==
  ASSUME NEW k \in Nat, NEW left \in Replays(k), \A n \in 1..k : report'[n] = report[n]
  PROVE  left \in Replays(k)'
BY DEF Replays

LEMMA ReplaysGrow ==
  ASSUME NEW k \in Nat, NEW left \in Replays(k), \A n \in 1..k : report'[n] = report[n],
         NEW s \in Statuses, s = Applied(left[k], report'[k + 1])
  PROVE  \E longer \in Replays(k + 1)' : longer[k + 1] = s
<1> DEFINE longer == [n \in 0..k + 1 |-> IF n = k + 1 THEN s ELSE left[n]]
<1>1. left \in [0..k -> Statuses] /\ left[0] = "available" /\ \A n \in 1..k : left[n] = Applied(left[n - 1], report'[n])
  BY DEF Replays
<1>2. longer \in [0..k + 1 -> Statuses] /\ longer[0] = "available" /\ longer[k + 1] = s /\ longer[k] = left[k]
  BY <1>1
<1>3. ASSUME NEW n \in 1..k + 1 PROVE longer[n] = Applied(longer[n - 1], report'[n])
  <2>1. CASE n = k + 1
    BY <1>2, <2>1
  <2>2. CASE n # k + 1
    <3>1. n \in 1..k /\ longer[n] = left[n] /\ longer[n - 1] = left[n - 1]
      BY <1>3, <2>2
    <3> QED
      BY <1>1, <3>1
  <2> QED
    BY <2>1, <2>2
<1> HIDE DEF longer
<1>4. longer \in Replays(k + 1)'
  BY <1>2, <1>3 DEF Replays
<1> QED
  BY <1>2, <1>4

LEMMA OrderStarts == DepotInit => InOrder
<1> SUFFICES ASSUME DepotInit PROVE InOrder
  OBVIOUS
<1>1. report = <<>> /\ row = "none"
  BY DEF DepotInit
<1> QED
  BY <1>1 DEF InOrder

\* Only the report after the handled ones can be at work.
LEMMA AtWork ==
  ASSUME ReportsTyped, NEW k \in 0..Len(report), NEW m \in DOMAIN report,
         \A n \in 1..k : Handled(n), \A n \in k + 2..Len(report) : Untouched(n), k # Len(report) => ~Handled(k + 1),
         ~Handled(m), report[m].at # "sent" \/ InTurn(m)
  PROVE  m = k + 1 /\ m <= Len(report) /\ k # Len(report)
<1>1. DOMAIN report = 1..Len(report) /\ Len(report) \in Nat
  BY DEF ReportsTyped
<1>2. m \notin 1..k
  OBVIOUS
<1>3. m \notin k + 2..Len(report)
  <2> SUFFICES ASSUME m \in k + 2..Len(report) PROVE FALSE
    OBVIOUS
  <2>1. InTurn(m)
    BY DEF Untouched
  <2>2. k + 1 \in 1..Len(report) /\ k + 1 < m /\ k # Len(report)
    BY <1>1, Places
  <2> QED
    BY <1>1, <2>1, <2>2 DEF InTurn
<1>4. m = k + 1
  BY <1>1, <1>2, <1>3, Places
<1>5. m \in 1..Len(report) /\ k \in Nat
  BY <1>1, Places
<1>6. m <= Len(report) /\ k # Len(report)
  BY <1>1, <1>4, <1>5
<1> QED
  BY <1>4, <1>6

LEMMA AppliedIs ==
  ASSUME NEW r \in Reports, NEW before
  PROVE  Applied(before, r) =
           IF r.at = "dropped" \/ (r.from = "ocpp" /\ r.status = "available" /\ before = "in_use") THEN before ELSE r.status
<1>1. PICK s : s = [r EXCEPT !.seen = before]
  OBVIOUS
<1>2. s.from = r.from /\ s.status = r.status /\ s.seen = before
  BY <1>1 DEF Reports
<1> QED
  BY <1>1, <1>2 DEF Applied, Ignored

\* The report at work goes on, or is handled and the next one follows.
LEMMA OrderMoves ==
  ASSUME ReportsTyped, NEW k \in 0..Len(report), k # Len(report), NEW left \in Replays(k),
         \A n \in 1..k : Handled(n), \A n \in k + 2..Len(report) : Untouched(n),
         NEW r \in Reports, report' = [report EXCEPT ![k + 1] = r], row' \in Statuses,
         \/ /\ r.at \notin {"done", "dropped"} /\ row' \in {left[k], Applied(left[k], r)}
            /\ r.at = "sent" /\ ~r.again => row' = left[k]
            /\ r.at = "read" => r.seen = row'
            /\ r.at \in {"cache", "mark"} => row' = r.status /\ Applied(left[k], r) = r.status
            /\ r.from = "fault" /\ (r.again \/ r.at # "sent") => \A n \in 1..k : report[n].at # "done"
         \/ r.at \in {"done", "dropped"} /\ row' = Applied(left[k], r)
  PROVE  InOrder'
<1>1. DOMAIN report = 1..Len(report) /\ Len(report) \in Nat /\ k \in Nat /\ k + 1 \in DOMAIN report
  <2>1. DOMAIN report = 1..Len(report) /\ Len(report) \in Nat
    BY DEF ReportsTyped
  <2> QED
    BY <2>1, Places
<1>2. /\ report'[k + 1] = r /\ \A n \in DOMAIN report : n # k + 1 => report'[n] = report[n]
      /\ Len(report') = Len(report) /\ DOMAIN report' = DOMAIN report
  BY <1>1, SeqExcept DEF ReportsTyped
<1>3. \A n \in 1..k : n \in DOMAIN report /\ n # k + 1
  BY <1>1, Places
<1>4. /\ \A n \in 1..k : report'[n] = report[n] /\ Handled(n)'
      /\ \A n \in k + 2..Len(report) : report'[n] = report[n] /\ Untouched(n)'
  <2>1. \A n \in k + 2..Len(report) : n \in DOMAIN report /\ n # k + 1
    BY <1>1, Places
  <2> QED
    BY <1>2, <1>3, <2>1 DEF Handled, Untouched
<1>5. row' # "none"
  BY DEF Statuses
<1>6. CASE r.at \notin {"done", "dropped"}
  <2>1. left \in Replays(k)'
    BY <1>1, <1>4, ReplaysStay
  <2>2. Stands(k, left[k])'
    <3>1. ~Handled(k + 1)'
      BY <1>2, <1>6 DEF Handled
    <3>2. \A n \in 1..k : report'[n].at = report[n].at
      BY <1>4
    <3> QED
      BY <1>2, <1>6, <3>1, <3>2 DEF Stands
  <2> QED
    BY <1>2, <1>4, <1>5, <2>1, <2>2 DEF InOrder
<1>7. CASE r.at \in {"done", "dropped"}
  <2>1. PICK longer \in Replays(k + 1)' : longer[k + 1] = row'
    BY <1>1, <1>2, <1>4, <1>7, ReplaysGrow
  <2>2. Stands(k + 1, longer[k + 1])'
    <3>1. CASE k + 1 = Len(report)
      BY <1>2, <2>1, <3>1 DEF Stands
    <3>2. CASE k + 1 # Len(report)
      <4>1. k + 2 \in k + 2..Len(report) /\ (k + 1) + 1 = k + 2
        BY <1>1, <3>2, Places
      <4>2. report'[k + 2].at = "sent" /\ ~report'[k + 2].again
        BY <1>4, <4>1 DEF Untouched
      <4> QED
        BY <1>2, <2>1, <3>2, <4>1, <4>2 DEF Stands, Handled
    <3> QED
      BY <3>1, <3>2
  <2>3. \A n \in 1..k + 1 : Handled(n)'
    <3>1. Handled(k + 1)'
      BY <1>2, <1>7 DEF Handled
    <3> QED
      BY <1>1, <1>4, <3>1, Places
  <2>4. k + 1 \in 0..Len(report') /\ \A n \in (k + 1) + 2..Len(report') : Untouched(n)'
    BY <1>1, <1>2, <1>4, Places
  <2> QED
    BY <1>5, <2>1, <2>2, <2>3, <2>4 DEF InOrder
<1> QED
  BY <1>6, <1>7

LEMMA OrderStep == ASSUME DepotInv, InOrder, [DepotNext]_depot PROVE InOrder'
<1>1. /\ row \in Statuses \cup {"none"} /\ ReportsTyped /\ HandsTyped /\ NoRowNoCopy
      /\ DOMAIN report = 1..Len(report) /\ Len(report) \in Nat
  BY DEF DepotInv, ReportsTyped
<1>2. ASSUME row' = row, report' = report, disturbed' = disturbed PROVE InOrder'
  <2>1. \A n : (Handled(n)' <=> Handled(n)) /\ (Untouched(n)' <=> Untouched(n))
    BY <1>2 DEF Handled, Untouched
  <2>2. \A k, before : Replays(k)' = Replays(k) /\ (Stands(k, before)' <=> Stands(k, before))
    BY <1>2 DEF Replays, Stands, Handled
  <2> QED
    BY <1>2, <2>1, <2>2 DEF InOrder
<1>3. CASE \/ UNCHANGED depot \/ CreateStation \/ LoadAddCharger \/ (\E new \in StaffStatuses : LoadStatus(new))
           \/ InvalidateStation \/ (\E new \in {"active", "closed"} : CommitStation(new))
           \/ ReadAvailability \/ WarmCache \/ CacheExpires
  <2>1. row' = row /\ report' = report /\ disturbed' = disturbed
    BY <1>3, Zenon DEF depot, CreateStation, LoadAddCharger, LoadStatus, InvalidateStation, CommitStation, ReadAvailability,
                       WarmCache, CacheExpires, Keep
  <2> QED
    BY <1>2, <2>1
<1>4. CASE CommitStatus
  <2>1. disturbed' = TRUE
    BY <1>4, Zenon DEF CommitStatus
  <2> QED
    BY <2>1 DEF InOrder
<1>5. CASE InsertCharger
  <2>1. row' = "available" /\ row = "none" /\ report' = report /\ disturbed' = disturbed
    BY <1>1, <1>5 DEF InsertCharger, Keep, HandsTyped, NoRowNoCopy
  <2>2. SUFFICES ASSUME ~disturbed PROVE InOrder'
    BY <2>1 DEF InOrder
  <2>3. \A n \in DOMAIN report : Untouched(n)
    BY <2>1, <2>2 DEF InOrder
  <2>4. PICK left : left = [n \in 0..0 |-> "available"]
    OBVIOUS
  <2>5. left \in Replays(0)' /\ left[0] = "available"
    BY <2>4 DEF Replays, Statuses
  <2>6. Stands(0, left[0])'
    <3>1. CASE Len(report) = 0
      BY <2>1, <2>5, <3>1 DEF Stands
    <3>2. CASE Len(report) # 0
      <4>1. 0 + 1 \in DOMAIN report
        BY <1>1, <3>2
      <4> QED
        BY <2>1, <2>3, <2>5, <4>1 DEF Stands, Untouched, Handled
    <3> QED
      BY <3>1, <3>2
  <2>7. \A n \in 0 + 2..Len(report) : Untouched(n)
    BY <1>1, <2>3
  <2> QED
    BY <1>1, <2>1, <2>5, <2>6, <2>7 DEF InOrder, Untouched, Handled
<1>6. CASE PlatformReports \/ ChargerReports \/ FaultReported
  <2>1. Sends /\ row' = row /\ disturbed' = disturbed
    BY <1>1, <1>6, ReportSends, Zenon
  <2>2. PICK r \in Reports : r.at = "sent" /\ ~r.again /\ report' = Append(report, r)
    BY <2>1 DEF Sends
  <2>3. PICK len \in Nat : len = Len(report)
    BY <1>1
  <2>4. /\ Len(report') = len + 1 /\ DOMAIN report' = 1..len + 1 /\ report'[len + 1] = r
        /\ \A n \in 1..len : report'[n] = report[n]
    BY <1>1, <2>2, <2>3 DEF ReportsTyped
  <2>5. SUFFICES ASSUME ~disturbed PROVE InOrder'
    BY <2>1 DEF InOrder
  <2>6. PICK k \in 0..len :
          /\ \A n \in 1..k : Handled(n)
          /\ \A n \in k + 2..len : Untouched(n)
          /\ row = "none" => k = 0 /\ \A n \in DOMAIN report : Untouched(n)
          /\ row # "none" => \E left \in Replays(k) : Stands(k, left[k])
    BY <2>3, <2>5 DEF InOrder
  <2>7. k \in Nat /\ k # len + 1 /\ k \in 0..Len(report') /\ Untouched(len + 1)'
    BY <2>2, <2>4 DEF Untouched
  <2>8. \A n \in 1..k : Handled(n)' /\ report'[n] = report[n]
    BY <2>4, <2>6, Places DEF Handled
  <2>9. \A n \in k + 2..Len(report') : Untouched(n)'
    <3> TAKE n \in k + 2..Len(report')
    <3>1. n = len + 1 \/ n \in k + 2..len
      BY <2>4, <2>7
    <3>2. ASSUME n \in k + 2..len PROVE Untouched(n)'
      <4>1. n \in 1..len
        BY <3>2, Places
      <4> QED
        BY <2>4, <2>6, <3>2, <4>1 DEF Untouched
    <3> QED
      BY <2>7, <3>1, <3>2
  <2>10. CASE row = "none"
    <3>1. \A n \in DOMAIN report' : n \in 1..len \/ n = len + 1
      BY <2>4
    <3>2. \A n \in 1..len : Untouched(n)'
      BY <1>1, <2>3, <2>4, <2>6, <2>10 DEF Untouched
    <3>3. \A n \in DOMAIN report' : Untouched(n)'
      BY <2>7, <3>1, <3>2
    <3> QED
      BY <2>1, <2>6, <2>7, <2>8, <2>9, <2>10, <3>3 DEF InOrder
  <2>11. CASE row # "none"
    <3>1. PICK left \in Replays(k) : Stands(k, left[k])
      BY <2>6, <2>11
    <3>2. left \in Replays(k)'
      BY <2>7, <2>8, ReplaysStay
    <3>3. Stands(k, left[k])'
      <4>1. CASE k = len
        <5>1. row = left[k]
          BY <2>3, <3>1, <4>1 DEF Stands
        <5> QED
          BY <2>1, <2>2, <2>4, <2>7, <4>1, <5>1 DEF Stands, Handled
      <4>2. CASE k # len
        <5>1. k + 1 \in 1..len
          BY <2>3, <4>2, Places
        <5>2. report'[k + 1] = report[k + 1]
          BY <2>4, <5>1
        <5> QED
          BY <2>1, <2>3, <2>4, <2>7, <2>8, <3>1, <4>2, <5>2 DEF Stands, Handled
      <4> QED
        BY <4>1, <4>2
    <3> QED
      BY <2>1, <2>7, <2>8, <2>9, <2>11, <3>2, <3>3 DEF InOrder
  <2> QED
    BY <2>10, <2>11
<1>7. ASSUME NEW m \in DOMAIN report,
             ReadCharger(m) \/ ReadFault(m) \/ IgnoreReport(m) \/ UpdateRow(m) \/ CacheStatus(m) \/ MarkReport(m) \/ FaultIsNotMarked(m)
               \/ HandlerFails(m)
      PROVE  InOrder'
  <2>1. SUFFICES ASSUME ~disturbed' PROVE InOrder'
    BY DEF InOrder
  <2>2. ~disturbed /\ (report[m].at = "sent" => InTurn(m) /\ row # "none") /\ ~Handled(m)
    <3>1. CASE ReadCharger(m) \/ ReadFault(m)
      <4>1. disturbed' = (disturbed \/ ~InTurn(m) \/ row = "none") /\ report[m].at = "sent"
        BY <3>1 DEF ReadCharger, ReadFault
      <4> QED
        BY <2>1, <4>1 DEF Handled
    <3>2. CASE ~(ReadCharger(m) \/ ReadFault(m))
      <4>1. disturbed' = disturbed /\ report[m].at \in {"read", "cache", "mark"}
        BY <1>7, <3>2 DEF IgnoreReport, UpdateRow, CacheStatus, MarkReport, FaultIsNotMarked, HandlerFails, Keep
      <4> QED
        BY <2>1, <4>1 DEF Handled
    <3> QED
      BY <3>1, <3>2
  <2>3. PICK k \in 0..Len(report) :
          /\ \A n \in 1..k : Handled(n)
          /\ \A n \in k + 2..Len(report) : Untouched(n)
          /\ row = "none" => k = 0 /\ \A n \in DOMAIN report : Untouched(n)
          /\ row # "none" => \E left \in Replays(k) : Stands(k, left[k])
    BY <2>2 DEF InOrder
  <2>4. row # "none"
    BY <2>2, <2>3 DEF Untouched
  <2>5. PICK left \in Replays(k) : Stands(k, left[k])
    BY <2>3, <2>4
  <2>6. k # Len(report) => ~Handled(k + 1)
    BY <2>5 DEF Stands
  <2>7. m = k + 1 /\ k # Len(report)
    BY <1>1, <2>2, <2>3, <2>6, AtWork
  <2>8. report[m] \in Reports /\ report \in Seq(Reports)
    BY <1>1, <1>7 DEF ReportsTyped
  <2>9. PICK e \in Reports : e = report[m]
    BY <2>8
  <2>10. PICK r \in Reports : report' = [report EXCEPT ![m] = r]
    BY <1>1, <1>7, ReportMoves DEF Moves
  <2>11. r = report'[m]
    BY <1>7, <2>8, <2>10
  <2>12. /\ row \in Statuses
         /\ row \in {left[k], Applied(left[k], e)}
         /\ e.at = "sent" /\ ~e.again => row = left[k]
         /\ e.at = "read" => e.seen = row
         /\ e.at \in {"cache", "mark"} => row = e.status /\ Applied(left[k], e) = e.status
         /\ e.from = "fault" /\ (e.again \/ e.at # "sent") => \A n \in 1..k : report[n].at # "done"
    BY <1>1, <2>4, <2>5, <2>7, <2>9 DEF Stands
  <2>13. Applied(left[k], e) = IF e.at = "dropped" \/ (e.from = "ocpp" /\ e.status = "available" /\ left[k] = "in_use") THEN left[k] ELSE e.status
    BY AppliedIs
  <2>14. Applied(left[k], r) = IF r.at = "dropped" \/ (r.from = "ocpp" /\ r.status = "available" /\ left[k] = "in_use") THEN left[k] ELSE r.status
    BY AppliedIs
  <2> DEFINE Goes == /\ r.at \notin {"done", "dropped"} /\ row' \in {left[k], Applied(left[k], r)}
                     /\ r.at = "sent" /\ ~r.again => row' = left[k]
                     /\ r.at = "read" => r.seen = row'
                     /\ r.at \in {"cache", "mark"} => row' = r.status /\ Applied(left[k], r) = r.status
                     /\ r.from = "fault" /\ (r.again \/ r.at # "sent") => \A n \in 1..k : report[n].at # "done"
             Done == r.at \in {"done", "dropped"} /\ row' = Applied(left[k], r)
  <2>15. ASSUME row' \in Statuses, Goes \/ Done PROVE InOrder'
    BY <1>1, <2>3, <2>7, <2>10, <2>15, OrderMoves
  <2> HIDE DEF Goes, Done
  <2>16. CASE ReadCharger(m)
    <3>1. r = [e EXCEPT !.at = "read", !.seen = row] /\ row' = row /\ e.at = "sent" /\ e.from # "fault"
      BY <1>7, <2>4, <2>8, <2>9, <2>11, <2>16 DEF ReadCharger, Keep
    <3>2. r.at = "read" /\ r.seen = row /\ r.from = e.from /\ r.status = e.status
      BY <3>1 DEF Reports
    <3>3. Goes
      BY <2>12, <2>13, <2>14, <3>1, <3>2 DEF Goes
    <3> QED
      BY <2>12, <2>15, <3>1, <3>3
  <2>17. CASE ReadFault(m)
    <3>1. /\ r = [e EXCEPT !.at = IF \E n \in DOMAIN report : report[n].at = "done" THEN "dropped" ELSE "read", !.seen = row]
          /\ row' = row /\ e.at = "sent" /\ e.from = "fault"
      BY <1>7, <2>4, <2>8, <2>9, <2>11, <2>17 DEF ReadFault, Keep
    <3>2. CASE \E n \in DOMAIN report : report[n].at = "done"
      <4>1. PICK n \in DOMAIN report : report[n].at = "done"
        BY <3>2
      <4>2. n \in 1..k
        BY <1>1, <2>3, <2>7, <2>9, <3>1, <4>1, Places DEF Untouched
      <4>3. row = left[k]
        BY <2>12, <3>1, <4>1, <4>2
      <4>4. r = [e EXCEPT !.at = "dropped", !.seen = row]
        BY <3>1, <3>2
      <4>5. r.at = "dropped"
        BY <4>4 DEF Reports
      <4>6. Done
        BY <2>14, <3>1, <4>3, <4>5 DEF Done
      <4> QED
        BY <2>12, <2>15, <3>1, <4>6
    <3>3. CASE ~\E n \in DOMAIN report : report[n].at = "done"
      <4>1. r = [e EXCEPT !.at = "read", !.seen = row]
        BY <3>1, <3>3
      <4>2. r.at = "read" /\ r.seen = row /\ r.from = e.from /\ r.status = e.status
        BY <4>1 DEF Reports
      <4>3. \A n \in 1..k : report[n].at # "done"
        BY <1>1, <3>3, Places
      <4>4. Goes
        BY <2>12, <2>13, <2>14, <3>1, <4>2, <4>3 DEF Goes
      <4> QED
        BY <2>12, <2>15, <3>1, <4>4
    <3> QED
      BY <3>2, <3>3
  <2>18. CASE IgnoreReport(m)
    <3>1. /\ r = [e EXCEPT !.at = "done"] /\ row' = row
          /\ e.at = "read" /\ e.from = "ocpp" /\ e.status = "available" /\ e.seen = "in_use"
      BY <1>7, <2>8, <2>9, <2>11, <2>18 DEF IgnoreReport, Ignored, Keep
    <3>2. r.at = "done" /\ r.from = e.from /\ r.status = e.status
      BY <3>1 DEF Reports
    <3>3. Done
      BY <2>12, <2>13, <2>14, <3>1, <3>2 DEF Done
    <3> QED
      BY <2>12, <2>15, <3>1, <3>3
  <2>19. CASE UpdateRow(m)
    <3>1. r = [e EXCEPT !.at = "cache"] /\ row' = e.status /\ e.at = "read" /\ ~(e.from = "ocpp" /\ e.status = "available" /\ e.seen = "in_use")
      BY <1>7, <2>4, <2>8, <2>9, <2>11, <2>19 DEF UpdateRow, Ignored, Keep
    <3>2. r.at = "cache" /\ r.from = e.from /\ r.status = e.status /\ e.status \in Statuses
      BY <3>1 DEF Reports
    <3>3. Goes
      BY <2>12, <2>13, <2>14, <3>1, <3>2 DEF Goes
    <3> QED
      BY <2>15, <3>1, <3>2, <3>3
  <2>20. CASE CacheStatus(m)
    <3>1. r = [e EXCEPT !.at = "mark"] /\ row' = row /\ e.at = "cache"
      BY <1>7, <2>8, <2>9, <2>11, <2>20 DEF CacheStatus, Keep
    <3>2. r.at = "mark" /\ r.from = e.from /\ r.status = e.status
      BY <3>1 DEF Reports
    <3>3. Goes
      BY <2>12, <2>13, <2>14, <3>1, <3>2 DEF Goes
    <3> QED
      BY <2>12, <2>15, <3>1, <3>3
  <2>21. CASE MarkReport(m)
    <3>1. r = [e EXCEPT !.at = "done"] /\ row' = row /\ e.at = "mark"
      BY <1>7, <2>8, <2>9, <2>11, <2>21 DEF MarkReport, Keep
    <3>2. r.at = "done" /\ r.from = e.from /\ r.status = e.status
      BY <3>1 DEF Reports
    <3>3. Done
      BY <2>12, <2>13, <2>14, <3>1, <3>2 DEF Done
    <3> QED
      BY <2>12, <2>15, <3>1, <3>3
  <2>22. CASE FaultIsNotMarked(m) \/ HandlerFails(m)
    <3>1. r = [e EXCEPT !.at = "sent", !.again = TRUE] /\ row' = row /\ e.at \in {"read", "cache", "mark"}
      BY <1>7, <2>8, <2>9, <2>11, <2>22 DEF FaultIsNotMarked, HandlerFails, Refused, Keep
    <3>2. r.at = "sent" /\ r.again /\ r.from = e.from /\ r.status = e.status
      BY <3>1 DEF Reports
    <3>3. Goes
      BY <2>12, <2>13, <2>14, <3>1, <3>2 DEF Goes
    <3> QED
      BY <2>12, <2>15, <3>1, <3>3
  <2> QED
    BY <1>7, <2>16, <2>17, <2>18, <2>19, <2>20, <2>21, <2>22
<1> QED
  BY <1>3, <1>4, <1>5, <1>6, <1>7 DEF DepotNext

LEMMA RowFollows == DepotInv /\ InOrder => RowFollowsReports
<1> SUFFICES ASSUME DepotInv, InOrder, \A m \in DOMAIN report : Handled(m), ~disturbed, row # "none"
             PROVE  \E left \in Replays(Len(report)) : row = left[Len(report)]
  BY DEF RowFollowsReports, Quiet
<1>1. DOMAIN report = 1..Len(report) /\ Len(report) \in Nat
  BY DEF DepotInv, ReportsTyped
<1>2. PICK k \in 0..Len(report) : \E left \in Replays(k) : Stands(k, left[k])
  BY DEF InOrder
<1>3. PICK left \in Replays(k) : Stands(k, left[k])
  BY <1>2
<1>4. k = Len(report)
  <2> SUFFICES ASSUME k # Len(report) PROVE FALSE
    OBVIOUS
  <2>1. k + 1 \in DOMAIN report /\ ~Handled(k + 1)
    BY <1>1, <1>3, Places DEF Stands
  <2> QED
    BY <2>1
<1> QED
  BY <1>3, <1>4 DEF Stands

LEMMA CacheTells == DepotInv => CacheTellsRow
<1> SUFFICES ASSUME DepotInv, Quiet, ~late PROVE cache \in {"none", row, Shown}
  BY DEF CacheTellsRow
<1>1. \A m \in DOMAIN report : report[m].at # "cache"
  BY DEF Quiet, Handled
<1>2. clerk.at # "invalidate"
  BY DEF Quiet, Nobody
<1> QED
  BY <1>1, <1>2 DEF DepotInv, CopyTells

LEMMA UseEnds ==
  ASSUME NEW m \in DOMAIN report, UpdateRow(m), report[m].from = "ocpp", row = "in_use", row' = "available"
  PROVE  report[m].seen # "in_use"
BY DEF UpdateRow, Ignored

LEMMA DepotTypesFollow == DepotInv => DepotTypeOK
BY DEF DepotInv, ReportsTyped, HandsTyped, DepotTypeOK

-----------------------------------------------------------------------------
(* PricingRules: the hours of a day and the intervals they form.           *)

\* A set of naturals has a least element.
LEMMA Least == ASSUME NEW S \in SUBSET Nat, S # {} PROVE \E n \in S : \A m \in S : n <= m
<1> DEFINE R == {p \in Nat \X Nat : p[1] < p[2]}
<1>1. \A x, y : <<x, y>> \in R <=> (x \in Nat /\ y \in Nat /\ x < y)
  OBVIOUS
<1>2. IsWellFoundedOn(R, Nat)
  <2>1. OpToRel(<, Nat) = R
    BY DEF OpToRel
  <2> QED
    BY <2>1, NatLessThanWellFounded, Zenon
<1> HIDE DEF R
<1>3. PICK n \in S : \A m \in S : <<m, n>> \notin R
  BY <1>2, WFMin
<1>4. ASSUME NEW m \in S PROVE n <= m
  <2>1. m \in Nat /\ n \in Nat
    OBVIOUS
  <2>2. ~(m < n)
    BY <1>1, <1>3, <2>1
  <2> QED
    BY <2>1, <2>2
<1> QED
  BY <1>4

\* Hours are counted round the clock.
LEMMA AfterIsHour ==
  ASSUME NEW h \in Day, NEW n \in 0..HoursInDay
  PROVE  After(h, n) \in Day
BY PricingAssumption DEF After, Day

\* From one hour every other is reached within the day.
LEMMA HoursApart ==
  ASSUME NEW h \in Day, NEW g \in Day, g # h
  PROVE  \E n \in 1..HoursInDay - 1 : After(h, n) = g
<1>1. CASE h < g
  <2>1. g - h \in 1..HoursInDay - 1 /\ After(h, g - h) = g
    BY <1>1, PricingAssumption DEF After, Day
  <2> QED
    BY <2>1
<1>2. CASE g < h
  <2>1. g - h + HoursInDay \in 1..HoursInDay - 1 /\ After(h, g - h + HoursInDay) = g
    BY <1>2, PricingAssumption DEF After, Day
  <2> QED
    BY <2>1
<1> QED
  BY <1>1, <1>2 DEF Day

\* An interval stops at the first hour that is missing.
LEMMA IntervalStops ==
  ASSUME NEW hours \in SUBSET Day, hours # Day, NEW h \in hours
  PROVE  \E n \in 1..HoursInDay - 1 :
           /\ Interval(hours, h) = [start |-> h, stop |-> After(h, n)]
           /\ After(h, n) \notin hours /\ \A m \in 1..n - 1 : After(h, m) \in hours
<1> DEFINE gaps == {n \in 1..HoursInDay : After(h, n) \notin hours}
           First(n) == After(h, n) \notin hours /\ \A m \in 1..n - 1 : After(h, m) \in hours
<1>1. gaps \in SUBSET Nat /\ \E n \in gaps : n <= HoursInDay - 1
  <2>1. PICK g \in Day : g \notin hours
    OBVIOUS
  <2>2. \E n \in 1..HoursInDay - 1 : After(h, n) = g
    BY <2>1, HoursApart
  <2> QED
    BY <2>1, <2>2, PricingAssumption
<1>2. PICK n \in gaps : \A m \in gaps : n <= m
  BY <1>1, Least
<1>3. n \in 1..HoursInDay - 1 /\ First(n)
  BY <1>1, <1>2, PricingAssumption
<1>4. \A l \in 1..HoursInDay : First(l) => l = n
  <2> SUFFICES ASSUME NEW l \in 1..HoursInDay, First(l) PROVE l = n
    OBVIOUS
  <2>1. ~(n < l) /\ ~(l < n)
    BY <1>3, PricingAssumption
  <2> QED
    BY <1>3, <2>1, PricingAssumption
<1>5. n = CHOOSE l \in 1..HoursInDay : First(l)
  <2>1. n \in 1..HoursInDay
    BY <1>3, PricingAssumption
  <2> HIDE DEF First
  <2> QED
    BY <1>3, <1>4, <2>1
<1>6. Interval(hours, h) = [start |-> h, stop |-> After(h, n)]
  BY <1>5 DEF Interval
<1> QED
  BY <1>3, <1>6

\* The hours of an interval are those from its start to its stop, round the clock.
LEMMA IntervalHours ==
  ASSUME NEW h \in Day, NEW n \in 1..HoursInDay - 1,
         NEW x \in HoursOf([start |-> h, stop |-> After(h, n)])
  PROVE  \E m \in 0..n - 1 : x = After(h, m)
<1> DEFINE stop == After(h, n)
<1>1. stop \in Day /\ h \in Day /\ h # Open /\ stop # Open
  BY PricingAssumption DEF Day, After, Open
<1>2. CASE h + n < HoursInDay
  <2>1. stop = h + n
    BY <1>2 DEF After
  <2>2. x \in h..h + n - 1
    BY <1>1, <2>1 DEF HoursOf, Day
  <2>3. x - h \in 0..n - 1 /\ After(h, x - h) = x
    BY <1>2, <2>2, PricingAssumption DEF After, Day
  <2> QED
    BY <2>3
<1>3. CASE ~(h + n < HoursInDay)
  <2>1. stop = h + n - HoursInDay /\ stop < h
    BY <1>3, PricingAssumption DEF After, Day
  <2>2. x \in (h..HoursInDay - 1) \cup (0..stop - 1)
    BY <1>1, <2>1 DEF HoursOf, Day
  <2>3. CASE x \in h..HoursInDay - 1
    <3>1. x - h \in 0..n - 1 /\ After(h, x - h) = x
      BY <1>3, <2>3, PricingAssumption DEF After, Day
    <3> QED
      BY <3>1
  <2>4. CASE x \in 0..stop - 1
    <3>1. x - h + HoursInDay \in 0..n - 1 /\ After(h, x - h + HoursInDay) = x
      BY <1>3, <2>1, <2>4, PricingAssumption DEF After, Day
    <3> QED
      BY <3>1
  <2> QED
    BY <2>2, <2>3, <2>4
<1> QED
  BY <1>2, <1>3

\* The hours of an interval are hours of the set it is taken from.
LEMMA IntervalWithin ==
  ASSUME NEW hours \in SUBSET Day, hours # Day, NEW h \in hours
  PROVE  HoursOf(Interval(hours, h)) \subseteq hours
<1>1. PICK n \in 1..HoursInDay - 1 :
        /\ Interval(hours, h) = [start |-> h, stop |-> After(h, n)]
        /\ \A m \in 1..n - 1 : After(h, m) \in hours
  BY IntervalStops
<1>2. ASSUME NEW x \in HoursOf(Interval(hours, h)) PROVE x \in hours
  <2>1. PICK m \in 0..n - 1 : x = After(h, m)
    BY <1>1, <1>2, IntervalHours
  <2>2. CASE m = 0
    BY <2>1, <2>2, PricingAssumption DEF After, Day
  <2>3. CASE m # 0
    BY <1>1, <2>1, <2>3
  <2> QED
    BY <2>2, <2>3
<1> QED
  BY <1>2

\* Intervals from different hours have no hour in common: each starts where the hour before
\* is missing.
LEMMA IntervalsApart ==
  ASSUME NEW hours \in SUBSET Day, hours # Day, NEW h \in Starts(hours), NEW g \in Starts(hours), h # g
  PROVE  HoursOf(Interval(hours, h)) \cap HoursOf(Interval(hours, g)) = {}
<1>1. h \in hours /\ g \in hours
  BY DEF Starts
<1>2. PICK n \in 1..HoursInDay - 1 :
        /\ Interval(hours, h) = [start |-> h, stop |-> After(h, n)]
        /\ \A m \in 1..n - 1 : After(h, m) \in hours
  BY <1>1, IntervalStops
<1>3. PICK l \in 1..HoursInDay - 1 :
        /\ Interval(hours, g) = [start |-> g, stop |-> After(g, l)]
        /\ \A m \in 1..l - 1 : After(g, m) \in hours
  BY <1>1, IntervalStops
<1>4. ASSUME NEW e \in Starts(hours), NEW f \in hours, e # f, NEW k \in 1..HoursInDay - 1, NEW i \in 0..k - 1, NEW j \in Nat, j <= i,
             \A m \in 1..k - 1 : After(f, m) \in hours, After(e, j) = After(f, i)
      PROVE  FALSE
  <2>1. e \in Day /\ f \in Day /\ After(e, HoursInDay - 1) \notin hours
    BY <1>4 DEF Starts
  <2>2. i - j \in 1..k - 1 /\ After(f, i - j) = e
    BY <1>4, <2>1, PricingAssumption DEF After, Day
  <2>3. CASE i - j = 1
    <3>1. After(e, HoursInDay - 1) = f
      BY <1>4, <2>1, <2>2, <2>3, PricingAssumption DEF After, Day
    <3> QED
      BY <1>4, <2>1, <3>1
  <2>4. CASE i - j # 1
    <3>1. After(e, HoursInDay - 1) = After(f, i - j - 1) /\ i - j - 1 \in 1..k - 1
      BY <1>4, <2>1, <2>2, <2>4, PricingAssumption DEF After, Day
    <3> QED
      BY <1>4, <2>1, <3>1
  <2> QED
    BY <2>3, <2>4
<1>5. ASSUME NEW x \in HoursOf(Interval(hours, h)), x \in HoursOf(Interval(hours, g)) PROVE FALSE
  <2>1. PICK i \in 0..n - 1 : x = After(h, i)
    BY <1>1, <1>2, <1>5, IntervalHours
  <2>2. PICK j \in 0..l - 1 : x = After(g, j)
    BY <1>1, <1>3, <1>5, IntervalHours
  <2>3. CASE j <= i
    <3>1. j \in Nat /\ After(g, j) = After(h, i)
      BY <2>1, <2>2
    <3> QED
      BY <1>1, <1>2, <1>4, <2>3, <3>1
  <2>4. CASE i <= j
    <3>1. i \in Nat /\ After(h, i) = After(g, j)
      BY <2>1, <2>2
    <3> QED
      BY <1>1, <1>3, <1>4, <2>4, <3>1
  <2> QED
    BY <2>3, <2>4
<1> QED
  BY <1>5

\* Some interval comes first.
LEMMA FirstIsInterval ==
  ASSUME NEW hours \in SUBSET Day, hours # Day, hours # {}
  PROVE  FirstOf(hours) \in Intervals(hours)
<1> DEFINE missing == CHOOSE h \in Day \ hours : \A g \in Day \ hours : h <= g
           place(h) == After(h, HoursInDay - missing)
           First(h) == \A g \in Starts(hours) : place(h) <= place(g)
<1>1. missing \in Day
  <2>1. \E h \in Day \ hours : \A g \in Day \ hours : h <= g
    <3>1. (Day \ hours) \in SUBSET Nat
      BY PricingAssumption DEF Day
    <3>2. (Day \ hours) # {}
      OBVIOUS
    <3> QED
      BY <3>1, <3>2, Least
  <2> QED
    BY <2>1
<1> HIDE DEF missing
<1>2. \A h \in Day : place(h) \in Nat
  BY <1>1, PricingAssumption DEF After, Day
<1>3. Starts(hours) # {}
  <2>1. PICK d \in Day : d \notin hours
    OBVIOUS
  <2> DEFINE ahead == {n \in 1..HoursInDay - 1 : After(d, n) \in hours}
  <2>2. ahead \in SUBSET Nat /\ ahead # {}
    <3>1. PICK g \in hours : g \in Day
      OBVIOUS
    <3>2. \E n \in 1..HoursInDay - 1 : After(d, n) = g
      BY <2>1, <3>1, HoursApart
    <3> QED
      BY <3>1, <3>2
  <2>3. PICK n \in ahead : \A m \in ahead : n <= m
    BY <2>2, Least
  <2>4. n \in 1..HoursInDay - 1 /\ After(d, n) \in hours /\ n - 1 \notin ahead
    BY <2>3
  <2>5. CASE n = 1
    <3>1. After(After(d, n), HoursInDay - 1) = d
      BY <2>4, <2>5, PricingAssumption DEF After, Day
    <3> QED
      BY <2>1, <2>4, <3>1 DEF Starts
  <2>6. CASE n # 1
    <3>1. After(After(d, n), HoursInDay - 1) = After(d, n - 1) /\ n - 1 \in 1..HoursInDay - 1
      BY <2>4, <2>6, PricingAssumption DEF After, Day
    <3> QED
      BY <2>4, <3>1 DEF Starts
  <2> QED
    BY <2>5, <2>6
<1>4. \E h \in Starts(hours) : First(h)
  <2> DEFINE places == {n \in Nat : \E h \in Starts(hours) : n = place(h)}
  <2>1. \A h \in Starts(hours) : place(h) \in places
    BY <1>2 DEF Starts
  <2>2. places \in SUBSET Nat /\ places # {}
    BY <1>3, <2>1
  <2>3. PICK n \in places : \A m \in places : n <= m
    BY <2>2, Least
  <2>4. PICK h \in Starts(hours) : n = place(h)
    BY <2>3
  <2> HIDE DEF places
  <2>5. \A g \in Starts(hours) : place(h) <= place(g)
    BY <2>1, <2>3, <2>4
  <2> QED
    BY <2>5
<1>5. PICK h : h = CHOOSE e \in Starts(hours) : First(e)
  OBVIOUS
<1>6. h \in Starts(hours)
  <2> HIDE DEF First
  <2> QED
    BY <1>4, <1>5
<1>7. FirstOf(hours) = Interval(hours, h)
  BY <1>5 DEF FirstOf, missing
<1> QED
  BY <1>6, <1>7 DEF Intervals

Jobs == [at : {"idle", "find", "trim", "expand", "end"}, id : 0..MaxRules, row : RuleRows \cup {<<>>}, copy : Seq(RuleRows),
         todo : SUBSET (1..MaxRules)]

\* Active rules are without an end, the others ended before now.
TableTyped ==
  /\ rule \in Seq(RuleRows) /\ Len(rule) <= MaxRules /\ clock \in 0..MaxClock
  /\ \A r \in DOMAIN rule : rule[r].till = Forever \/ rule[r].till <= clock

\* A request works on rules of the table, and takes its hours from active ones.
JobOK(a) ==
  /\ job[a].todo \subseteq DOMAIN rule
  /\ job[a].at # "idle" => job[a].id \in DOMAIN rule
  /\ job[a].at \in {"find", "trim", "expand"} => job[a].row \in RuleRows
  /\ job[a].at = "trim" =>
       \A r \in job[a].todo : /\ r \in DOMAIN job[a].copy /\ job[a].copy[r].till = Forever
                              /\ HoursOf(job[a].copy[r]) \cap HoursOf(job[a].row) # {}
  /\ job[a].at = "expand" => job[a].row.till = Forever

\* What a request read that nobody has overtaken is the table as it stands.
Fresh(a) ==
  a \notin behind =>
    /\ job[a].at = "trim" => \A r \in job[a].todo : rule[r] = job[a].copy[r]
    /\ job[a].at = "expand" =>
         \E heir \in DOMAIN rule \ {job[a].id} :
           /\ job[a].todo = {heir} /\ Active(heir) /\ Active(job[a].id)
           /\ HoursOf(job[a].row) \subseteq HoursOf(rule[heir]) \cup HoursOf(rule[job[a].id])

\* A request answers for an hour that two rules share: it will take the hour from all but its own
\* rule, ends one of the two, or works on what another has changed.
Answers(a, q, r, h) ==
  \/ a \in behind /\ job[a].at \in {"trim", "expand", "end"}
  \/ job[a].at = "find" /\ h \in HoursOf(job[a].row)
  \/ job[a].at = "trim" /\ h \in HoursOf(job[a].row) /\ {q, r} \subseteq job[a].todo \cup {job[a].id}
  \/ job[a].at = "end" /\ job[a].id \in {q, r}

SharedIsAnswered ==
  \A q, r \in DOMAIN rule : q # r /\ Active(q) /\ Active(r) =>
    \A h \in HoursOf(rule[q]) \cap HoursOf(rule[r]) : \E a \in Admins : Answers(a, q, r, h)

\* What the ride was quoted by is what a lookup finds.
QuoteHolds == ride # NoRide /\ ~rewritten => ride.rule \in Best(ride.hour, ride.time)

PricingInv ==
  /\ TableTyped /\ job \in [Admins -> Jobs] /\ behind \subseteq Admins
  /\ crossed \in BOOLEAN /\ rewritten \in BOOLEAN
  /\ ride \in [hour : Day, time : 0..MaxClock, rule : 0..MaxRules]
  /\ \A a \in Admins : JobOK(a)
  /\ ~crossed => (\A a \in Admins : Fresh(a)) /\ SharedIsAnswered
  /\ QuoteHolds

LEMMA RowHours == ASSUME NEW line \in RuleRows PROVE HoursOf(line) \subseteq Day
<1>1. line.start \in Day \cup {Open} /\ line.stop \in 0..HoursInDay \cup {Open}
  BY DEF RuleRows
<1> QED
  BY <1>1, PricingAssumption DEF HoursOf, Day, Open

\* An heir that gets the hours of its neighbour has no hours of others.
LEMMA HeirHours ==
  ASSUME NEW line \in RuleRows, NEW old \in RuleRows
  PROVE  /\ old.stop = line.start => HoursOf([old EXCEPT !.stop = line.stop]) \subseteq HoursOf(old) \cup HoursOf(line)
         /\ old.start = line.stop => HoursOf([old EXCEPT !.start = line.start]) \subseteq HoursOf(old) \cup HoursOf(line)
<1>1. /\ line.start \in Day \cup {Open} /\ line.stop \in 0..HoursInDay \cup {Open}
      /\ old.start \in Day \cup {Open} /\ old.stop \in 0..HoursInDay \cup {Open}
  BY DEF RuleRows
<1>2. ASSUME old.stop = line.start
      PROVE  HoursOf([old EXCEPT !.stop = line.stop]) \subseteq HoursOf(old) \cup HoursOf(line)
  <2>1. PICK new : new = [old EXCEPT !.stop = line.stop]
    OBVIOUS
  <2>2. new.start = old.start /\ new.stop = line.stop
    BY <2>1 DEF RuleRows
  <2>3. HoursOf(new) \subseteq HoursOf(old) \cup HoursOf(line)
    BY <1>1, <1>2, <2>2, PricingAssumption DEF HoursOf, Day, Open
  <2> QED
    BY <2>1, <2>3
<1>3. ASSUME old.start = line.stop
      PROVE  HoursOf([old EXCEPT !.start = line.start]) \subseteq HoursOf(old) \cup HoursOf(line)
  <2>1. PICK new : new = [old EXCEPT !.start = line.start]
    OBVIOUS
  <2>2. new.start = line.start /\ new.stop = old.stop
    BY <2>1 DEF RuleRows
  <2>3. HoursOf(new) \subseteq HoursOf(old) \cup HoursOf(line)
    BY <1>1, <1>3, <2>2, PricingAssumption DEF HoursOf, Day, Open
  <2> QED
    BY <2>1, <2>3
<1> QED
  BY <1>2, <1>3

LEMMA ActiveIsForever ==
  ASSUME TableTyped, NEW r \in DOMAIN rule
  PROVE  /\ Active(r) <=> rule[r].till = Forever
         /\ rule[r] \in RuleRows
<1>1. rule[r] \in RuleRows /\ clock \in 0..MaxClock /\ (rule[r].till = Forever \/ rule[r].till <= clock)
  BY DEF TableTyped
<1>2. rule[r].till \in 0..Forever
  BY <1>1 DEF RuleRows
<1> QED
  BY <1>1, <1>2, PricingAssumption DEF Active, Forever

\* A save by one request leaves the others nothing fresh, and each answers for what it answered for.
LEMMA OthersOvertaken ==
  ASSUME NEW a \in Admins, behind \subseteq Admins, Overtakes(a, TRUE), ~crossed',
         NEW b \in Admins, b # a, job'[b] = job[b]
  PROVE  /\ ~crossed /\ a \notin behind
         /\ Fresh(b)'
         /\ \A q, r, p, s, h : Answers(b, q, r, h) => Answers(b, p, s, h)'
<1>1. ~crossed /\ a \notin behind /\ (job[b].at # "idle" => b \in behind')
  BY DEF Overtakes
<1>2. Fresh(b)'
  BY <1>1 DEF Fresh
<1> QED
  BY <1>1, <1>2 DEF Answers

\* What matched best still does when no other rule matches than before, and it still matches.
LEMMA BestKept ==
  ASSUME NEW h, NEW t, NEW k \in Best(h, t),
         \A r \in DOMAIN rule' : Matches(r, h, t)' => r \in DOMAIN rule /\ Matches(r, h, t) /\ rule'[r].from = rule[r].from,
         k \in DOMAIN rule /\ Matches(k, h, t) => k \in DOMAIN rule' /\ Matches(k, h, t)'
  PROVE  k \in Best(h, t)'
<1> DEFINE found == {r \in DOMAIN rule : Matches(r, h, t)}
           found2 == {r \in DOMAIN rule' : Matches(r, h, t)'}
<1>1. found2 \subseteq found /\ (k \in found => k \in found2) /\ \A r \in found2 : rule'[r].from = rule[r].from
  OBVIOUS
<1>2. Best(h, t) = IF found = {} THEN {0} ELSE {r \in found : \A q \in found : rule[q].from <= rule[r].from}
  BY DEF Best
<1>3. Best(h, t)' = IF found2 = {} THEN {0} ELSE {r \in found2 : \A q \in found2 : rule'[q].from <= rule'[r].from}
  BY DEF Best
<1> HIDE DEF found, found2
<1> QED
  BY <1>1, <1>2, <1>3

LEMMA BestTyped ==
  ASSUME TableTyped, NEW h, NEW t
  PROVE  Best(h, t) \subseteq 0..MaxRules
BY PricingAssumption DEF Best, TableTyped

\* The parts of the invariant, gathered for each step.
LEMMA PricingStarts == PricingInit => PricingInv
<1> SUFFICES ASSUME PricingInit PROVE PricingInv
  OBVIOUS
<1>1. rule = <<>> /\ clock = 0 /\ job = [a \in Admins |-> NoJob] /\ behind = {} /\ crossed = FALSE /\ ride = NoRide /\ rewritten = FALSE
  BY Zenon DEF PricingInit
<1>2. TableTyped
  BY <1>1, PricingAssumption DEF TableTyped
<1>3. NoJob \in Jobs
  BY PricingAssumption DEF NoJob, Jobs
<1>4. \A a \in Admins : JobOK(a) /\ Fresh(a)
  BY <1>1 DEF JobOK, Fresh, NoJob
<1>5. ride \in [hour : Day, time : 0..MaxClock, rule : 0..MaxRules] /\ QuoteHolds
  BY <1>1, PricingAssumption DEF NoRide, Day, QuoteHolds
<1>6. SharedIsAnswered
  BY <1>1 DEF SharedIsAnswered
<1>7. crossed \in BOOLEAN /\ rewritten \in BOOLEAN
  BY <1>1, Zenon
<1> QED
  BY <1>1, <1>2, <1>3, <1>4, <1>5, <1>6, <1>7 DEF PricingInv

LEMMA PricingParts ==
  ASSUME PricingInv
  PROVE  /\ TableTyped /\ job \in [Admins -> Jobs] /\ behind \subseteq Admins
         /\ crossed \in BOOLEAN /\ rewritten \in BOOLEAN
         /\ ride \in [hour : Day, time : 0..MaxClock, rule : 0..MaxRules]
         /\ \A a \in Admins : JobOK(a)
         /\ ~crossed => (\A a \in Admins : Fresh(a)) /\ SharedIsAnswered
         /\ QuoteHolds
         /\ rule \in Seq(RuleRows) /\ DOMAIN rule = 1..Len(rule) /\ Len(rule) \in 0..MaxRules /\ clock \in 0..MaxClock
         /\ \A r \in DOMAIN rule : rule[r] \in RuleRows /\ (Active(r) <=> rule[r].till = Forever)
<1>1. TableTyped
  BY DEF PricingInv
<1>2. rule \in Seq(RuleRows) /\ DOMAIN rule = 1..Len(rule) /\ Len(rule) \in 0..MaxRules /\ clock \in 0..MaxClock
  BY <1>1, PricingAssumption DEF TableTyped
<1>3. \A r \in DOMAIN rule : rule[r] \in RuleRows /\ (Active(r) <=> rule[r].till = Forever)
  BY <1>1, ActiveIsForever
<1> QED
  BY <1>2, <1>3 DEF PricingInv

\* The quote holds when nothing that it rests on is rewritten.
LEMMA QuoteKept ==
  ASSUME QuoteHolds, ride' = ride, NEW cond, Rewrites(cond),
         \A h, t, k : ride # NoRide /\ ~cond /\ h = ride.hour /\ t = ride.time /\ k = ride.rule =>
           /\ \A r \in DOMAIN rule' : Matches(r, h, t)' => r \in DOMAIN rule /\ Matches(r, h, t) /\ rule'[r].from = rule[r].from
           /\ k \in DOMAIN rule /\ Matches(k, h, t) => k \in DOMAIN rule' /\ Matches(k, h, t)'
  PROVE  QuoteHolds'
<1>1. PICK h, t, k : h = ride.hour /\ t = ride.time /\ k = ride.rule
  OBVIOUS
<1>2. SUFFICES ASSUME ride # NoRide, ~rewritten' PROVE k \in Best(h, t)'
  BY <1>1 DEF QuoteHolds
<1>3. ~rewritten /\ ~cond
  BY <1>2 DEF Rewrites
<1>4. k \in Best(h, t)
  BY <1>1, <1>2, <1>3 DEF QuoteHolds
<1>5. /\ \A r \in DOMAIN rule' : Matches(r, h, t)' => r \in DOMAIN rule /\ Matches(r, h, t) /\ rule'[r].from = rule[r].from
      /\ k \in DOMAIN rule /\ Matches(k, h, t) => k \in DOMAIN rule' /\ Matches(k, h, t)'
  BY <1>1, <1>2, <1>3
<1> QED
  BY <1>4, <1>5, BestKept

LEMMA UpsertStep ==
  ASSUME PricingInv, NEW a \in Admins, NEW id \in 1..MaxRules, NEW range \in Ranges, NEW from \in 0..MaxClock,
         Upsert(a, id, range, from)
  PROVE  PricingInv'
<1>1. /\ TableTyped /\ job \in [Admins -> Jobs] /\ behind \subseteq Admins /\ crossed \in BOOLEAN /\ rewritten \in BOOLEAN
      /\ ride \in [hour : Day, time : 0..MaxClock, rule : 0..MaxRules]
      /\ \A b \in Admins : JobOK(b)
      /\ ~crossed => (\A b \in Admins : Fresh(b)) /\ SharedIsAnswered
      /\ QuoteHolds
      /\ rule \in Seq(RuleRows) /\ DOMAIN rule = 1..Len(rule) /\ Len(rule) \in 0..MaxRules /\ clock \in 0..MaxClock
      /\ \A r \in DOMAIN rule : rule[r] \in RuleRows /\ (Active(r) <=> rule[r].till = Forever)
  BY PricingParts
<1>2. PICK line : line = [start |-> range[1], stop |-> range[2], from |-> from, till |-> Forever]
  OBVIOUS
<1>3. line \in RuleRows /\ line.till = Forever /\ line.from = from
  BY <1>2, PricingAssumption DEF RuleRows, Forever
<1>4. PICK next : next = [NoJob EXCEPT !.at = "find", !.id = id, !.row = line]
  OBVIOUS
<1>5. /\ job[a] = NoJob /\ id \in DOMAIN rule \cup {Len(rule) + 1}
      /\ rule' = IF id \in DOMAIN rule THEN [rule EXCEPT ![id] = line] ELSE Append(rule, line)
      /\ job' = [job EXCEPT ![a] = IF HoursOf(line) = {} THEN NoJob ELSE next]
      /\ Overtakes(a, TRUE) /\ Rewrites(from <= ride.time \/ id = ride.rule) /\ clock' = clock /\ ride' = ride
  BY <1>2, <1>4 DEF Upsert
<1>6. next \in Jobs /\ next.at = "find" /\ next.id = id /\ next.row = line /\ next.todo = {}
  <2>1. next = [at |-> "find", id |-> id, row |-> line, copy |-> <<>>, todo |-> {}]
    BY <1>4 DEF NoJob
  <2> QED
    BY <1>3, <2>1, PricingAssumption DEF Jobs
<1>7. NoJob \in Jobs /\ NoJob.at = "idle" /\ NoJob.todo = {}
  BY PricingAssumption DEF NoJob, Jobs
<1>8. /\ job' \in [Admins -> Jobs] /\ (job'[a] = NoJob \/ job'[a] = next)
      /\ (HoursOf(line) # {} => job'[a] = next)
      /\ \A b \in Admins \ {a} : job'[b] = job[b]
  BY <1>1, <1>5, <1>6, <1>7
<1>9. /\ rule' \in Seq(RuleRows) /\ Len(rule') <= MaxRules /\ DOMAIN rule' = DOMAIN rule \cup {id}
      /\ rule'[id] = line /\ \A r \in DOMAIN rule \ {id} : rule'[r] = rule[r]
  <2>1. CASE id \in DOMAIN rule
    BY <1>1, <1>3, <1>5, <2>1
  <2>2. CASE id \notin DOMAIN rule
    BY <1>1, <1>3, <1>5, <2>2
  <2> QED
    BY <2>1, <2>2
<1>10. TableTyped'
  BY <1>1, <1>3, <1>5, <1>9 DEF TableTyped
<1>11. \A b \in Admins : JobOK(b)'
  <2> TAKE b \in Admins
  <2>1. CASE b = a
    BY <1>3, <1>6, <1>7, <1>8, <1>9, <2>1 DEF JobOK
  <2>2. CASE b # a
    BY <1>1, <1>8, <1>9, <2>2 DEF JobOK
  <2> QED
    BY <2>1, <2>2
<1>12. ASSUME ~crossed' PROVE (\A b \in Admins : Fresh(b)') /\ SharedIsAnswered'
  <2>1. ~crossed
    BY <1>5, <1>12 DEF Overtakes
  <2>2. \A b \in Admins \ {a} : Fresh(b)' /\ \A q, r, p, s, h : Answers(b, q, r, h) => Answers(b, p, s, h)'
    BY <1>1, <1>5, <1>8, <1>12, OthersOvertaken
  <2>3. Fresh(a)'
    BY <1>6, <1>7, <1>8 DEF Fresh
  <2>4. ASSUME NEW q \in DOMAIN rule', NEW r \in DOMAIN rule', q # r, Active(q)', Active(r)',
               NEW h \in HoursOf(rule'[q]) \cap HoursOf(rule'[r])
        PROVE  \E b \in Admins : Answers(b, q, r, h)'
    <3>1. CASE q = id \/ r = id
      <4>1. h \in HoursOf(line)
        BY <1>9, <2>4, <3>1
      <4>2. Answers(a, q, r, h)'
        BY <1>6, <1>8, <4>1 DEF Answers
      <4> QED
        BY <4>2
    <3>2. CASE q # id /\ r # id
      <4>1. /\ q \in DOMAIN rule /\ r \in DOMAIN rule /\ Active(q) /\ Active(r)
            /\ h \in HoursOf(rule[q]) \cap HoursOf(rule[r])
        BY <1>5, <1>9, <2>4, <3>2 DEF Active
      <4>2. PICK b \in Admins : Answers(b, q, r, h)
        BY <1>1, <2>1, <2>4, <4>1 DEF SharedIsAnswered
      <4>3. b # a
        BY <1>5, <1>7, <4>2 DEF Answers
      <4> QED
        BY <2>2, <4>2, <4>3
    <3> QED
      BY <3>1, <3>2
  <2> QED
    BY <2>2, <2>3, <2>4 DEF SharedIsAnswered
<1>13. QuoteHolds'
  <2>1. ASSUME NEW h, NEW t, NEW k, ~(from <= ride.time \/ id = ride.rule), h = ride.hour, t = ride.time, k = ride.rule
        PROVE  /\ \A r \in DOMAIN rule' : Matches(r, h, t)' => r \in DOMAIN rule /\ Matches(r, h, t) /\ rule'[r].from = rule[r].from
               /\ k \in DOMAIN rule /\ Matches(k, h, t) => k \in DOMAIN rule' /\ Matches(k, h, t)'
    <3>1. ~Matches(id, h, t)'
      BY <1>3, <1>9, <2>1 DEF Matches
    <3>2. \A r \in DOMAIN rule \ {id} : Matches(r, h, t)' <=> Matches(r, h, t)
      BY <1>9 DEF Matches
    <3> QED
      BY <1>9, <2>1, <3>1, <3>2
  <2> QED
    BY <1>1, <1>5, <2>1, QuoteKept
<1>14. crossed' \in BOOLEAN /\ rewritten' \in BOOLEAN /\ behind' \subseteq Admins
  <2>1. crossed' \in BOOLEAN
    BY <1>5, Zenon DEF Overtakes
  <2>2. rewritten' \in BOOLEAN
    BY <1>5, Zenon DEF Rewrites
  <2>3. behind' \subseteq Admins
    BY <1>1, <1>5 DEF Overtakes
  <2> QED
    BY <2>1, <2>2, <2>3
<1> QED
  BY <1>1, <1>5, <1>8, <1>10, <1>11, <1>12, <1>13, <1>14 DEF PricingInv

\* A step of one request that leaves the table alone.
LEMMA RequestMoves ==
  ASSUME PricingInv, NEW a \in Admins, job'[a] \in Jobs, job' = [job EXCEPT ![a] = job'[a]],
         UNCHANGED <<rule, clock, ride, rewritten>>, behind' \subseteq behind \cup {a}, \A b \in behind : b = a \/ b \in behind',
         JobOK(a)', crossed' \in BOOLEAN, crossed => crossed',
         ~crossed' => /\ Fresh(a)'
                      /\ \A q, r \in DOMAIN rule, h \in Day : q # r /\ Active(q) /\ Active(r) /\ Answers(a, q, r, h)
                           => h \notin HoursOf(rule[q]) \cap HoursOf(rule[r]) \/ Answers(a, q, r, h)'
  PROVE  PricingInv'
<1>1. /\ TableTyped /\ job \in [Admins -> Jobs] /\ behind \subseteq Admins /\ crossed \in BOOLEAN /\ rewritten \in BOOLEAN
      /\ ride \in [hour : Day, time : 0..MaxClock, rule : 0..MaxRules]
      /\ \A b \in Admins : JobOK(b)
      /\ ~crossed => (\A b \in Admins : Fresh(b)) /\ SharedIsAnswered
      /\ QuoteHolds
      /\ \A r \in DOMAIN rule : rule[r] \in RuleRows
  BY PricingParts
<1>2. /\ job' \in [Admins -> Jobs] /\ behind' \subseteq Admins
      /\ \A b \in Admins \ {a} : job'[b] = job[b] /\ (b \in behind' <=> b \in behind)
  BY <1>1
<1>3. \A b \in Admins : JobOK(b)'
  <2> TAKE b \in Admins
  <2>1. CASE b # a
    BY <1>1, <1>2, <2>1 DEF JobOK
  <2> QED
    BY <2>1
<1>4. ASSUME ~crossed' PROVE (\A b \in Admins : Fresh(b)') /\ SharedIsAnswered'
  <2>1. \A b \in Admins \ {a} : Fresh(b)' /\ \A q, r, h : Answers(b, q, r, h) => Answers(b, q, r, h)'
    BY <1>1, <1>2, <1>4 DEF Fresh, Answers, Active
  <2>2. \A b \in Admins : Fresh(b)'
    BY <1>4, <2>1
  <2>3. ASSUME NEW q \in DOMAIN rule, NEW r \in DOMAIN rule, q # r, Active(q), Active(r),
               NEW h \in HoursOf(rule[q]) \cap HoursOf(rule[r])
        PROVE  \E b \in Admins : Answers(b, q, r, h)'
    <3>1. PICK b \in Admins : Answers(b, q, r, h)
      BY <1>1, <1>4, <2>3 DEF SharedIsAnswered
    <3>2. h \in Day
      BY <1>1, RowHours
    <3>3. CASE b = a
      BY <1>4, <2>3, <3>1, <3>2, <3>3
    <3>4. CASE b # a
      BY <2>1, <3>1, <3>4
    <3> QED
      BY <3>3, <3>4
  <2>4. \A r \in DOMAIN rule' : r \in DOMAIN rule /\ rule'[r] = rule[r] /\ (Active(r)' <=> Active(r))
    BY DEF Active
  <2>5. SharedIsAnswered'
    BY <2>3, <2>4 DEF SharedIsAnswered
  <2> QED
    BY <2>2, <2>5
<1>5. TableTyped' /\ QuoteHolds'
  BY <1>1 DEF TableTyped, QuoteHolds, Best, Matches
<1>6. rewritten' \in BOOLEAN
  BY <1>1, Zenon
<1> QED
  BY <1>1, <1>2, <1>3, <1>4, <1>5, <1>6 DEF PricingInv

LEMMA FindStep == ASSUME PricingInv, NEW a \in Admins, FindOverlaps(a) PROVE PricingInv'
<1> DEFINE overlaps == {r \in DOMAIN rule \ {job[a].id} : Active(r) /\ HoursOf(rule[r]) \cap HoursOf(job[a].row) # {}}
<1>1. /\ job \in [Admins -> Jobs] /\ behind \subseteq Admins /\ crossed \in BOOLEAN /\ JobOK(a)
      /\ rule \in Seq(RuleRows) /\ DOMAIN rule = 1..Len(rule) /\ Len(rule) \in 0..MaxRules
      /\ \A r \in DOMAIN rule : rule[r] \in RuleRows /\ (Active(r) <=> rule[r].till = Forever)
  BY PricingParts
<1>2. /\ job[a].at = "find" /\ UNCHANGED <<rule, clock, crossed, ride, rewritten>> /\ behind' = behind \ {a}
      /\ job' = [job EXCEPT ![a] = IF overlaps = {} THEN NoJob ELSE [job[a] EXCEPT !.at = "trim", !.copy = rule, !.todo = overlaps]]
  BY DEF FindOverlaps
<1>3. PICK todo : todo = overlaps
  OBVIOUS
<1>4. todo \in SUBSET (1..MaxRules) /\ todo \subseteq DOMAIN rule
  BY <1>1, <1>3, PricingAssumption
<1>5. PICK next : next = [job[a] EXCEPT !.at = "trim", !.copy = rule, !.todo = todo]
  OBVIOUS
<1>6. job[a] \in Jobs /\ job[a].id \in DOMAIN rule /\ job[a].row \in RuleRows
  BY <1>1, <1>2 DEF JobOK
<1>7. /\ next \in Jobs /\ next.at = "trim" /\ next.copy = rule /\ next.todo = todo
      /\ next.id = job[a].id /\ next.row = job[a].row
  BY <1>1, <1>4, <1>5, <1>6 DEF Jobs
<1>8. NoJob \in Jobs /\ NoJob.at = "idle" /\ NoJob.todo = {}
  BY PricingAssumption DEF NoJob, Jobs
<1>9. job' = [job EXCEPT ![a] = IF todo = {} THEN NoJob ELSE next]
  BY <1>2, <1>3, <1>5
<1> HIDE DEF overlaps
<1>10. job'[a] = (IF todo = {} THEN NoJob ELSE next)
  BY <1>1, <1>9
<1>11. \A r \in todo : Active(r) /\ HoursOf(rule[r]) \cap HoursOf(job[a].row) # {}
  BY <1>3 DEF overlaps
<1>12. JobOK(a)'
  BY <1>1, <1>2, <1>4, <1>6, <1>7, <1>8, <1>10, <1>11 DEF JobOK
<1>13. Fresh(a)'
  BY <1>2, <1>7, <1>8, <1>10 DEF Fresh
<1>14. ASSUME NEW q \in DOMAIN rule, NEW r \in DOMAIN rule, NEW h \in Day, q # r, Active(q), Active(r), Answers(a, q, r, h),
              h \in HoursOf(rule[q]) \cap HoursOf(rule[r])
       PROVE  Answers(a, q, r, h)'
  <2>1. h \in HoursOf(job[a].row)
    BY <1>2, <1>14 DEF Answers
  <2>2. {q, r} \subseteq todo \cup {job[a].id}
    BY <1>3, <1>14, <2>1 DEF overlaps
  <2>3. todo # {}
    BY <1>14, <2>2
  <2> QED
    BY <1>7, <1>10, <2>1, <2>2, <2>3 DEF Answers
<1>15. job'[a] \in Jobs /\ job' = [job EXCEPT ![a] = job'[a]]
  BY <1>1, <1>7, <1>8, <1>9, <1>10
<1> QED
  BY <1>1, <1>2, <1>12, <1>13, <1>14, <1>15, RequestMoves

LEMMA LoadDeactivateStep ==
  ASSUME PricingInv, NEW a \in Admins, NEW id \in DOMAIN rule, LoadDeactivate(a, id)
  PROVE  PricingInv'
<1> DEFINE siblings == {r \in DOMAIN rule \ {id} : rule[r].from <= clock /\ rule[r].till > clock}
<1>1. /\ job \in [Admins -> Jobs] /\ behind \subseteq Admins /\ crossed \in BOOLEAN
      /\ rule \in Seq(RuleRows) /\ DOMAIN rule = 1..Len(rule) /\ Len(rule) \in 0..MaxRules
      /\ \A r \in DOMAIN rule : rule[r] \in RuleRows /\ (Active(r) <=> rule[r].till = Forever)
  BY PricingParts
<1>2. /\ job[a] = NoJob /\ UNCHANGED <<rule, clock, ride, rewritten, behind>>
      /\ crossed' = (crossed \/ ~Active(id))
      /\ \/ \E heir \in Heirs(siblings, rule[id]) :
              job' = [job EXCEPT ![a] = [NoJob EXCEPT !.at = "expand", !.id = id, !.row = heir.row, !.todo = {heir.id}]]
         \/ job' = [job EXCEPT ![a] = [NoJob EXCEPT !.at = "end", !.id = id]]
  BY DEF LoadDeactivate
<1>3. NoJob.at = "idle"
  BY DEF NoJob
<1>4. \A q, r, h : ~Answers(a, q, r, h)
  BY <1>2, <1>3 DEF Answers
<1>5. crossed' \in BOOLEAN /\ (crossed => crossed')
  BY <1>1, <1>2, Zenon
<1>6. ASSUME NEW heir \in Heirs(siblings, rule[id]),
             job' = [job EXCEPT ![a] = [NoJob EXCEPT !.at = "expand", !.id = id, !.row = heir.row, !.todo = {heir.id}]]
      PROVE  PricingInv'
  <2>1. PICK r \in siblings : /\ heir.id = r
                              /\ \/ rule[r].stop = rule[id].start /\ heir.row = [rule[r] EXCEPT !.stop = rule[id].stop]
                                 \/ rule[r].start = rule[id].stop /\ heir.row = [rule[r] EXCEPT !.start = rule[id].start]
    BY <1>6 DEF Heirs
  <2>2. r \in DOMAIN rule \ {id} /\ Active(r) /\ rule[r] \in RuleRows /\ rule[id] \in RuleRows /\ rule[r].till = Forever
    BY <1>1, <2>1 DEF Active
  <2>3. heir.row \in RuleRows /\ heir.row.till = Forever
    BY <2>1, <2>2 DEF RuleRows
  <2>4. HoursOf(heir.row) \subseteq HoursOf(rule[r]) \cup HoursOf(rule[id])
    BY <2>1, <2>2, HeirHours
  <2>5. PICK line : line = heir.row
    OBVIOUS
  <2>6. PICK next : next = [NoJob EXCEPT !.at = "expand", !.id = id, !.row = line, !.todo = {r}]
    OBVIOUS
  <2>7. /\ next \in Jobs /\ next.at = "expand" /\ next.id = id /\ next.row = line /\ next.todo = {r}
    <3>1. next = [at |-> "expand", id |-> id, row |-> line, copy |-> <<>>, todo |-> {r}]
      BY <2>6 DEF NoJob
    <3> QED
      BY <1>1, <2>2, <2>3, <2>5, <3>1, PricingAssumption DEF Jobs
  <2>8. job' = [job EXCEPT ![a] = next]
    BY <1>6, <2>1, <2>5, <2>6
  <2>9. job'[a] = next
    BY <1>1, <2>8
  <2>10. JobOK(a)'
    BY <1>2, <2>2, <2>3, <2>5, <2>7, <2>9 DEF JobOK
  <2>11. ~crossed' => Fresh(a)'
    <3>1. Active(r)' /\ (~crossed' => Active(id)')
      BY <1>2, <2>2 DEF Active
    <3> QED
      BY <1>2, <2>2, <2>4, <2>5, <2>7, <2>9, <3>1 DEF Fresh
  <2> QED
    BY <1>1, <1>2, <1>4, <1>5, <2>7, <2>8, <2>9, <2>10, <2>11, RequestMoves
<1>7. ASSUME job' = [job EXCEPT ![a] = [NoJob EXCEPT !.at = "end", !.id = id]]
      PROVE  PricingInv'
  <2>1. PICK next : next = [NoJob EXCEPT !.at = "end", !.id = id]
    OBVIOUS
  <2>2. next \in Jobs /\ next.at = "end" /\ next.id = id /\ next.todo = {}
    <3>1. next = [at |-> "end", id |-> id, row |-> <<>>, copy |-> <<>>, todo |-> {}]
      BY <2>1 DEF NoJob
    <3> QED
      BY <1>1, <3>1, PricingAssumption DEF Jobs
  <2>3. job' = [job EXCEPT ![a] = next]
    BY <1>7, <2>1
  <2>4. job'[a] = next
    BY <1>1, <2>3
  <2>5. JobOK(a)' /\ Fresh(a)'
    BY <1>2, <2>2, <2>4 DEF JobOK, Fresh
  <2> QED
    BY <1>1, <1>2, <1>4, <1>5, <2>2, <2>3, <2>4, <2>5, RequestMoves
<1> QED
  BY <1>2, <1>6, <1>7

LEMMA CutOffStep == ASSUME PricingInv, NEW a \in Admins, CutOff(a) PROVE PricingInv'
<1>1. job \in [Admins -> Jobs] /\ behind \subseteq Admins
  BY PricingParts
<1>2. /\ job' = [job EXCEPT ![a] = NoJob] /\ crossed' = TRUE /\ behind' = behind \ {a}
      /\ UNCHANGED <<rule, clock, ride, rewritten>>
  BY Zenon DEF CutOff
<1>3. NoJob \in Jobs /\ NoJob.at = "idle" /\ NoJob.todo = {}
  BY PricingAssumption DEF NoJob, Jobs
<1>4. job'[a] = NoJob
  BY <1>1, <1>2
<1>5. JobOK(a)'
  BY <1>3, <1>4 DEF JobOK
<1>6. crossed' \in BOOLEAN /\ crossed'
  BY <1>2, Zenon
<1> QED
  BY <1>1, <1>2, <1>3, <1>4, <1>5, <1>6, RequestMoves

\* A step of one request that saves a rule: whoever else answered for a shared hour still does.
LEMMA RequestSaves ==
  ASSUME PricingInv, NEW a \in Admins, job'[a] \in Jobs, job' = [job EXCEPT ![a] = job'[a]],
         TableTyped', DOMAIN rule \subseteq DOMAIN rule', clock' = clock, ride' = ride,
         Overtakes(a, TRUE), JobOK(a)', ~crossed' => Fresh(a)', QuoteHolds', rewritten' \in BOOLEAN,
         ~crossed' => \A q, r \in DOMAIN rule', h \in Day :
                        q # r /\ Active(q)' /\ Active(r)' /\ h \in HoursOf(rule'[q]) \cap HoursOf(rule'[r]) =>
                          (\E b \in Admins \ {a}, p, s \in DOMAIN rule : Answers(b, p, s, h)) \/ Answers(a, q, r, h)'
  PROVE  PricingInv'
<1>1. /\ job \in [Admins -> Jobs] /\ behind \subseteq Admins /\ crossed \in BOOLEAN /\ rewritten \in BOOLEAN
      /\ ride \in [hour : Day, time : 0..MaxClock, rule : 0..MaxRules]
      /\ \A b \in Admins : JobOK(b)
  BY PricingParts
<1>2. job' \in [Admins -> Jobs] /\ \A b \in Admins \ {a} : job'[b] = job[b]
  BY <1>1
<1>3. \A b \in Admins : JobOK(b)'
  <2> TAKE b \in Admins
  <2>1. CASE b # a
    BY <1>1, <1>2, <2>1 DEF JobOK
  <2> QED
    BY <2>1
<1>4. ASSUME ~crossed' PROVE (\A b \in Admins : Fresh(b)') /\ SharedIsAnswered'
  <2>1. \A b \in Admins \ {a} : Fresh(b)' /\ \A q, r, p, s, h : Answers(b, q, r, h) => Answers(b, p, s, h)'
    BY <1>1, <1>2, <1>4, OthersOvertaken
  <2>2. ASSUME NEW q \in DOMAIN rule', NEW r \in DOMAIN rule', q # r, Active(q)', Active(r)',
               NEW h \in HoursOf(rule'[q]) \cap HoursOf(rule'[r])
        PROVE  \E b \in Admins : Answers(b, q, r, h)'
    <3>1. h \in Day
      <4>1. rule'[q] \in RuleRows
        BY DEF TableTyped
      <4> QED
        BY <4>1, RowHours
    <3> QED
      BY <1>4, <2>1, <2>2, <3>1
  <2>3. SharedIsAnswered'
    BY <2>2 DEF SharedIsAnswered
  <2> QED
    BY <1>4, <2>1, <2>3
<1>5. behind' \subseteq Admins
  BY <1>1 DEF Overtakes
<1>6. crossed' \in BOOLEAN
  BY Zenon DEF Overtakes
<1> QED
  BY <1>1, <1>2, <1>3, <1>4, <1>5, <1>6 DEF PricingInv

LEMMA ExpandStep == ASSUME PricingInv, NEW a \in Admins, ExpandHeir(a) PROVE PricingInv'
<1>1. /\ TableTyped /\ job \in [Admins -> Jobs] /\ behind \subseteq Admins /\ rewritten \in BOOLEAN /\ JobOK(a)
      /\ ~crossed => Fresh(a) /\ SharedIsAnswered
      /\ rule \in Seq(RuleRows) /\ DOMAIN rule = 1..Len(rule) /\ Len(rule) \in 0..MaxRules
      /\ \A r \in DOMAIN rule : rule[r] \in RuleRows
      /\ QuoteHolds
  BY PricingParts
<1>2. PICK next : next = [NoJob EXCEPT !.at = "end", !.id = job[a].id]
  OBVIOUS
<1>3. /\ job[a].at = "expand" /\ job' = [job EXCEPT ![a] = next]
      /\ rule' = [r \in DOMAIN rule |-> IF r \in job[a].todo THEN job[a].row ELSE rule[r]]
      /\ Overtakes(a, TRUE) /\ Rewrites(TRUE) /\ clock' = clock /\ ride' = ride
  BY <1>2 DEF ExpandHeir
<1>4. job[a].id \in DOMAIN rule /\ job[a].row \in RuleRows /\ job[a].row.till = Forever
  BY <1>1, <1>3 DEF JobOK
<1>5. next \in Jobs /\ next.at = "end" /\ next.id = job[a].id /\ next.todo = {} /\ job'[a] = next
  <2>1. next = [at |-> "end", id |-> job[a].id, row |-> <<>>, copy |-> <<>>, todo |-> {}]
    BY <1>2 DEF NoJob
  <2>2. job'[a] = next
    BY <1>1, <1>3
  <2> QED
    BY <1>1, <1>4, <2>1, <2>2, PricingAssumption DEF Jobs
<1>6. /\ rule' \in Seq(RuleRows) /\ Len(rule') = Len(rule) /\ DOMAIN rule' = DOMAIN rule
      /\ \A r \in DOMAIN rule : rule'[r] = IF r \in job[a].todo THEN job[a].row ELSE rule[r]
  <2>1. rule' \in [1..Len(rule) -> RuleRows]
    BY <1>1, <1>3, <1>4
  <2> QED
    BY <1>1, <1>3, <2>1
<1>7. TableTyped'
  BY <1>1, <1>3, <1>4, <1>6 DEF TableTyped
<1>8. JobOK(a)' /\ Fresh(a)'
  BY <1>4, <1>5, <1>6 DEF JobOK, Fresh
<1>9. rewritten' \in BOOLEAN
  BY <1>3, Zenon DEF Rewrites
<1>10. QuoteHolds'
  BY <1>1, <1>3, QuoteKept
<1>11. ASSUME ~crossed', NEW q \in DOMAIN rule', NEW r \in DOMAIN rule', NEW h \in Day, q # r, Active(q)', Active(r)',
              h \in HoursOf(rule'[q]) \cap HoursOf(rule'[r])
       PROVE  (\E b \in Admins \ {a}, p, s \in DOMAIN rule : Answers(b, p, s, h)) \/ Answers(a, q, r, h)'
  <2>1. ~crossed /\ a \notin behind
    BY <1>3, <1>11 DEF Overtakes
  <2>2. PICK heir \in DOMAIN rule \ {job[a].id} :
          /\ job[a].todo = {heir} /\ Active(heir) /\ Active(job[a].id)
          /\ HoursOf(job[a].row) \subseteq HoursOf(rule[heir]) \cup HoursOf(rule[job[a].id])
    BY <1>1, <1>3, <2>1 DEF Fresh
  <2>3. \A p, s : ~Answers(a, p, s, h)
    BY <1>3, <2>1 DEF Answers
  <2>4. ASSUME NEW p \in DOMAIN rule, NEW s \in DOMAIN rule, p # s, Active(p), Active(s), h \in HoursOf(rule[p]) \cap HoursOf(rule[s])
        PROVE  \E b \in Admins \ {a} : Answers(b, p, s, h)
    BY <1>1, <2>1, <2>3, <2>4 DEF SharedIsAnswered
  <2>5. CASE job[a].id \in {q, r}
    BY <1>5, <2>5 DEF Answers
  <2>6. ASSUME NEW p \in DOMAIN rule, NEW s \in DOMAIN rule, p # s, job[a].id \notin {p, s}, Active(p)', Active(s)',
               h \in HoursOf(rule'[p]), h \in HoursOf(rule'[s]), s # heir
        PROVE  \E b \in Admins \ {a}, o, u \in DOMAIN rule : Answers(b, o, u, h)
    <3>1. rule'[s] = rule[s] /\ Active(s) /\ h \in HoursOf(rule[s])
      BY <1>3, <1>6, <2>2, <2>6 DEF Active
    <3>2. CASE p # heir
      <4>1. Active(p) /\ h \in HoursOf(rule[p])
        BY <1>3, <1>6, <2>2, <2>6, <3>2 DEF Active
      <4> QED
        BY <2>4, <2>6, <3>1, <4>1
    <3>3. CASE p = heir
      <4>1. h \in HoursOf(rule[heir]) \/ h \in HoursOf(rule[job[a].id])
        BY <1>6, <2>2, <2>6, <3>3
      <4>2. CASE h \in HoursOf(rule[heir])
        BY <2>2, <2>4, <2>6, <3>1, <4>2
      <4>3. CASE h \in HoursOf(rule[job[a].id])
        BY <1>4, <2>2, <2>4, <2>6, <3>1, <4>3
      <4> QED
        BY <4>1, <4>2, <4>3
    <3> QED
      BY <3>2, <3>3
  <2>7. CASE job[a].id \notin {q, r}
    <3>1. CASE r # heir
      BY <1>6, <1>11, <2>6, <2>7, <3>1
    <3>2. CASE r = heir
      BY <1>6, <1>11, <2>6, <2>7, <3>2
    <3> QED
      BY <3>1, <3>2
  <2> QED
    BY <2>5, <2>7
<1> QED
  BY <1>3, <1>5, <1>6, <1>7, <1>8, <1>9, <1>10, <1>11, RequestSaves

\* A rule that ends now is the row it was, and still matches what began before.
LEMMA EndedRow ==
  ASSUME NEW old \in RuleRows, clock \in 0..MaxClock, NEW line, line = [old EXCEPT !.till = clock]
  PROVE  line \in RuleRows /\ line.till = clock /\ line.start = old.start /\ line.stop = old.stop /\ line.from = old.from
<1>1. clock \in 0..Forever
  BY PricingAssumption DEF Forever
<1> QED
  BY <1>1 DEF RuleRows

LEMMA EndedMatches ==
  ASSUME rule \in Seq(RuleRows), DOMAIN rule' = DOMAIN rule, NEW id \in DOMAIN rule, rule[id].till = Forever,
         rule'[id].till = clock, clock \in Nat, UNCHANGED <<rule[id].start, rule[id].stop, rule[id].from>>,
         \A r \in DOMAIN rule \ {id} : rule'[r] = rule[r],
         NEW h, NEW t \in 0..MaxClock, clock >= t, NEW k
  PROVE  /\ \A r \in DOMAIN rule' : Matches(r, h, t)' => r \in DOMAIN rule /\ Matches(r, h, t) /\ rule'[r].from = rule[r].from
         /\ k \in DOMAIN rule /\ Matches(k, h, t) => k \in DOMAIN rule' /\ Matches(k, h, t)'
<1>1. Matches(id, h, t)' <=> Matches(id, h, t)
  BY PricingAssumption DEF Matches, Forever
<1>2. \A r \in DOMAIN rule \ {id} : Matches(r, h, t)' <=> Matches(r, h, t)
  BY DEF Matches
<1> QED
  BY <1>1, <1>2

LEMMA EndStep == ASSUME PricingInv, NEW a \in Admins, EndRule(a) PROVE PricingInv'
<1>1. /\ TableTyped /\ job \in [Admins -> Jobs] /\ behind \subseteq Admins /\ rewritten \in BOOLEAN /\ JobOK(a)
      /\ ~crossed => SharedIsAnswered
      /\ rule \in Seq(RuleRows) /\ DOMAIN rule = 1..Len(rule) /\ Len(rule) \in 0..MaxRules /\ clock \in 0..MaxClock
      /\ \A r \in DOMAIN rule : rule[r] \in RuleRows /\ (Active(r) <=> rule[r].till = Forever)
      /\ ride \in [hour : Day, time : 0..MaxClock, rule : 0..MaxRules]
      /\ QuoteHolds
  BY PricingParts
<1>2. PICK id : id = job[a].id
  OBVIOUS
<1>3. /\ job[a].at = "end" /\ job' = [job EXCEPT ![a] = NoJob]
      /\ rule' = [rule EXCEPT ![id].till = clock]
      /\ Overtakes(a, TRUE) /\ Rewrites(clock < ride.time \/ ~Active(id)) /\ clock' = clock /\ ride' = ride
  BY <1>2 DEF EndRule
<1>4. id \in DOMAIN rule
  BY <1>1, <1>2, <1>3 DEF JobOK
<1>5. PICK line : line = [rule[id] EXCEPT !.till = clock]
  OBVIOUS
<1>6. line \in RuleRows /\ line.till = clock /\ line.start = rule[id].start /\ line.stop = rule[id].stop /\ line.from = rule[id].from
  BY <1>1, <1>4, <1>5, EndedRow
<1>7. /\ rule' \in Seq(RuleRows) /\ Len(rule') = Len(rule) /\ DOMAIN rule' = DOMAIN rule
      /\ rule'[id] = line /\ \A r \in DOMAIN rule \ {id} : rule'[r] = rule[r]
  BY <1>1, <1>3, <1>4, <1>5, <1>6
<1>8. TableTyped'
  BY <1>1, <1>3, <1>6, <1>7 DEF TableTyped
<1>9. NoJob \in Jobs /\ NoJob.at = "idle" /\ NoJob.todo = {} /\ job'[a] = NoJob
  BY <1>1, <1>3, PricingAssumption DEF NoJob, Jobs
<1>10. JobOK(a)' /\ Fresh(a)'
  BY <1>9 DEF JobOK, Fresh
<1>11. rewritten' \in BOOLEAN
  BY <1>3, Zenon DEF Rewrites
<1>12. ASSUME NEW h, NEW t, NEW k, ~(clock < ride.time \/ ~Active(id)), h = ride.hour, t = ride.time, k = ride.rule
       PROVE  /\ \A r \in DOMAIN rule' : Matches(r, h, t)' => r \in DOMAIN rule /\ Matches(r, h, t) /\ rule'[r].from = rule[r].from
              /\ k \in DOMAIN rule /\ Matches(k, h, t) => k \in DOMAIN rule' /\ Matches(k, h, t)'
  <2>1. t \in 0..MaxClock /\ clock >= t /\ rule[id].till = Forever
    BY <1>1, <1>4, <1>12
  <2> QED
    BY <1>1, <1>4, <1>6, <1>7, <2>1, EndedMatches
<1>13. QuoteHolds'
  BY <1>1, <1>3, <1>12, QuoteKept
<1>14. ASSUME ~crossed', NEW q \in DOMAIN rule', NEW r \in DOMAIN rule', NEW h \in Day, q # r, Active(q)', Active(r)',
              h \in HoursOf(rule'[q]) \cap HoursOf(rule'[r])
       PROVE  \E b \in Admins \ {a}, p, s \in DOMAIN rule : Answers(b, p, s, h)
  <2>1. ~crossed /\ a \notin behind
    BY <1>3, <1>14 DEF Overtakes
  <2>2. ~Active(id)'
    BY <1>1, <1>3, <1>6, <1>7 DEF Active
  <2>3. /\ q \in DOMAIN rule /\ r \in DOMAIN rule /\ Active(q) /\ Active(r) /\ id \notin {q, r}
        /\ h \in HoursOf(rule[q]) \cap HoursOf(rule[r])
    BY <1>3, <1>7, <1>14, <2>2 DEF Active
  <2>4. PICK b \in Admins : Answers(b, q, r, h)
    BY <1>1, <1>14, <2>1, <2>3 DEF SharedIsAnswered
  <2>5. b # a
    BY <1>2, <1>3, <2>1, <2>3, <2>4 DEF Answers
  <2> QED
    BY <2>3, <2>4, <2>5
<1> QED
  BY <1>3, <1>7, <1>8, <1>9, <1>10, <1>11, <1>13, <1>14, RequestSaves

\* The pieces that trimming leaves of a rule.
LEMMA PieceIs ==
  ASSUME NEW left \in SUBSET Day, left # Day, NEW i \in Intervals(left)
  PROVE  /\ i.start \in Day /\ i.stop \in 0..HoursInDay
         /\ HoursOf(i) \subseteq left
         /\ \A j \in Intervals(left) : i # j => HoursOf(i) \cap HoursOf(j) = {}
<1>1. PICK h \in Starts(left) : i = Interval(left, h)
  BY DEF Intervals
<1>2. h \in left /\ h \in Day
  BY DEF Starts
<1>3. i.start \in Day /\ i.stop \in 0..HoursInDay
  <2>1. PICK n \in 1..HoursInDay - 1 : i = [start |-> h, stop |-> After(h, n)]
    BY <1>1, <1>2, IntervalStops
  <2>2. n \in 0..HoursInDay
    BY PricingAssumption
  <2>3. After(h, n) \in Day
    BY <1>2, <2>2, AfterIsHour
  <2>4. Day \subseteq 0..HoursInDay
    BY PricingAssumption DEF Day
  <2> QED
    BY <1>2, <2>1, <2>3, <2>4
<1>4. HoursOf(i) \subseteq left
  BY <1>1, <1>2, IntervalWithin
<1>5. ASSUME NEW j \in Intervals(left), i # j PROVE HoursOf(i) \cap HoursOf(j) = {}
  <2>1. PICK g \in Starts(left) : j = Interval(left, g)
    BY DEF Intervals
  <2> QED
    BY <1>1, <1>5, <2>1, IntervalsApart
<1> QED
  BY <1>3, <1>4, <1>5

LEMMA IntervalsFinite ==
  ASSUME NEW left \in SUBSET Day
  PROVE  IsFiniteSet(Intervals(left))
<1>1. IsFiniteSet(Starts(left))
  <2>1. IsFiniteSet(Day)
    BY FS_Interval, PricingAssumption DEF Day
  <2>2. Starts(left) \in SUBSET Day
    BY DEF Starts
  <2> QED
    BY <2>1, <2>2, FS_Subset
<1>2. [h \in Starts(left) |-> Interval(left, h)] \in Surjection(Starts(left), Intervals(left))
  BY DEF Surjection, Intervals
<1> QED
  BY <1>1, <1>2, FS_Surjection

LEMMA TrimStep == ASSUME PricingInv, NEW a \in Admins, NEW r \in DOMAIN rule, TrimRule(a, r) PROVE PricingInv'
<1>1. /\ TableTyped /\ job \in [Admins -> Jobs] /\ behind \subseteq Admins /\ rewritten \in BOOLEAN /\ JobOK(a)
      /\ ~crossed => Fresh(a) /\ SharedIsAnswered
      /\ rule \in Seq(RuleRows) /\ DOMAIN rule = 1..Len(rule) /\ Len(rule) \in 0..MaxRules /\ clock \in 0..MaxClock
      /\ \A s \in DOMAIN rule : rule[s] \in RuleRows /\ (Active(s) <=> rule[s].till = Forever)
      /\ ride \in [hour : Day, time : 0..MaxClock, rule : 0..MaxRules]
      /\ QuoteHolds
  BY PricingParts
<1>2. PICK copy, mine, left : copy = job[a].copy[r] /\ mine = HoursOf(job[a].row) /\ left = HoursOf(copy) \ mine
  OBVIOUS
<1>3. PICK others : others = Intervals(left) \ {FirstOf(left)}
  OBVIOUS
<1>4. PICK next : next = [job[a] EXCEPT !.todo = job[a].todo \ {r}]
  OBVIOUS
<1>5. /\ job[a].at = "trim" /\ r \in job[a].todo
      /\ job' = [job EXCEPT ![a] = IF job[a].todo = {r} THEN NoJob ELSE next]
      /\ Overtakes(a, TRUE) /\ Rewrites(left # {} \/ clock < ride.time \/ rule[r] # copy) /\ clock' = clock /\ ride' = ride
  <2>1. job[a].at = "trim" /\ r \in job[a].todo /\ Overtakes(a, TRUE) /\ clock' = clock /\ ride' = ride
    BY DEF TrimRule
  <2>2. job' = [job EXCEPT ![a] = IF job[a].todo = {r} THEN NoJob ELSE next]
    BY <1>4 DEF TrimRule
  <2>3. Rewrites(left # {} \/ clock < ride.time \/ rule[r] # copy)
    BY <1>2, Zenon DEF TrimRule
  <2> QED
    BY <2>1, <2>2, <2>3
<1>6. \/ left = {} /\ rule' = [rule EXCEPT ![r] = [copy EXCEPT !.till = clock]]
      \/ /\ left # {} /\ Len(rule) + Cardinality(others) <= MaxRules
         /\ \E more \in [1..Cardinality(others) -> others] :
              /\ \A i, j \in DOMAIN more : more[i] = more[j] => i = j
              /\ rule' = [rule EXCEPT ![r] = [start |-> FirstOf(left).start, stop |-> FirstOf(left).stop,
                                              from |-> copy.from, till |-> copy.till]]
                           \o [i \in DOMAIN more |-> [start |-> more[i].start, stop |-> more[i].stop,
                                                      from |-> job[a].row.from, till |-> copy.till]]
  BY <1>2, <1>3 DEF TrimRule
<1>7. /\ job[a] \in Jobs /\ job[a].row \in RuleRows /\ job[a].id \in DOMAIN rule /\ job[a].todo \subseteq DOMAIN rule
      /\ copy \in RuleRows /\ copy.till = Forever /\ HoursOf(copy) \cap mine # {}
      /\ \A s \in job[a].todo : /\ s \in DOMAIN job[a].copy /\ job[a].copy[s].till = Forever
                                /\ HoursOf(job[a].copy[s]) \cap HoursOf(job[a].row) # {}
  <2>1. job[a] \in Jobs
    BY <1>1
  <2>2. job[a].copy \in Seq(RuleRows)
    BY <2>1 DEF Jobs
  <2> QED
    BY <1>1, <1>2, <1>5, <2>1, <2>2 DEF JobOK
<1>8. left \subseteq Day /\ left # Day
  <2>1. HoursOf(copy) \subseteq Day
    BY <1>7, RowHours
  <2> QED
    BY <1>2, <1>7, <2>1
<1>9. /\ next \in Jobs /\ next.at = "trim" /\ next.todo = job[a].todo \ {r} /\ next.id = job[a].id
      /\ next.row = job[a].row /\ next.copy = job[a].copy
  BY <1>4, <1>5, <1>7 DEF Jobs
<1>10. NoJob \in Jobs /\ NoJob.at = "idle" /\ NoJob.todo = {}
  BY PricingAssumption DEF NoJob, Jobs
<1>11. job'[a] = (IF job[a].todo = {r} THEN NoJob ELSE next) /\ job'[a] \in Jobs /\ job' = [job EXCEPT ![a] = job'[a]]
  BY <1>1, <1>5, <1>9, <1>10
<1>12. rewritten' \in BOOLEAN
  BY <1>5, Zenon DEF Rewrites
\* What is left: the hours of the pieces.
<1>13. ASSUME TableTyped', DOMAIN rule \subseteq DOMAIN rule', QuoteHolds', \A s \in DOMAIN rule \ {r} : rule'[s] = rule[s],
              \A s \in DOMAIN rule' : (s = r \/ s \notin DOMAIN rule) /\ Active(s)' => HoursOf(rule'[s]) \subseteq left,
              \A s, q \in DOMAIN rule' : s # q /\ (s = r \/ s \notin DOMAIN rule) /\ (q = r \/ q \notin DOMAIN rule) /\ Active(s)' /\ Active(q)'
                => HoursOf(rule'[s]) \cap HoursOf(rule'[q]) = {}
       PROVE  PricingInv'
  <2>1. JobOK(a)'
    <3>1. CASE job[a].todo = {r}
      BY <1>10, <1>11, <3>1 DEF JobOK
    <3>2. CASE job[a].todo # {r}
      <4>1. job'[a] = next
        BY <1>11, <3>2
      <4> QED
        BY <1>7, <1>9, <1>13, <4>1 DEF JobOK
    <3> QED
      BY <3>1, <3>2
  <2>2. ASSUME ~crossed' PROVE Fresh(a)'
    <3>1. CASE job[a].todo = {r}
      BY <1>10, <1>11, <3>1 DEF Fresh
    <3>2. CASE job[a].todo # {r}
      <4>1. job'[a] = next
        BY <1>11, <3>2
      <4>2. ~crossed /\ a \notin behind
        BY <1>5, <2>2 DEF Overtakes
      <4>3. \A s \in job[a].todo : rule[s] = job[a].copy[s]
        BY <1>1, <1>5, <4>2 DEF Fresh
      <4> QED
        BY <1>7, <1>9, <1>13, <4>1, <4>3 DEF Fresh
    <3> QED
      BY <3>1, <3>2
  <2>3. ASSUME ~crossed', NEW q \in DOMAIN rule', NEW s \in DOMAIN rule', NEW h \in Day, q # s, Active(q)', Active(s)',
               h \in HoursOf(rule'[q]) \cap HoursOf(rule'[s])
        PROVE  (\E b \in Admins \ {a}, p, o \in DOMAIN rule : Answers(b, p, o, h)) \/ Answers(a, q, s, h)'
    <3>1. ~crossed /\ a \notin behind
      BY <1>5, <2>3 DEF Overtakes
    <3>2. rule[r] = copy /\ Active(r)
      BY <1>1, <1>2, <1>5, <1>7, <3>1 DEF Fresh
    <3>3. ASSUME NEW p \in DOMAIN rule \ {r}, Active(p)', h \in HoursOf(rule'[p]) PROVE Active(p) /\ h \in HoursOf(rule[p])
      BY <1>5, <1>13, <3>3 DEF Active
    <3>4. CASE q \in DOMAIN rule \ {r} /\ s \in DOMAIN rule \ {r}
      <4>1. PICK b \in Admins : Answers(b, q, s, h)
        BY <1>1, <2>3, <3>1, <3>3, <3>4 DEF SharedIsAnswered
      <4>2. CASE b # a
        BY <3>4, <4>1, <4>2
      <4>3. CASE b = a
        <5>1. h \in HoursOf(job[a].row) /\ {q, s} \subseteq job[a].todo \cup {job[a].id}
          BY <1>5, <3>1, <4>1, <4>3 DEF Answers
        <5>2. job'[a] = next
          BY <1>11, <2>3, <3>4, <5>1
        <5> QED
          BY <1>9, <3>4, <5>1, <5>2 DEF Answers
      <4> QED
        BY <4>2, <4>3
    <3>5. ASSUME NEW p \in DOMAIN rule \ {r}, Active(p)', h \in HoursOf(rule'[p]), h \in left
          PROVE  \E b \in Admins \ {a} : Answers(b, p, r, h)
      <4>1. Active(p) /\ h \in HoursOf(rule[p]) /\ h \in HoursOf(rule[r]) /\ h \notin mine
        BY <1>2, <3>2, <3>3, <3>5
      <4>2. PICK b \in Admins : Answers(b, p, r, h)
        BY <1>1, <3>1, <3>2, <4>1 DEF SharedIsAnswered
      <4>3. b # a
        BY <1>2, <1>5, <3>1, <4>1, <4>2 DEF Answers
      <4> QED
        BY <4>2, <4>3
    <3>6. CASE q \in DOMAIN rule \ {r} /\ s \notin DOMAIN rule \ {r}
      BY <1>13, <2>3, <3>5, <3>6
    <3>7. CASE q \notin DOMAIN rule \ {r} /\ s \in DOMAIN rule \ {r}
      <4>1. h \in left /\ Active(s)' /\ h \in HoursOf(rule'[s])
        BY <1>13, <2>3, <3>7
      <4> QED
        BY <3>5, <3>7, <4>1
    <3>8. CASE q \notin DOMAIN rule \ {r} /\ s \notin DOMAIN rule \ {r}
      BY <1>13, <2>3, <3>8
    <3> QED
      BY <3>4, <3>6, <3>7, <3>8
  <2> QED
    BY <1>5, <1>11, <1>12, <1>13, <2>1, <2>2, <2>3, RequestSaves
\* The rule ends.
<1>14. CASE left = {}
  <2>1. PICK line : line = [copy EXCEPT !.till = clock]
    OBVIOUS
  <2>2. line \in RuleRows /\ line.till = clock /\ line.start = copy.start /\ line.stop = copy.stop /\ line.from = copy.from
    BY <1>1, <1>7, <2>1, EndedRow
  <2>3. rule' = [rule EXCEPT ![r] = line]
    BY <1>6, <1>14, <2>1
  <2>4. /\ rule' \in Seq(RuleRows) /\ Len(rule') = Len(rule) /\ DOMAIN rule' = DOMAIN rule
        /\ rule'[r] = line /\ \A s \in DOMAIN rule \ {r} : rule'[s] = rule[s]
    BY <1>1, <2>2, <2>3
  <2>5. TableTyped'
    BY <1>1, <1>5, <2>2, <2>4 DEF TableTyped
  <2>6. ASSUME NEW h, NEW t, NEW k, ~(left # {} \/ clock < ride.time \/ rule[r] # copy), h = ride.hour, t = ride.time, k = ride.rule
        PROVE  /\ \A s \in DOMAIN rule' : Matches(s, h, t)' => s \in DOMAIN rule /\ Matches(s, h, t) /\ rule'[s].from = rule[s].from
               /\ k \in DOMAIN rule /\ Matches(k, h, t) => k \in DOMAIN rule' /\ Matches(k, h, t)'
    <3>1. t \in 0..MaxClock /\ clock >= t /\ rule[r].till = Forever
      BY <1>1, <1>7, <2>6
    <3> QED
      BY <1>1, <2>2, <2>4, <2>6, <3>1, EndedMatches
  <2>7. QuoteHolds'
    BY <1>1, <1>5, <2>6, QuoteKept
  <2>8. ~Active(r)'
    BY <1>1, <1>5, <2>2, <2>4 DEF Active
  <2> QED
    BY <1>13, <2>4, <2>5, <2>7, <2>8
\* The rule keeps the first interval, and new rules get the others.
<1>15. CASE left # {}
  <2> DEFINE n == Len(rule)
             k == Cardinality(others)
  <2>1. PICK more \in [1..k -> others] :
          /\ \A i, j \in DOMAIN more : more[i] = more[j] => i = j
          /\ rule' = [rule EXCEPT ![r] = [start |-> FirstOf(left).start, stop |-> FirstOf(left).stop,
                                          from |-> copy.from, till |-> copy.till]]
                       \o [i \in DOMAIN more |-> [start |-> more[i].start, stop |-> more[i].stop,
                                                  from |-> job[a].row.from, till |-> copy.till]]
    BY <1>6, <1>15
  <2>2. n + k <= MaxRules /\ k \in Nat /\ n \in Nat
    <3>1. IsFiniteSet(others)
      BY <1>3, <1>8, IntervalsFinite, FS_Subset
    <3> QED
      BY <1>1, <1>6, <1>15, <3>1, FS_CardinalityType
  <2>3. FirstOf(left) \in Intervals(left)
    BY <1>8, <1>15, FirstIsInterval
  <2>4. PICK first : first = [start |-> FirstOf(left).start, stop |-> FirstOf(left).stop, from |-> copy.from, till |-> copy.till]
    OBVIOUS
  <2>5. PICK new : new = [i \in 1..k |-> [start |-> more[i].start, stop |-> more[i].stop,
                                          from |-> job[a].row.from, till |-> copy.till]]
    OBVIOUS
  <2>6. rule' = [rule EXCEPT ![r] = first] \o new
    BY <2>1, <2>4, <2>5
  <2>7. copy.from \in 0..MaxClock /\ job[a].row.from \in 0..MaxClock /\ Forever \in 0..Forever
    BY <1>7, PricingAssumption DEF RuleRows, Forever
  <2>8. first \in RuleRows /\ first.till = Forever /\ HoursOf(first) = HoursOf(FirstOf(left))
    <3>1. first.start = FirstOf(left).start /\ first.stop = FirstOf(left).stop /\ first.till = copy.till
      BY <2>4
    <3>2. first \in RuleRows
      BY <1>7, <1>8, <2>3, <2>4, <2>7, PieceIs DEF RuleRows
    <3> QED
      BY <1>7, <3>1, <3>2 DEF HoursOf
  <2>9. ASSUME NEW i \in 1..k
        PROVE  /\ more[i] \in Intervals(left) /\ more[i] # FirstOf(left)
               /\ new[i] \in RuleRows /\ new[i].till = Forever /\ HoursOf(new[i]) = HoursOf(more[i])
    <3>1. more[i] \in Intervals(left) /\ more[i] # FirstOf(left)
      BY <1>3, <2>1
    <3>2. new[i] = [start |-> more[i].start, stop |-> more[i].stop, from |-> job[a].row.from, till |-> copy.till]
      BY <2>5
    <3>3. new[i] \in RuleRows
      BY <1>7, <1>8, <2>7, <3>1, <3>2, PieceIs DEF RuleRows
    <3>4. new[i].start = more[i].start /\ new[i].stop = more[i].stop /\ new[i].till = copy.till
      BY <3>2
    <3> QED
      BY <1>7, <3>1, <3>3, <3>4 DEF HoursOf
  <2>10. new \in Seq(RuleRows) /\ Len(new) = k
    <3>1. new \in [1..k -> RuleRows]
      BY <2>5, <2>9
    <3> QED
      BY <2>2, <3>1
  <2>11. [rule EXCEPT ![r] = first] \in Seq(RuleRows) /\ Len([rule EXCEPT ![r] = first]) = n
    BY <1>1, <2>8
  <2>12. /\ rule' \in Seq(RuleRows) /\ Len(rule') = n + k /\ DOMAIN rule' = 1..n + k
         /\ rule'[r] = first /\ \A s \in DOMAIN rule \ {r} : rule'[s] = rule[s]
         /\ \A s \in DOMAIN rule' : s \notin DOMAIN rule => s - n \in 1..k /\ rule'[s] = new[s - n]
    BY <1>1, <2>2, <2>6, <2>8, <2>10, <2>11
  <2>13. TableTyped'
    <3>1. ASSUME NEW s \in DOMAIN rule' PROVE rule'[s].till = Forever \/ rule'[s].till <= clock
      BY <1>1, <2>8, <2>9, <2>12, <3>1 DEF TableTyped
    <3> QED
      BY <1>1, <1>5, <2>2, <2>12, <3>1 DEF TableTyped
  <2>14. QuoteHolds'
    BY <1>1, <1>5, <1>15, QuoteKept
  <2> DEFINE piece(s) == IF s = r THEN FirstOf(left) ELSE more[s - n]
  <2>15. ASSUME NEW s \in DOMAIN rule', s = r \/ s \notin DOMAIN rule
         PROVE  piece(s) \in Intervals(left) /\ HoursOf(rule'[s]) = HoursOf(piece(s))
    <3>1. CASE s = r
      BY <2>3, <2>8, <2>12, <3>1
    <3>2. CASE s # r
      BY <2>9, <2>12, <2>15, <3>2
    <3> QED
      BY <3>1, <3>2
  <2>16. ASSUME NEW s \in DOMAIN rule', NEW q \in DOMAIN rule', s # q, s = r \/ s \notin DOMAIN rule, q = r \/ q \notin DOMAIN rule
         PROVE  piece(s) # piece(q)
    <3>1. CASE s = r
      BY <2>9, <2>12, <2>16, <3>1
    <3>2. CASE q = r
      BY <2>9, <2>12, <2>16, <3>2
    <3>3. CASE s # r /\ q # r
      <4>1. s - n \in 1..k /\ q - n \in 1..k /\ s - n # q - n
        BY <2>2, <2>12, <2>16, <3>3
      <4>2. more[s - n] # more[q - n]
        BY <2>1, <4>1
      <4> QED
        BY <3>3, <4>2
    <3> QED
      BY <3>1, <3>2, <3>3
  <2> HIDE DEF piece
  <2>17. ASSUME NEW s \in DOMAIN rule', s = r \/ s \notin DOMAIN rule
         PROVE  HoursOf(rule'[s]) \subseteq left
    BY <1>8, <2>15, <2>17, PieceIs
  <2>18. ASSUME NEW s \in DOMAIN rule', NEW q \in DOMAIN rule', s # q, s = r \/ s \notin DOMAIN rule, q = r \/ q \notin DOMAIN rule
         PROVE  HoursOf(rule'[s]) \cap HoursOf(rule'[q]) = {}
    <3>1. piece(s) \in Intervals(left) /\ piece(q) \in Intervals(left) /\ piece(s) # piece(q)
      BY <2>15, <2>16, <2>18
    <3>2. HoursOf(rule'[s]) = HoursOf(piece(s)) /\ HoursOf(rule'[q]) = HoursOf(piece(q))
      BY <2>15, <2>18
    <3> QED
      BY <1>8, <3>1, <3>2, PieceIs
  <2>19. DOMAIN rule \subseteq DOMAIN rule'
    BY <1>1, <2>2, <2>12
  <2> QED
    BY <1>13, <2>12, <2>13, <2>14, <2>17, <2>18, <2>19
<1> QED
  BY <1>14, <1>15

LEMMA TickStep == ASSUME PricingInv, ClockTick PROVE PricingInv'
<1>1. /\ TableTyped /\ job \in [Admins -> Jobs] /\ behind \subseteq Admins /\ crossed \in BOOLEAN /\ rewritten \in BOOLEAN
      /\ ride \in [hour : Day, time : 0..MaxClock, rule : 0..MaxRules]
      /\ \A a \in Admins : JobOK(a)
      /\ ~crossed => (\A a \in Admins : Fresh(a)) /\ SharedIsAnswered
      /\ QuoteHolds
      /\ clock \in 0..MaxClock
      /\ \A r \in DOMAIN rule : rule[r] \in RuleRows /\ (Active(r) <=> rule[r].till = Forever)
  BY PricingParts
<1>2. UNCHANGED <<rule, job, behind, crossed, ride, rewritten>> /\ clock' = clock + 1 /\ clock < MaxClock
  BY Zenon DEF ClockTick
<1>3. TableTyped'
  <2>1. clock' \in 0..MaxClock
    BY <1>1, <1>2, PricingAssumption
  <2>2. ASSUME NEW r \in DOMAIN rule PROVE rule[r].till = Forever \/ rule[r].till <= clock'
    <3>1. rule[r].till \in 0..Forever
      BY <1>1 DEF RuleRows
    <3>2. rule[r].till = Forever \/ rule[r].till <= clock
      BY <1>1 DEF TableTyped
    <3> QED
      BY <1>1, <1>2, <3>1, <3>2, PricingAssumption
  <2> QED
    BY <1>1, <1>2, <2>1, <2>2 DEF TableTyped
<1>4. \A r \in DOMAIN rule : Active(r)' <=> Active(r)
  <2>1. \A r \in DOMAIN rule' : Active(r)' <=> rule'[r].till = Forever
    <3> TAKE r \in DOMAIN rule'
    <3>1. rule'[r] \in RuleRows /\ (rule'[r].till = Forever \/ rule'[r].till <= clock') /\ clock' \in 0..MaxClock
      BY <1>3 DEF TableTyped
    <3>2. rule'[r].till \in 0..Forever
      BY <3>1 DEF RuleRows
    <3> QED
      BY <3>1, <3>2, PricingAssumption DEF Active, Forever
  <2> QED
    BY <1>1, <1>2, <2>1
<1>5. \A a \in Admins : JobOK(a)'
  BY <1>1, <1>2 DEF JobOK
<1>6. ~crossed' => (\A a \in Admins : Fresh(a)') /\ SharedIsAnswered'
  <2>1. ASSUME ~crossed, NEW a \in Admins PROVE Fresh(a)'
    <3>1. Fresh(a) /\ JobOK(a)
      BY <1>1, <2>1
    <3>2. job[a].at = "expand" => job[a].id \in DOMAIN rule
      BY <3>1 DEF JobOK
    <3> QED
      BY <1>2, <1>4, <3>1, <3>2 DEF Fresh
  <2>2. ~crossed => SharedIsAnswered'
    BY <1>1, <1>2, <1>4 DEF SharedIsAnswered, Answers
  <2> QED
    BY <1>2, <2>1, <2>2
<1>7. QuoteHolds'
  BY <1>1, <1>2 DEF QuoteHolds, Best, Matches
<1>8. crossed' \in BOOLEAN /\ rewritten' \in BOOLEAN
  BY <1>1, <1>2, Zenon
<1> QED
  BY <1>1, <1>2, <1>3, <1>5, <1>6, <1>7, <1>8 DEF PricingInv

LEMMA TableStands ==
  ASSUME TableTyped, \A a \in Admins : JobOK(a), ~crossed => (\A a \in Admins : Fresh(a)) /\ SharedIsAnswered,
         UNCHANGED <<rule, clock, job, behind, crossed>>
  PROVE  TableTyped' /\ (\A a \in Admins : JobOK(a)') /\ (~crossed' => (\A a \in Admins : Fresh(a)') /\ SharedIsAnswered')
<1>1. TableTyped'
  BY DEF TableTyped
<1>2. \A a \in Admins : JobOK(a)'
  BY DEF JobOK
<1>3. ~crossed' => \A a \in Admins : Fresh(a)'
  BY DEF Fresh, Active
<1>4. ~crossed' => SharedIsAnswered'
  BY DEF SharedIsAnswered, Answers, Active
<1> QED
  BY <1>1, <1>2, <1>3, <1>4

\* Quoting and billing change the ride alone, to what the lookup finds.
LEMMA RideStep ==
  ASSUME PricingInv, Bill \/ \E hour \in Day, time \in 0..MaxClock : Quote(hour, time)
  PROVE  PricingInv'
<1>1. /\ TableTyped /\ job \in [Admins -> Jobs] /\ behind \subseteq Admins /\ crossed \in BOOLEAN /\ rewritten \in BOOLEAN
      /\ ride \in [hour : Day, time : 0..MaxClock, rule : 0..MaxRules]
      /\ \A a \in Admins : JobOK(a)
      /\ ~crossed => (\A a \in Admins : Fresh(a)) /\ SharedIsAnswered
  BY PricingParts
<1>2. UNCHANGED <<rule, clock, job, behind, crossed>> /\ rewritten' \in BOOLEAN
  <2>1. CASE Bill
    BY <1>1, <2>1, Zenon DEF Bill
  <2>2. CASE \E hour \in Day, time \in 0..MaxClock : Quote(hour, time)
    BY <2>2, Zenon DEF Quote
  <2> QED
    BY <2>1, <2>2
<1>3. \E hour \in Day, time \in 0..MaxClock : \E r \in Best(hour, time) : ride' = [hour |-> hour, time |-> time, rule |-> r]
  <2>1. CASE Bill
    <3>1. PICK r \in Best(ride.hour, ride.time) : ride' = [ride EXCEPT !.rule = r]
      BY <2>1 DEF Bill
    <3>2. PICK hour \in Day, time \in 0..MaxClock : hour = ride.hour /\ time = ride.time
      BY <1>1
    <3>3. ride' = [hour |-> hour, time |-> time, rule |-> r]
      BY <1>1, <3>1, <3>2
    <3> QED
      BY <3>1, <3>2, <3>3
  <2>2. ASSUME NEW hour \in Day, NEW time \in 0..MaxClock, Quote(hour, time)
        PROVE  \E r \in Best(hour, time) : ride' = [hour |-> hour, time |-> time, rule |-> r]
    BY <2>2 DEF Quote
  <2> QED
    BY <2>1, <2>2
<1>4. PICK hour \in Day, time \in 0..MaxClock : \E r \in Best(hour, time) : ride' = [hour |-> hour, time |-> time, rule |-> r]
  BY <1>3
<1>11. PICK r \in Best(hour, time) : ride' = [hour |-> hour, time |-> time, rule |-> r]
  BY <1>4
<1>5. r \in 0..MaxRules
  BY <1>1, <1>11, BestTyped
<1>6. ride' \in [hour : Day, time : 0..MaxClock, rule : 0..MaxRules]
  BY <1>11, <1>5
<1>7. r \in Best(hour, time)'
  BY <1>2, <1>11 DEF Best, Matches
<1>8. QuoteHolds'
  <2>1. ride'.hour = hour /\ ride'.time = time /\ ride'.rule = r
    BY <1>11
  <2> QED
    BY <1>7, <2>1 DEF QuoteHolds
<1>9. TableTyped' /\ (\A a \in Admins : JobOK(a)') /\ (~crossed' => (\A a \in Admins : Fresh(a)') /\ SharedIsAnswered')
  BY <1>1, <1>2, TableStands
<1>10. crossed' \in BOOLEAN
  BY <1>1, <1>2, Zenon
<1> QED
  BY <1>1, <1>2, <1>6, <1>8, <1>9, <1>10 DEF PricingInv

LEMMA PricingStep == ASSUME PricingInv, [PricingNext]_pricing PROVE PricingInv'
<1>1. CASE UNCHANGED pricing
  <2>1. UNCHANGED <<rule, clock, job, behind, crossed, ride, rewritten>>
    BY <1>1 DEF pricing
  <2>2. TableTyped' /\ (\A a \in Admins : JobOK(a)') /\ (~crossed' => (\A a \in Admins : Fresh(a)') /\ SharedIsAnswered')
    BY <2>1, TableStands DEF PricingInv
  <2>3. QuoteHolds'
    BY <2>1 DEF PricingInv, QuoteHolds, Best, Matches
  <2>4. crossed' \in BOOLEAN /\ rewritten' \in BOOLEAN
    BY <2>1, Zenon DEF PricingInv
  <2> QED
    BY <2>1, <2>2, <2>3, <2>4 DEF PricingInv
<1>2. ASSUME NEW a \in Admins, NEW id \in 1..MaxRules, NEW range \in Ranges, NEW from \in 0..MaxClock, Upsert(a, id, range, from)
      PROVE  PricingInv'
  BY <1>2, UpsertStep
<1>3. ASSUME NEW a \in Admins, FindOverlaps(a) \/ ExpandHeir(a) \/ EndRule(a) \/ CutOff(a)
      PROVE  PricingInv'
  BY <1>3, FindStep, ExpandStep, EndStep, CutOffStep
<1>4. ASSUME NEW a \in Admins, NEW r \in DOMAIN rule, TrimRule(a, r) \/ LoadDeactivate(a, r)
      PROVE  PricingInv'
  BY <1>4, TrimStep, LoadDeactivateStep
<1> QED
  BY <1>1, <1>2, <1>3, <1>4, TickStep, RideStep DEF PricingNext

\* When nobody is at work nobody answers for a shared hour: there is none.
LEMMA OneRuleFollows == PricingInv => HourHasOneRule
<1> SUFFICES ASSUME PricingInv, ~crossed, \A a \in Admins : job[a] = NoJob,
                    NEW q \in DOMAIN rule, NEW r \in DOMAIN rule, q # r, Active(q), Active(r),
                    NEW h \in HoursOf(rule[q]) \cap HoursOf(rule[r])
             PROVE  FALSE
  BY DEF HourHasOneRule
<1>1. PICK a \in Admins : Answers(a, q, r, h)
  BY DEF PricingInv, SharedIsAnswered
<1>2. job[a].at = "idle"
  BY DEF NoJob
<1> QED
  BY <1>1, <1>2 DEF Answers

LEMMA BilledFollows ==
  ASSUME PricingInv, [PricingNext]_pricing, Bill, ~rewritten, Cardinality(Best(ride.hour, ride.time)) = 1
  PROVE  ride' = ride
<1>1. TableTyped /\ ride \in [hour : Day, time : 0..MaxClock, rule : 0..MaxRules] /\ QuoteHolds
  BY PricingParts
<1>2. PICK found : found = Best(ride.hour, ride.time)
  OBVIOUS
<1>3. IsFiniteSet(found)
  <2>1. IsFiniteSet(0..MaxRules)
    BY FS_Interval, PricingAssumption
  <2>2. found \in SUBSET (0..MaxRules)
    BY <1>1, <1>2, BestTyped
  <2> QED
    BY <2>1, <2>2, FS_Subset
<1>4. PICK x : found = {x}
  BY <1>2, <1>3, FS_Singleton
<1>5. ride.rule \in found
  BY <1>1, <1>2 DEF QuoteHolds, Bill
<1>6. PICK r \in found : ride' = [ride EXCEPT !.rule = r]
  BY <1>2 DEF Bill
<1>7. r = ride.rule
  BY <1>4, <1>5, <1>6
<1> QED
  BY <1>1, <1>6, <1>7

LEMMA PricingTypesFollow == PricingInv => PricingTypeOK
<1> SUFFICES ASSUME PricingInv PROVE PricingTypeOK
  OBVIOUS
<1>1. /\ TableTyped /\ job \in [Admins -> Jobs] /\ behind \subseteq Admins
      /\ ride \in [hour : Day, time : 0..MaxClock, rule : 0..MaxRules]
      /\ \A a \in Admins : JobOK(a)
      /\ Len(rule) \in 0..MaxRules /\ \A r \in DOMAIN rule : rule[r] \in RuleRows
  BY PricingParts
<1>2. \A a \in Admins : job[a] \in Jobs
  BY <1>1
<1>3. \A a \in Admins : job[a].at \in {"idle", "find", "trim", "expand", "end"} /\ job[a].todo \subseteq DOMAIN rule
  BY <1>1, <1>2 DEF Jobs, JobOK
<1> QED
  BY <1>1, <1>3 DEF PricingTypeOK

-----------------------------------------------------------------------------
(* All three together.                                                     *)

InfraInv == PricingInv /\ DepotInv /\ InOrder /\ GatewayInv

THEOREM InfraInvariant == InfraSpec => []InfraInv
<1>1. InfraInit => InfraInv
  BY PricingStarts, DepotStarts, OrderStarts, GatewayStarts DEF InfraInit, InfraInv
<1>2. InfraInv /\ [InfraNext]_<<pricing, depot, gateway, part>> => InfraInv'
  <2> SUFFICES ASSUME InfraInv, [InfraNext]_<<pricing, depot, gateway, part>> PROVE InfraInv'
    OBVIOUS
  <2>1. [PricingNext]_pricing /\ [DepotNext]_depot /\ [GatewayNext]_gateway
    BY DEF InfraNext
  <2> QED
    BY <2>1, PricingStep, DepotStep, OrderStep, GatewayStep DEF InfraInv
<1> QED
  BY <1>1, <1>2, PTL DEF InfraSpec

\* Type correctness of the price table, the charger's status and the gateway.
THEOREM InfraTypesCorrect == InfraSpec => []InfraTypeOK
<1>1. InfraInv => InfraTypeOK
  BY PricingTypesFollow, DepotTypesFollow DEF InfraInv, InfraTypeOK, GatewayInv
<1> QED
  BY <1>1, InfraInvariant, PTL

\* However many administrators work on the table, an hour is in one active rule once they are
\* done, unless one of them went on after another's save (pricing.use-case.ts).
THEOREM HourHasOneRuleCorrect == InfraSpec => []HourHasOneRule
<1>1. InfraInv => HourHasOneRule
  BY OneRuleFollows DEF InfraInv
<1> QED
  BY <1>1, InfraInvariant, PTL

\* The row says what the reports leave that were handled in turn, and the copy in Redis tells
\* the row (charger-status.consumer.ts).
THEOREM StatusIsToldCorrect == InfraSpec => []StatusIsTold
<1>1. InfraInv => StatusIsTold
  BY RowFollows, CacheTells DEF InfraInv, StatusIsTold
<1> QED
  BY <1>1, InfraInvariant, PTL

\* The gateway reaches a charger by its latest socket, unless an older one's close took it away,
\* and sends a command once per start (ocpp-gateway.service.ts).
THEOREM ChargerIsReachedCorrect == InfraSpec => []ChargerIsReached
<1>1. InfraInv => ChargerIsReached
  BY DEF InfraInv, GatewayInv
<1> QED
  BY <1>1, InfraInvariant, PTL

\* A ride is billed by the rule it was quoted by, and the charger's word does not end a use that
\* the handler saw (pricing.use-case.ts, charger-status.consumer.ts).
THEOREM EndsAsBegunCorrect == InfraSpec => EndsAsBegun
<1>1. InfraInv /\ [InfraNext]_<<pricing, depot, gateway, part>> =>
        [Bill /\ ~rewritten /\ Cardinality(Best(ride.hour, ride.time)) = 1 => ride' = ride]_pricing
  <2> SUFFICES ASSUME InfraInv, [InfraNext]_<<pricing, depot, gateway, part>>, Bill, ~rewritten,
                      Cardinality(Best(ride.hour, ride.time)) = 1
               PROVE  ride' = ride
    OBVIOUS
  <2>1. [PricingNext]_pricing /\ PricingInv
    BY DEF InfraNext, InfraInv
  <2> QED
    BY <2>1, BilledFollows
<1>2. [InfraNext]_<<pricing, depot, gateway, part>> =>
        [\A m \in DOMAIN report : UpdateRow(m) /\ report[m].from = "ocpp" /\ row = "in_use" /\ row' = "available"
           => report[m].seen # "in_use"]_depot
  BY UseEnds
<1>3. InfraSpec => BilledAsQuoted
  BY <1>1, InfraInvariant, PTL DEF InfraSpec, BilledAsQuoted
<1>4. InfraSpec => UseEndsByPlatform
  BY <1>2, PTL DEF InfraSpec, UseEndsByPlatform
<1> QED
  BY <1>3, <1>4 DEF EndsAsBegun
=============================================================================
