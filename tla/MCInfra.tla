------------------------------ MODULE MCInfra ------------------------------
(* The gateway's connections, the status of a charger and the price table do *)
(* not touch each other: a behaviour is one of the three.                    *)
EXTENDS PricingRules, ChargerStatus, OcppGateway, TLC

CONSTANTS a1, a2, k1, k2, k3, c1, c2

VARIABLE part

InfraInit == PricingInit /\ DepotInit /\ GatewayInit /\ part \in {"prices", "status", "gateway"}

InfraNext ==
  /\ UNCHANGED part
  /\ \/ part = "prices" /\ PricingNext /\ UNCHANGED <<depot, gateway>>
     \/ part = "status" /\ DepotNext /\ UNCHANGED <<pricing, gateway>>
     \/ part = "gateway" /\ GatewayNext /\ UNCHANGED <<pricing, depot>>

InfraSpec == InfraInit /\ [][InfraNext]_<<pricing, depot, gateway, part>>

\* The tables, copies, messages and connections of all three have their types.
InfraTypeOK == PricingTypeOK /\ DepotTypeOK /\ GatewayTypeOK

\* A charger's row says what the last report said unless its handling was disturbed, and the
\* cached copy tells the row: charger-status.consumer.ts, UpdateChargerStatusUseCase.
StatusIsTold == RowFollowsReports /\ CacheTellsRow

\* What was decided at the start still holds at the end: an hour is billed at the price quoted
\* for it, and a charger leaves in_use by the platform's word (pricing.use-case.ts,
\* charger-status.consumer.ts).
EndsAsBegun == BilledAsQuoted /\ UseEndsByPlatform

\* A part of the day, an hour of it, and half a range, which counts as the whole day.
MCRanges == {<<0, 3>>, <<1, 2>>, <<2, Open>>}

\* Who is done with a report is not told apart by what the handler had read.
MCReports ==
  [m \in DOMAIN report |->
     IF report[m].at = "read" THEN report[m]
     ELSE IF disturbed /\ report[m].at = "done" THEN <<>> ELSE [report[m] EXCEPT !.seen = "none"]]
MCView ==
  <<part, pricing, row, station, cache, clerk, reader, crashes, late, disturbed, MCReports, gateway>>
MCSymmetry == Permutations(Admins)

\* Prices: not past a crossed request, rides at one hour and with one request at a
\* time.  Status: a third report once the first is done, with the station active.
MCBound ==
  /\ ~crossed
  /\ ride # NoRide => ride.hour = 2 /\ Cardinality({a \in Admins : job[a] # NoJob}) < 2
  /\ Len(report) = 3 => report[1].at = "done" /\ clerk.at # "invalidate" /\ station = "active" /\ reader = Nobody
  /\ Len(report) = 2 /\ reader # Nobody => report[1].at = "done"
=============================================================================
