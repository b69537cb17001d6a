---------------------------- MODULE MCObservers -----------------------------
(* Notices, metrics, reports and readings share no row that changes: a       *)
(* behaviour is one of the four.                                              *)
EXTENDS Notices, UsageMetrics, Telemetry, Reports, TLC

CONSTANTS l1, l2, l3, u1, u2, h1, h2, p1, g1, g2, f1, f2, f3, r1, r2, r3, s1, s2, d1, d2, d3

VARIABLE part

MCKind == l1 :> "confirmed" @@ l2 :> "debt" @@ l3 :> "fault"
MCCustomer == l1 :> u1 @@ l2 :> u2 @@ l3 :> u2
MCQuiet == {<<>>, <<2, 1>>}
MCSort == f1 :> "completed" @@ f2 :> "payment" @@ f3 :> "fault"
MCRunOf == r1 :> s1 @@ r2 :> s1 @@ r3 :> s2

\* Two stations, two hours and four days, of which the reports look back on two.
MCFilled(dates) == [d \in Dates |-> IF d \in dates THEN 1 ELSE NoRow]
MCDayTables == {s1 :> a @@ s2 :> MCFilled(e) : a \in [Dates -> {1, 2, NoRow}], e \in {{}, {2}, {1, 2, 3}, Dates}}
MCHourTables ==
  {s1 :> (0 :> a @@ 1 :> MCFilled(e)) @@ s2 :> (0 :> MCFilled(f) @@ 1 :> MCFilled({})) :
     a \in [Dates -> {1, 2, NoRow}], e \in {{}, {1, 4}, {3}, {1, 2, 3}, Dates}, f \in {{}, Dates}}

ObserversInit ==
  /\ NoticesInit /\ UsageInit /\ TelemetryInit /\ ReportsInit
  /\ part \in {"notices", "usage", "telemetry", "reports"}
  /\ part # "reports" => daily = NoDays /\ hourly = NoHours

ObserversNext ==
  /\ UNCHANGED part
  /\ \/ part = "notices" /\ NoticesNext /\ UNCHANGED <<usage, telemetry, reports>>
     \/ part = "usage" /\ UsageNext /\ UNCHANGED <<notices, telemetry, reports>>
     \/ part = "telemetry" /\ TelemetryNext /\ UNCHANGED <<notices, usage, reports>>
     \/ part = "reports" /\ ReportsNext /\ UNCHANGED <<notices, usage, telemetry>>

ObserversSpec == ObserversInit /\ [][ObserversNext]_<<notices, usage, telemetry, reports, part>>

\* The tables that change have their types.
ObserversTypeOK == NoticesTypeOK /\ UsageTypeOK /\ TelemetryTypeOK

\* An event is stored once for a customer, and a registration is not lost to a token that
\* another customer registers: notification.consumers.ts, device.use-cases.ts.
NoticesAreKept == EventIsStoredOnce /\ RegistrationStays

\* An event is logged once, and the reports that read one table agree: analytics-service.
MetricsAreSound == FactIsLoggedOnce /\ (part = "reports" => ReportsAgree)

\* A stored reading belongs to the session it was taken in, and only a reading that is given
\* back is stored again: telemetry-ingestion-service.
ReadingsAreKept == ReadingHasItsSession /\ ReadingIsKeptOnce

MCSymmetry == Permutations(Hands) \cup Permutations(Signers)

\* Two handlers or requests at a time, one event about which customers are told, and
\* preferences that change while a notice for the customer is handled; two events that
\* are counted, and two readings, stored twice each.  Rides are followed while the
\* tables of days and hours are empty.
MCBusy == Cardinality({h \in Hands : hand[h] # FreeHand}) + Cardinality({w \in Signers : signer[w] # FreeSigner})
MCBound ==
  /\ MCBusy <= 2 /\ Cardinality({l \in Letters : posts[l] > 0}) <= 1
  /\ \A c \in Customers :
       prefs[c] # DefaultPrefs => \E h \in Hands : hand[h] # FreeHand /\ CustomerOf[hand[h].letter] = c
  /\ Cardinality({f \in Facts : factPosts[f] > 0}) <= 2
  /\ Cardinality(sent) <= 2 /\ \A r \in Readings : Len(stored[r]) <= 2 /\ told[r] <= 2
  /\ part = "reports" /\ (clock > 0 \/ \E r \in Rides : begun[r] # NoRow) => daily = NoDays /\ hourly = NoHours /\ today = Max(Dates)
=============================================================================
