------------------------------ MODULE Reports ------------------------------
(***************************************************************************)
(* What analytics-service answers from its tables: the usage and the       *)
(* revenue of the last days, the dashboard, peak hours with a forecast,    *)
(* and how many chargers are busy.  The tables are those of the seeds (no  *)
(* statement that would add to them succeeds, see UsageMetrics), and the   *)
(* reports change as time passes.                                          *)
(*                                                                         *)
(* A row of daily_station_metrics is one number, which stands for its      *)
(* sessions, energy and revenue alike; a row of hourly_usage_stats is its  *)
(* sessions.  Averages are compared as fractions.                          *)
(***************************************************************************)
EXTENDS Integers, FiniteSets, FiniteSetsExt

CONSTANTS
  Places,    \* stations
  NoPlace,   \* no station is asked for, or it is not the caller's
  Dates,     \* 1 .. n
  DayHours,  \* hours of a day: 0 .. n
  DayTables, \* contents daily_station_metrics may have
  HourTables, \* and hourly_usage_stats
  NoRow,
  Rides,     \* sessions of which event_log tells
  Window,    \* days a report looks back: 30, or 28 for hours
  TopRows,   \* stations in the list: 10, and 5 on the dashboard
  PeakRanks, \* hours that count as peaks: 3
  LastHour   \* bound: hours for which event_log is followed

ASSUME ReportsAssumption ==
  /\ IsFiniteSet(Places) /\ NoPlace \notin Places /\ NoRow \notin Int
  /\ IsFiniteSet(Dates) /\ Dates # {} /\ Dates = 1 .. Cardinality(Dates)
  /\ IsFiniteSet(DayHours) /\ DayHours # {} /\ DayHours = 0 .. Cardinality(DayHours) - 1
  /\ DayTables \subseteq [Places -> [Dates -> Nat \cup {NoRow}]]
  /\ HourTables \subseteq [Places -> [DayHours -> [Dates -> Nat \cup {NoRow}]]]
  /\ IsFiniteSet(Rides) /\ {Window, TopRows, PeakRanks, LastHour} \subseteq Nat

VARIABLES
  today,     \* CURRENT_DATE
  daily,     \* daily_station_metrics
  hourly,    \* hourly_usage_stats: rows of an hour of a day at a station
  begun,     \* event_log: the hour a session.started was received
  ended,     \* and its session.completed
  clock      \* the hour it is, for event_log

reports == <<today, daily, hourly, begun, ended, clock>>

NoDays == [s \in Places |-> [d \in Dates |-> NoRow]]
NoHours == [s \in Places |-> [h \in DayHours |-> [d \in Dates |-> NoRow]]]

\* Days or hours have rows, not both, which keeps the instances small.
ReportsInit ==
  /\ today = Max(Dates)
  /\ \/ daily \in DayTables /\ hourly = NoHours
     \/ daily = NoDays /\ hourly \in HourTables
  /\ begun = [r \in Rides |-> NoRow] /\ ended = [r \in Rides |-> NoRow]
  /\ clock = 0

NextDay ==
  /\ today <= Max(Dates) + Window
  /\ today' = today + 1
  /\ UNCHANGED <<daily, hourly, begun, ended, clock>>

\* analytics.consumers: a ride's events are logged at the hour they are received.
LogStarted(r) ==
  /\ begun[r] = NoRow
  /\ begun' = [begun EXCEPT ![r] = clock]
  /\ UNCHANGED <<today, daily, hourly, ended, clock>>

LogCompleted(r) ==
  /\ begun[r] # NoRow /\ ended[r] = NoRow
  /\ ended' = [ended EXCEPT ![r] = clock]
  /\ UNCHANGED <<today, daily, hourly, begun, clock>>

NextHour ==
  /\ clock < LastHour
  /\ clock' = clock + 1
  /\ UNCHANGED <<today, daily, hourly, begun, ended>>

ReportsNext == NextDay \/ NextHour \/ \E r \in Rides : LogStarted(r) \/ LogCompleted(r)

-----------------------------------------------------------------------------
(* Days.                                                                   *)

\* SUM of what w has for the members of S.
SumOf(w, S) == MapThenSumSet(LAMBDA x : w[x], S)

DaysOf(s) == {d \in Dates : daily[s][d] # NoRow}

Total(s, days) == SumOf(daily[s], days \cap DaysOf(s))

\* COALESCE(MAX(metric_date), CURRENT_DATE)
LatestDay ==
  LET all == UNION {DaysOf(s) : s \in Places} IN IF all = {} THEN today ELSE Max(all)

\* `>= anchor - n days': n + 1 dates, the anchor among them.
Since(anchor, n) == {d \in Dates : d >= anchor - n}

\* GetStationUsage of a station: as many rows as days are asked for, the newest first.
Newest(s, n) == {d \in DaysOf(s) : Cardinality({e \in DaysOf(s) : e > d}) < n}

StationUsage(s, n) == Total(s, Newest(s, n))

\* Without a station: its line in the list, which only the busiest TopRows get.
UsageLine(s, n) == Total(s, Since(LatestDay, n))

Listed(n) == {s \in Places : DaysOf(s) \cap Since(LatestDay, n) # {}}

IsTopList(list, n) ==
  /\ list \subseteq Listed(n)
  /\ Cardinality(list) = (IF Cardinality(Listed(n)) < TopRows THEN Cardinality(Listed(n)) ELSE TopRows)
  /\ \A s \in list, r \in Listed(n) \ list : UsageLine(s, n) >= UsageLine(r, n)

\* Mutant of DailyRevenue: the days are counted from today.
DailyRevenueToday(stations, n) == SumOf([s \in Places |-> Total(s, Since(today, n))], stations)

\* GetRevenue by the day, of one station or of all.
DailyRevenue(stations, n) == SumOf([s \in Places |-> UsageLine(s, n)], stations)

\* GetSystemMetrics, with the days of all stations.
SystemRevenue == SumOf([s \in Places |-> UsageLine(s, Window)], Places)

\* The dashboard counts from today instead.
DashboardRevenue == SumOf([s \in Places |-> Total(s, Since(today, Window))], Places)

-----------------------------------------------------------------------------
(* Who is answered.                                                        *)

IsAdmin(u) == "admin" \in u.roles

\* validateStaffStation: the station a request is answered for; a refused request is
\* answered for none.  The stations are those of the token.
StationFor(u, asked) ==
  IF IsAdmin(u) \/ "staff" \notin u.roles THEN [ok |-> TRUE, station |-> asked]
  ELSE IF u.stations = {} THEN [ok |-> FALSE, station |-> NoPlace]
  ELSE IF asked = NoPlace THEN [ok |-> TRUE, station |-> CHOOSE s \in u.stations : TRUE]
  ELSE [ok |-> asked \in u.stations, station |-> asked]

\* getUsage and getRevenue: the stations an answer may be about.
AnsweredOf(u, asked) ==
  LET valid == StationFor(u, asked) IN
  IF ~valid.ok THEN {} ELSE IF valid.station = NoPlace THEN Places ELSE {valid.station}

-----------------------------------------------------------------------------
(* Hours.                                                                  *)

HourRows(s, h) == {d \in Dates : hourly[s][h][d] # NoRow}

Bucket(d, h) == d * Cardinality(DayHours) + h

\* MAX(hour_bucket), of all stations
LatestBucket ==
  LET all == UNION {{Bucket(d, h) : d \in HourRows(s, h)} : s \in Places, h \in DayHours} IN
  IF all = {} THEN Bucket(today, 0) ELSE Max(all)

LatestDate == LatestBucket \div Cardinality(DayHours)

\* Of the oldest day only the hours that are not before the latest one.
Recent(s, h) == {d \in HourRows(s, h) : Bucket(d, h) >= LatestBucket - Window * Cardinality(DayHours)}

SumOfHour(s, h) == SumOf(hourly[s][h], Recent(s, h))

\* AVG(sessions_count) over the rows there are: an hour without sessions has none.
Average(stations, h) ==
  [sum   |-> SumOf([s \in Places |-> SumOfHour(s, h)], stations),
   count |-> SumOf([s \in Places |-> Cardinality(Recent(s, h))], stations)]

AtLeast(p, q) == p.sum * q.count >= q.sum * p.count

Ranked(stations) == {h \in DayHours : Average(stations, h).count > 0}

\* isPeak: the first PeakRanks of the order; ties are broken anyhow.
ArePeaks(peaks, stations) ==
  /\ peaks \subseteq Ranked(stations)
  /\ Cardinality(peaks) = (IF Cardinality(Ranked(stations)) < PeakRanks THEN Cardinality(Ranked(stations)) ELSE PeakRanks)
  /\ \A p \in peaks, h \in Ranked(stations) \ peaks : AtLeast(Average(stations, p), Average(stations, h))

\* detectForStation and detectPlatformWide
AreStationPeaks(peaks, s) == ArePeaks(peaks, {s})

ArePlatformPeaks(peaks) == ArePeaks(peaks, Places)

\* Days are counted from the first row of the hour, not of the window.
Ordinal(s, h, d) == d - Min(Recent(s, h))

Fit(s, h) ==
  LET days == Recent(s, h)
      n == Cardinality(days)
      x == [d \in days |-> Ordinal(s, h, d)]
      y == hourly[s][h]
      sx == SumOf(x, days)
      sxx == SumOf([d \in days |-> x[d] * x[d]], days)
      sxy == SumOf([d \in days |-> x[d] * y[d]], days) IN
  [n |-> n, sx |-> sx, sy |-> SumOfHour(s, h), slope |-> n * sxy - sx * SumOfHour(s, h), spread |-> n * sxx - sx * sx]

\* Mutant of NextOrdinal: the last day of the window.
NextOrdinalLate == Window

\* The day after the latest date, if the hour has a row Window days before that date.
NextOrdinal == Window + 1

\* forecastNextDay as a fraction: intercept + slope * next, not below zero.  The slope and
\* the intercept of a single row are NULL, hence zero.
Forecast(s, h) ==
  LET f == Fit(s, h) IN
  IF f.spread = 0 THEN [top |-> 0, bottom |-> 1]
  ELSE LET top == f.sy * f.spread + f.slope * (f.n * NextOrdinal - f.sx) IN
       [top |-> IF top > 0 THEN top ELSE 0, bottom |-> f.n * f.spread]

-----------------------------------------------------------------------------
(* getRealtimeUtilization, over the last hour of event_log.                *)

InWindow(at) == at # NoRow /\ at >= clock - 1

\* Mutant of ActiveChargers: completions are not subtracted.
ActiveChargersEver == Cardinality({r \in Rides : InWindow(begun[r])})

ActiveChargers ==
  LET more == Cardinality({r \in Rides : InWindow(begun[r])}) - Cardinality({r \in Rides : InWindow(ended[r])}) IN
  IF more > 0 THEN more ELSE 0

\* captureHourlyKpi counts the starts alone.
ActiveSessions == Cardinality({r \in Rides : InWindow(begun[r])})

Charging == {r \in Rides : begun[r] # NoRow /\ ended[r] = NoRow}

-----------------------------------------------------------------------------
(* Properties.                                                             *)

\* The dashboard, which counts the days from today, the system report and the revenue page,
\* which count them from the latest row, agree when there is a row for today, and the
\* dashboard never shows more: analytics.use-cases.ts:190, 370.
TotalsAgree ==
  /\ LatestDay = today => DashboardRevenue = SystemRevenue
  /\ today >= LatestDay => DashboardRevenue <= SystemRevenue
  /\ DailyRevenue(Places, Window) = SystemRevenue

\* The list of the busiest stations tells of no more than the system report does, of as much
\* when it has room for every station with rows, and no station on it has none:
\* analytics.use-cases.ts:75.
ListIsPartOfTotal ==
  \A list \in SUBSET Places : IsTopList(list, Window) =>
    /\ DailyRevenue(list, Window) <= SystemRevenue
    /\ Listed(Window) = list => DailyRevenue(list, Window) = SystemRevenue

Callers == [roles : SUBSET {"admin", "staff"}, stations : SUBSET Places]

\* What staff are told is of a station of theirs, and one of them always has an answer
\* who asks for no station in particular: analytics.controller.ts:48.
StaffSeeTheirStation ==
  \A u \in Callers : "staff" \in u.roles /\ ~IsAdmin(u) =>
    /\ \A asked \in Places \cup {NoPlace} : AnsweredOf(u, asked) \subseteq u.stations
    /\ u.stations # {} => AnsweredOf(u, NoPlace) # {}

Gapless(s) == \A d, e \in DaysOf(s) : \A m \in d .. e : m \in DaysOf(s)

\* A station's own report counts rows and its line in the list counts dates, of which
\* there is one more: the report shows no more than the line where no day is missing up to
\* the latest one, and with days missing it reaches back further.
ReportWithinLine ==
  \A s \in Places :
    Gapless(s) /\ LatestDay \in DaysOf(s) => StationUsage(s, Window) <= UsageLine(s, Window)

\* Where every hour has as many rows as any other, the peaks are the hours with the most
\* sessions; elsewhere an hour that is busy on its only day comes before one that is
\* busy on most.
PeaksAreBusiest ==
  \A s \in Places :
    (\A h, k \in DayHours : Cardinality(Recent(s, h)) = Cardinality(Recent(s, k)))
    => \A peaks \in SUBSET DayHours : AreStationPeaks(peaks, s) =>
         \A p \in peaks, h \in DayHours \ peaks : SumOfHour(s, p) >= SumOfHour(s, h)

\* When only one station has rows, its peaks are those of the platform.
OneStationIsThePlatform ==
  \A s \in Places :
    (\A r \in Places \ {s} : \A h \in DayHours : HourRows(r, h) = {}) =>
      \A peaks \in SUBSET DayHours : AreStationPeaks(peaks, s) <=> ArePlatformPeaks(peaks)

\* If the counts of an hour lie on a line and its first row is Window days older than the
\* latest date, the forecast is the value of the line on the day after that date.  An hour
\* whose first row is younger, as every hour before the latest one has it, gets the value of
\* a later day: peak-hour-detector.ts:124.
ForecastIsNextOnLine ==
  \A s \in Places, h \in DayHours :
    LET days == Recent(s, h)
        first == LatestDate - Window
        at(d) == hourly[s][h][d]
        last == Max(days)
        f == Forecast(s, h) IN
    /\ Cardinality(days) > 1 /\ first \in days
    /\ \A d \in days : (at(d) - at(first)) * (last - first) = (at(last) - at(first)) * (d - first)
    => LET value == at(first) * (last - first) + (at(last) - at(first)) * (LatestDate + 1 - first) IN
       f.top * (last - first) = f.bottom * (IF value > 0 THEN value ELSE 0)

\* The busy chargers of the last hour are never more than the sessions that go on, and as
\* many when no session crosses the start of the hour; the snapshot of the hour counts
\* sessions that are over, too: streaming-aggregator.service.ts:73, analytics.use-cases.ts:334.
NoMoreThanCharge ==
  /\ ActiveChargers <= ActiveSessions
  /\ ActiveChargers <= Cardinality(Charging)
  /\ (\A r \in Rides : begun[r] # NoRow => InWindow(begun[r])) => (ActiveChargers = Cardinality(Charging))

\* What the reports say of one table does not differ.  (The hours are looked at once: they
\* do not depend on the day it is.)
ReportsAgree ==
  /\ TotalsAgree /\ ListIsPartOfTotal /\ ReportWithinLine
  /\ NoMoreThanCharge /\ StaffSeeTheirStation
  /\ today = Max(Dates) => PeaksAreBusiest /\ OneStationIsThePlatform /\ ForecastIsNextOnLine
=============================================================================
