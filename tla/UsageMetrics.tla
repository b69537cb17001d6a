---------------------------- MODULE UsageMetrics ----------------------------
(***************************************************************************)
(* analytics-service: a consumer looks an event up, marks it, logs it and  *)
(* lets the AggregationEngine add it to the tables the dashboards read.    *)
(* The tables of a session or of a payment are written in one transaction, *)
(* each by INSERT ... ON CONFLICT.  Sums, averages and buckets are left    *)
(* out: a table is the set of the events that were added to it.            *)
(***************************************************************************)
EXTENDS Integers, FiniteSets

CONSTANTS
  Facts,    \* events
  NoFact,
  SortOf,   \* of every event: started, completed, payment, booking, fault or arrears
  Keepers,  \* deliveries handled at once
  MaxFacts  \* bound: times an event is published

ASSUME UsageAssumption ==
  /\ NoFact \notin Facts
  /\ IsFiniteSet(Facts) /\ IsFiniteSet(Keepers) /\ MaxFacts \in Nat

VARIABLES
  factMail,   \* copies not acknowledged yet
  factPosts,  \* times it was published
  factKeys,   \* processed_events
  keeper,     \* handlers
  logged,     \* event_log: rows of an event
  metric,     \* the events added to every table
  snapshot,   \* platform_kpi_snapshots: the sessions and the payments of the latest one
  factMet,    \* history: events of which two copies were looked up before one was marked
  factCut     \* history: events whose handler died between the mark and the tables

usage == <<factMail, factPosts, factKeys, keeper, logged, metric, snapshot, factMet, factCut>>

Tables == {"daily_station_metrics", "hourly_usage_stats", "daily_user_metrics", "user_behavior_stats",
           "revenue_stats", "booking_stats"}

FreeKeeper == [at |-> "idle", fact |-> NoFact]

UsageInit ==
  /\ factMail = [f \in Facts |-> 0] /\ factPosts = [f \in Facts |-> 0]
  /\ factKeys = {}
  /\ keeper = [k \in Keepers |-> FreeKeeper]
  /\ logged = [f \in Facts |-> 0]
  /\ metric = [t \in Tables |-> {}]
  /\ snapshot = [sessions |-> 0, payments |-> 0]
  /\ factMet = {} /\ factCut = {}

\* The tables an event is added to.
Targets(f) ==
  CASE SortOf[f] = "completed" -> Tables \ {"revenue_stats", "booking_stats"}
    [] SortOf[f] = "payment" -> {"revenue_stats", "daily_user_metrics"}
    [] SortOf[f] = "booking" -> {"booking_stats"}
    [] OTHER -> {}

\* Whether the columns ON CONFLICT names are a unique key, without which the statement fails.
HasUniqueKey(t) == t = "user_behavior_stats"

\* Mutant of KeyOfFact: the time of the delivery is a part of every key.
DatedKey(f, n) == <<f, n>>

\* A fault has no eventId, and its key has the time of the delivery.
KeyOfFact(f, n) == IF SortOf[f] = "fault" THEN <<f, n>> ELSE <<f, 0>>

PostFact(f) ==
  /\ factPosts[f] < MaxFacts
  /\ factPosts' = [factPosts EXCEPT ![f] = @ + 1] /\ factMail' = [factMail EXCEPT ![f] = @ + 1]
  /\ UNCHANGED <<factKeys, keeper, logged, metric, snapshot, factMet, factCut>>

FactIsDelivered(f) == factMail[f] > Cardinality({k \in Keepers : keeper[k].fact = f})

SkipFact(f) ==
  /\ FactIsDelivered(f) /\ KeyOfFact(f, logged[f]) \in factKeys
  /\ factMail' = [factMail EXCEPT ![f] = @ - 1]
  /\ UNCHANGED <<factPosts, factKeys, keeper, logged, metric, snapshot, factMet, factCut>>

TakeFact(k, f) ==
  /\ keeper[k] = FreeKeeper /\ FactIsDelivered(f)
  /\ KeyOfFact(f, logged[f]) \notin factKeys
  /\ keeper' = [keeper EXCEPT ![k] = [at |-> "checked", fact |-> f]]
  /\ factMet' = IF \E j \in Keepers : keeper[j] = [at |-> "checked", fact |-> f] THEN factMet \cup {f} ELSE factMet
  /\ UNCHANGED <<factMail, factPosts, factKeys, logged, metric, snapshot, factCut>>

MarkFact(k) ==
  LET f == keeper[k].fact IN
  /\ keeper[k].at = "checked"
  /\ factKeys' = factKeys \cup {KeyOfFact(f, logged[f])}
  /\ keeper' = [keeper EXCEPT ![k].at = "marked"]
  /\ UNCHANGED <<factMail, factPosts, logged, metric, snapshot, factMet, factCut>>

LogFact(k) ==
  LET f == keeper[k].fact IN
  /\ keeper[k].at = "marked"
  /\ logged' = [logged EXCEPT ![f] = @ + 1]
  /\ IF Targets(f) = {}
     THEN keeper' = [keeper EXCEPT ![k] = FreeKeeper] /\ factMail' = [factMail EXCEPT ![f] = @ - 1]
     ELSE keeper' = [keeper EXCEPT ![k].at = "logged"] /\ UNCHANGED factMail
  /\ UNCHANGED <<factPosts, factKeys, metric, snapshot, factMet, factCut>>

\* All the tables, or none: one statement that fails takes the others with it, and the
\* copy is delivered again.
Aggregate(k) ==
  LET f == keeper[k].fact IN
  /\ keeper[k].at = "logged"
  /\ keeper' = [keeper EXCEPT ![k] = FreeKeeper]
  /\ IF \A t \in Targets(f) : HasUniqueKey(t)
     THEN /\ metric' = [t \in Tables |-> IF t \in Targets(f) THEN metric[t] \cup {f} ELSE metric[t]]
          /\ factMail' = [factMail EXCEPT ![f] = @ - 1]
     ELSE UNCHANGED <<metric, factMail>>
  /\ UNCHANGED <<factPosts, factKeys, logged, snapshot, factMet, factCut>>

KeeperDies(k) ==
  /\ keeper[k] # FreeKeeper
  /\ factCut' = IF keeper[k].at \in {"marked", "logged"} THEN factCut \cup {keeper[k].fact} ELSE factCut
  /\ keeper' = [keeper EXCEPT ![k] = FreeKeeper]
  /\ UNCHANGED <<factMail, factPosts, factKeys, logged, metric, snapshot, factMet>>

\* How many of a sort the log has; the model is an hour long.
Count(sort) == Cardinality({f \in Facts : SortOf[f] = sort /\ logged[f] > 0})

\* KpiCaptureJob reads the log alone, not the tables.
CaptureKpi ==
  /\ snapshot' = [sessions |-> Count("started"), payments |-> Count("payment")]
  /\ UNCHANGED <<factMail, factPosts, factKeys, keeper, logged, metric, factMet, factCut>>

UsageNext ==
  \/ \E f \in Facts : PostFact(f) \/ SkipFact(f) \/ \E k \in Keepers : TakeFact(k, f)
  \/ \E k \in Keepers : MarkFact(k) \/ LogFact(k) \/ Aggregate(k) \/ KeeperDies(k)
  \/ CaptureKpi

-----------------------------------------------------------------------------
(* Properties.                                                             *)

\* Messages, handlers and tables have their types.
UsageTypeOK ==
  /\ factMail \in [Facts -> 0 .. MaxFacts] /\ factPosts \in [Facts -> 0 .. MaxFacts]
  /\ logged \in [Facts -> Nat]
  /\ metric \in [Tables -> SUBSET Facts]
  /\ snapshot \in [sessions : Nat, payments : Nat]
  /\ \A k \in Keepers : keeper[k].at \in {"idle", "checked", "marked", "logged"}
  /\ factMet \cup factCut \subseteq Facts

\* An event is logged once however often it is delivered, a failed transaction included,
\* unless two copies were looked up before one was marked; a fault is logged as often as
\* it comes.
FactIsLoggedOnce ==
  \A f \in Facts : SortOf[f] # "fault" => logged[f] <= IF f \in factMet THEN MaxFacts ELSE 1
=============================================================================
