---------------------------- MODULE PricingRules ----------------------------
(***************************************************************************)
(* The pricing rules of one station and connector type                     *)
(* (ev-infrastructure-service, pricing.use-case.ts).  An administrator's   *)
(* upsert saves the rule, then looks for the others and takes its hours    *)
(* from them one after the other, splitting a rule it cuts in two; a       *)
(* deactivation gives the hours to a neighbour.  Nothing spans the         *)
(* statements and nothing is locked.  Rides are quoted and billed by a     *)
(* lookup that asks the table for the hour and the time of the start.      *)
(*                                                                         *)
(* A rule is its hours and its validity, its identifier stands for the     *)
(* rates.  Day masks, and a validity the administrator ends in advance,    *)
(* are left out.                                                           *)
(***************************************************************************)
EXTENDS Integers, FiniteSets, Sequences

CONSTANTS
  HoursInDay,   \* 24
  Ranges,       \* pairs of hourStart and hourEnd an administrator may give
  MaxRules,     \* bound: rules ever saved
  MaxClock,     \* bound: the last instant
  MaxAsked,     \* bound: requests of administrators
  Admins        \* requests at work at once

VARIABLES
  rule,     \* pricing_rules
  clock,
  job,      \* what every request is doing
  asked,    \* requests so far
  behind,   \* history: requests another's save has overtaken since they read
  crossed,  \* history: such a request went on, one was cut off, or an ended rule was ended again
  ride,     \* a ride that was quoted and is to be billed
  rewritten \* history: what the quote rests on was rewritten since

pricing == <<rule, clock, job, asked, behind, crossed, ride, rewritten>>

Open == -1               \* NULL in hour_start or hour_end
Forever == MaxClock + 1  \* NULL in valid_to
Day == 0..HoursInDay - 1

ASSUME PricingAssumption ==
  /\ HoursInDay \in Nat \ {0} /\ MaxRules \in Nat /\ MaxClock \in Nat
  /\ Ranges \subseteq (Day \cup {Open}) \X (0..HoursInDay \cup {Open})

NoRide == [hour |-> 0, time |-> 0, rule |-> 0]
NoJob == [at |-> "idle", id |-> 0, row |-> <<>>, copy |-> <<>>, todo |-> {}]

PricingInit ==
  /\ rule = <<>>
  /\ clock = 0
  /\ job = [a \in Admins |-> NoJob]
  /\ asked = 0
  /\ behind = {} /\ crossed = FALSE
  /\ ride = NoRide /\ rewritten = FALSE

\* getHoursSet: half a range counts as the whole day.
HoursOf(row) ==
  IF Open \in {row.start, row.stop} THEN Day
  ELSE IF row.start <= row.stop THEN row.start..row.stop - 1
  ELSE (row.start..HoursInDay - 1) \cup (0..row.stop - 1)

After(h, n) == IF h + n < HoursInDay THEN h + n ELSE h + n - HoursInDay

\* The hour past midnight is hour 0, also where an interval stops.
Interval(hours, h) ==
  [start |-> h, stop |-> After(h, CHOOSE n \in 1..HoursInDay : /\ After(h, n) \notin hours
                                                               /\ \A m \in 1..n - 1 : After(h, m) \in hours)]

\* getContiguousIntervals: from each hour whose predecessor is missing.
Starts(hours) == {h \in hours : After(h, HoursInDay - 1) \notin hours}

Intervals(hours) == {Interval(hours, h) : h \in Starts(hours)}

\* The interval that comes first after the first hour that is missing.
FirstOf(hours) ==
  LET missing == CHOOSE h \in Day \ hours : \A g \in Day \ hours : h <= g
      place(h) == After(h, HoursInDay - missing)
  IN Interval(hours, CHOOSE h \in Starts(hours) : \A g \in Starts(hours) : place(h) <= place(g))

\* Mutant of Active: rules that wait for their validity are passed over.
ActiveNow(r) == rule[r].from <= clock /\ rule[r].till > clock

Active(r) == rule[r].till > clock

\* Everything the step of request a makes stale, or that it does with a stale copy.
Overtakes(a, saves) ==
  /\ behind' = IF saves THEN (behind \ {a}) \cup {b \in Admins \ {a} : job[b].at # "idle"} ELSE behind
  /\ crossed' = (crossed \/ a \in behind)

Rewrites(cond) == rewritten' = (rewritten \/ (ride # NoRide /\ cond))

\* The rule is saved as given, an ended one is valid again.
Upsert(a, id, range, from) ==
  LET row == [start |-> range[1], stop |-> range[2], from |-> from, till |-> Forever] IN
  /\ job[a] = NoJob
  /\ asked < MaxAsked /\ asked' = asked + 1
  /\ id \in DOMAIN rule \cup {Len(rule) + 1}
  /\ id <= MaxRules
  /\ rule' = IF id \in DOMAIN rule THEN [rule EXCEPT ![id] = row] ELSE Append(rule, row)
  /\ job' = [job EXCEPT ![a] = IF HoursOf(row) = {} THEN NoJob ELSE [NoJob EXCEPT !.at = "find", !.id = id, !.row = row]]
  /\ Overtakes(a, TRUE)
  /\ Rewrites(from <= ride.time \/ id = ride.rule)
  /\ UNCHANGED <<clock, ride>>

FindOverlaps(a) ==
  LET overlaps == {r \in DOMAIN rule \ {job[a].id} : Active(r) /\ HoursOf(rule[r]) \cap HoursOf(job[a].row) # {}} IN
  /\ job[a].at = "find"
  /\ job' = [job EXCEPT ![a] = IF overlaps = {} THEN NoJob ELSE [@ EXCEPT !.at = "trim", !.copy = rule, !.todo = overlaps]]
  /\ behind' = behind \ {a}
  /\ UNCHANGED <<rule, clock, asked, crossed, ride, rewritten>>

\* What is left of a rule: nothing, so that it ends, or intervals, of which it
\* keeps the first and new rules get the others.
TrimRule(a, r) ==
  LET copy == job[a].copy[r]
      left == HoursOf(copy) \ HoursOf(job[a].row)
      others == Intervals(left) \ {FirstOf(left)}
      part(i, from) == [start |-> i.start, stop |-> i.stop, from |-> from, till |-> copy.till]
  IN
  /\ job[a].at = "trim" /\ r \in job[a].todo
  /\ IF left = {}
     THEN rule' = [rule EXCEPT ![r] = [copy EXCEPT !.till = clock]]
     ELSE /\ Len(rule) + Cardinality(others) <= MaxRules
          /\ \E more \in [1..Cardinality(others) -> others] :
               /\ \A i, j \in DOMAIN more : more[i] = more[j] => i = j
               /\ rule' = [rule EXCEPT ![r] = part(FirstOf(left), copy.from)]
                            \o [i \in DOMAIN more |-> part(more[i], job[a].row.from)]
  /\ job' = [job EXCEPT ![a] = IF job[a].todo = {r} THEN NoJob ELSE [job[a] EXCEPT !.todo = job[a].todo \ {r}]]
  /\ Overtakes(a, TRUE)
  /\ Rewrites(left # {} \/ clock < ride.time \/ rule[r] # copy)
  /\ UNCHANGED <<clock, asked, ride>>

\* The neighbour before the rule, or else the one after it, and its new hours.
Heirs(siblings, row) ==
  LET preceding == {r \in siblings : rule[r].stop = row.start}
      following == {r \in siblings : rule[r].start = row.stop}
  IN IF preceding # {}
     THEN {[row |-> [rule[r] EXCEPT !.stop = row.stop], id |-> r] : r \in preceding}
     ELSE {[row |-> [rule[r] EXCEPT !.start = row.start], id |-> r] : r \in following}

\* Nobody asks whether the rule has ended before.
LoadDeactivate(a, id) ==
  LET heirs == Heirs({r \in DOMAIN rule \ {id} : rule[r].from <= clock /\ rule[r].till > clock}, rule[id]) IN
  /\ job[a] = NoJob
  /\ asked < MaxAsked /\ asked' = asked + 1
  /\ \/ \E heir \in heirs : job' = [job EXCEPT ![a] = [NoJob EXCEPT !.at = "expand", !.id = id, !.row = heir.row, !.todo = {heir.id}]]
     \/ heirs = {} /\ job' = [job EXCEPT ![a] = [NoJob EXCEPT !.at = "end", !.id = id]]
  /\ crossed' = (crossed \/ ~Active(id))
  /\ UNCHANGED <<rule, clock, behind, ride, rewritten>>

ExpandHeir(a) ==
  /\ job[a].at = "expand"
  /\ rule' = [r \in DOMAIN rule |-> IF r \in job[a].todo THEN job[a].row ELSE rule[r]]
  /\ job' = [job EXCEPT ![a] = [NoJob EXCEPT !.at = "end", !.id = job[a].id]]
  /\ Overtakes(a, TRUE)
  /\ Rewrites(TRUE)
  /\ UNCHANGED <<clock, asked, ride>>

EndRule(a) ==
  /\ job[a].at = "end"
  /\ rule' = [rule EXCEPT ![job[a].id].till = clock]
  /\ job' = [job EXCEPT ![a] = NoJob]
  /\ Overtakes(a, TRUE)
  /\ Rewrites(clock < ride.time \/ ~Active(job[a].id))
  /\ UNCHANGED <<clock, asked, ride>>

\* A statement fails or the process dies: what was saved stays.
CutOff(a) ==
  /\ job[a] # NoJob
  /\ job' = [job EXCEPT ![a] = NoJob]
  /\ crossed' = TRUE
  /\ behind' = behind \ {a}
  /\ UNCHANGED <<rule, clock, asked, ride, rewritten>>

ClockTick ==
  /\ clock < MaxClock
  /\ clock' = clock + 1
  /\ UNCHANGED <<rule, job, asked, behind, crossed, ride, rewritten>>

Matches(r, hour, time) ==
  /\ rule[r].from <= time /\ rule[r].till >= time
  /\ rule[r].start = Open \/ rule[r].start <= hour
  /\ rule[r].stop = Open \/ rule[r].stop > hour

\* Mutant of Best: the rule must still be valid when it is asked for.
BestStillValid(hour, time) ==
  {r \in DOMAIN rule : Matches(r, hour, time) /\ rule[r].till > clock}

\* The latest of the rules that match; without any the default rates hold (0).
Best(hour, time) ==
  LET found == {r \in DOMAIN rule : Matches(r, hour, time)}
      latest == {r \in found : \A q \in found : rule[q].from <= rule[r].from}
  IN IF found = {} THEN {0} ELSE latest

Quote(hour, time) ==
  /\ ride = NoRide
  /\ time >= clock
  /\ \E r \in Best(hour, time) : ride' = [hour |-> hour, time |-> time, rule |-> r]
  /\ rewritten' = FALSE
  /\ UNCHANGED <<rule, clock, job, asked, behind, crossed>>

\* The fee of the ride, by the rule that a lookup with the same start finds.
Bill ==
  /\ ride # NoRide
  /\ clock >= ride.time
  /\ \E r \in Best(ride.hour, ride.time) : ride' = [ride EXCEPT !.rule = r]
  /\ UNCHANGED <<rule, clock, job, asked, behind, crossed, rewritten>>

PricingNext ==
  \/ \E a \in Admins :
       \/ \E id \in 1..MaxRules, range \in Ranges, from \in 0..MaxClock : Upsert(a, id, range, from)
       \/ FindOverlaps(a) \/ ExpandHeir(a) \/ EndRule(a) \/ CutOff(a)
       \/ \E r \in DOMAIN rule : TrimRule(a, r) \/ LoadDeactivate(a, r)
  \/ ClockTick
  \/ \E hour \in Day, time \in 0..MaxClock : Quote(hour, time)
  \/ Bill

-----------------------------------------------------------------------------
(* Properties.                                                             *)

RuleRows == [start : Day \cup {Open}, stop : 0..HoursInDay \cup {Open}, from : 0..MaxClock, till : 0..Forever]

\* The table has its type.
PricingTypeOK ==
  /\ Len(rule) <= MaxRules /\ \A r \in DOMAIN rule : rule[r] \in RuleRows
  /\ \A a \in Admins : job[a].at \in {"idle", "find", "trim", "expand", "end"} /\ job[a].todo \subseteq DOMAIN rule
  /\ behind \subseteq Admins
  /\ ride.rule \in 0..MaxRules

\* An hour has one price: when nobody is at work on the table, and nobody has worked
\* on what another had changed, no hour is in two rules that are still active.
HourHasOneRule ==
  (~crossed /\ \A a \in Admins : job[a] = NoJob)
    => \A q, r \in DOMAIN rule : q # r /\ Active(q) /\ Active(r) => HoursOf(rule[q]) \cap HoursOf(rule[r]) = {}

\* A ride is billed by the rule it was quoted by, whatever was added or ended after
\* its start, unless a rule was given the past or other hours.
BilledAsQuoted == [][Bill /\ ~rewritten /\ Cardinality(Best(ride.hour, ride.time)) = 1 => ride' = ride]_pricing
=============================================================================
