---------------------------- MODULE StaffRoster ----------------------------
(***************************************************************************)
(* The staff profile of one user and its attendance on one day, as         *)
(* StaffController keeps them: every request looks for the row and then    *)
(* saves, and save() inserts what it does not find.  The user of a profile *)
(* is unique in the database, the day of an attendance is not.  Removing   *)
(* the profile removes its attendance.                                     *)
(***************************************************************************)
EXTENDS Integers, FiniteSets

CONSTANTS
  Profiles,      \* identifiers staff_profiles may get
  Attendances,   \* identifiers attendance may get
  SWorkers,      \* requests at work at once
  NoId

ASSUME RosterAssumption == NoId \notin Profiles

VARIABLES
  profile,     \* the user's rows of staff_profiles
  attendance,  \* attendance, for the rows of the day
  visit,       \* what every request has found and will save
  fooled       \* history: requests whose look another's save has made untrue

roster == <<profile, attendance, visit, fooled>>

Absent == [staff |-> NoId, checkIn |-> FALSE, checkOut |-> FALSE]
Away == [at |-> "idle", staff |-> NoId, row |-> NoId, copy |-> Absent]

RosterInit ==
  /\ profile = {}
  /\ attendance = [a \in Attendances |-> Absent]
  /\ visit = [w \in SWorkers |-> Away]
  /\ fooled = {}

OfStaff(p) == {a \in Attendances : attendance[a].staff = p /\ p # NoId}

Look(w, record) ==
  /\ visit[w] = Away
  /\ visit' = [visit EXCEPT ![w] = record]
  /\ UNCHANGED <<profile, attendance, fooled>>

Leave(w) == visit' = [visit EXCEPT ![w] = Away]

Others(w) == {v \in SWorkers \ {w} : visit[v] # Away}

\* createStaff
LookCreate(w, p) ==
  /\ profile = {}
  /\ Look(w, [Away EXCEPT !.at = "staff", !.staff = p])

\* updateStaff and deleteStaff
LookStaff(w, p, label) ==
  /\ p \in profile
  /\ Look(w, [Away EXCEPT !.at = label, !.staff = p])

\* A profile that was removed meanwhile is inserted again; the user stays unique.
MaySave(p) == profile \subseteq {p}

SaveStaff(w) ==
  LET p == visit[w].staff IN
  /\ visit[w].at = "staff"
  /\ MaySave(p)
  /\ profile' = profile \cup {p}
  /\ fooled' = IF p \in profile THEN fooled \ {w} ELSE (fooled \ {w}) \cup Others(w)
  /\ Leave(w)
  /\ UNCHANGED attendance

\* ON DELETE CASCADE
RemoveStaff(w) ==
  LET p == visit[w].staff IN
  /\ visit[w].at = "remove"
  /\ profile' = profile \ {p}
  /\ attendance' = [a \in Attendances |-> IF attendance[a].staff = p THEN Absent ELSE attendance[a]]
  /\ fooled' = (fooled \ {w}) \cup Others(w)
  /\ Leave(w)

\* Mutant of Found: the attendance of the day is not looked for.
FoundNone(p) == {}

Found(p) == OfStaff(p)

\* checkIn and checkOut: of several rows of the day, any may be found.
LookDay(w, p, field) ==
  /\ p \in profile
  /\ IF Found(p) = {}
     THEN \E a \in Attendances :
            attendance[a] = Absent /\ Look(w, [at |-> field, staff |-> p, row |-> a, copy |-> [Absent EXCEPT !.staff = p]])
     ELSE \E a \in Found(p) : Look(w, [at |-> field, staff |-> p, row |-> a, copy |-> attendance[a]])

Marked(copy, field) ==
  IF field = "in" THEN [copy EXCEPT !.checkIn = TRUE] ELSE [copy EXCEPT !.checkOut = TRUE]

\* save() writes all of the copy, over what the row is by now or as a new row;
\* without its profile the row is refused.
SaveDay(w) ==
  LET a == visit[w].row IN
  /\ visit[w].at \in {"in", "out"}
  /\ visit[w].staff \in profile
  /\ attendance[a] # Absent => attendance[a].staff = visit[w].staff
  /\ attendance' = [attendance EXCEPT ![a] = Marked(visit[w].copy, visit[w].at)]
  /\ fooled' = (fooled \ {w}) \cup (IF attendance[a] = Absent THEN Others(w) ELSE {})
  /\ Leave(w)
  /\ UNCHANGED profile

\* The database refuses the row, or the process dies.
Fail(w) ==
  /\ visit[w] # Away
  /\ Leave(w)
  /\ fooled' = fooled \ {w}
  /\ UNCHANGED <<profile, attendance>>

RosterNext ==
  \E w \in SWorkers :
    \/ \E p \in Profiles :
         \/ LookCreate(w, p) \/ LookStaff(w, p, "staff") \/ LookStaff(w, p, "remove")
         \/ LookDay(w, p, "in") \/ LookDay(w, p, "out")
    \/ SaveStaff(w) \/ RemoveStaff(w) \/ SaveDay(w) \/ Fail(w)

-----------------------------------------------------------------------------
(* Properties.                                                             *)

\* A user has one profile at most, and nobody attends without one.
RosterTypeOK ==
  /\ profile \subseteq Profiles /\ Cardinality(profile) <= 1
  /\ attendance \in [Attendances -> [staff : Profiles \cup {NoId}, checkIn : BOOLEAN, checkOut : BOOLEAN]]
  /\ \A a \in Attendances : attendance[a].staff \in profile \cup {NoId}
  /\ visit \in [SWorkers -> [at : {"idle", "staff", "remove", "in", "out"}, staff : Profiles \cup {NoId},
                             row : Attendances \cup {NoId}, copy : [staff : Profiles \cup {NoId}, checkIn : BOOLEAN, checkOut : BOOLEAN]]]
  /\ fooled \subseteq SWorkers

\* One row of attendance for the day; a second one only from a request that had
\* looked before the first was saved.
SecondDayOnlyIfFooled ==
  [][\A p \in Profiles : Cardinality(OfStaff(p)') > 1 /\ Cardinality(OfStaff(p)) <= 1
       => \E w \in fooled : visit'[w] = Away]_roster
=============================================================================
