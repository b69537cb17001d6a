------------------------ MODULE ChargerSession_proofs ------------------------
(***************************************************************************)
(* Proofs about what runs at a charger.  Of ChargerSession, for any number *)
(* of sessions, bookings and workers and any times: types, then what the   *)
(* reads of a worker are worth until another one commits, then the safety  *)
(* properties the run checks.  Of the kiosk, for any number of sessions,   *)
(* answers and events: what is under way and whose bill is shown (Kiosk).  *)
(***************************************************************************)
EXTENDS ChargerSession, Kiosk, FiniteSetTheorems, WellFoundedInduction, TLAPS

-----------------------------------------------------------------------------
(* The inductive invariant.                                                *)

\* What a worker that no commit has overtaken read is still so.
FreshRead(w) ==
  /\ At(w, "start") => Active = {} /\ worker[w].booking \in readModel \cup {NoBooking}
  /\ At(w, "stop") => session[worker[w].session].status = "active"
  /\ At(w, "force") => session[worker[w].session].status = "active"
  /\ At(w, "interrupt") => session[worker[w].session].status \in {"active", "stopped"}
  /\ At(w, "bill") => session[worker[w].session].status = "stopped"
  /\ At(w, "reserve") => charger \in {"none", "available"}
  /\ At(w, "release") => charger = "reserved"

FreshReads == \A w \in Workers \ stale : FreshRead(w)

\* A session whose payment is handled does not charge any more, stale or not.
BilledHasEnded ==
  \A w \in Workers : At(w, "bill") => session[worker[w].session].status \in {"stopped"} \cup Terminal

\* When a second session starts, the first one loses the charger's row.
CrowdOverwritten == \A s, t \in Active : s # t => s \in raced \cup overwritten

\* A booking is in the read model after its end only if it came late.
DroppedIsLate == readModel \cap dropped \subseteq late

IInv ==
  /\ TypeOK
  /\ FreshReads
  /\ BilledHasEnded
  /\ TwoActiveOnlyIfRaced
  /\ CrowdOverwritten
  /\ OccupiedIsCharging
  /\ ActiveIsOccupiedUnlessOverwritten
  /\ BookingUsedOnce
  /\ DroppedIsLate

-----------------------------------------------------------------------------
(* Types.                                                                  *)

SessionRows ==
  [status : Statuses, booking : Bookings \cup {NoBooking},
   stopAt : {StartAt[b] : b \in Bookings} \cup {Never}]

WorkerStates ==
  [at : {"start"}, session : {NoSession}, booking : Bookings \cup {NoBooking}]
    \cup [at : {"stop", "interrupt", "force", "bill"}, session : Sessions, booking : {NoBooking}]
    \cup [at : {"reserve"}, session : {NoSession}, booking : {NoBooking}]
    \cup [at : {"release", "drop"}, session : {NoSession}, booking : Bookings]
    \cup {Idle}

\* A set of natural numbers that is not empty has a least element.
LEMMA LeastNatural ==
  ASSUME NEW S \in SUBSET Nat, S # {}
  PROVE  \E t \in S : \A u \in S : t <= u
<1> DEFINE Less == {p \in Nat \X Nat : p[1] < p[2]}
<1>1. IsWellFoundedOn(Less, Nat)
  BY NatLessThanWellFounded DEF OpToRel
<1>2. \A u, t \in Nat : u < t => <<u, t>> \in Less
  OBVIOUS
<1> HIDE DEF Less
<1>3. PICK t \in S : \A u \in S : ~(<<u, t>> \in Less)
  BY <1>1, WFMin
<1>4. ASSUME NEW u \in S PROVE t <= u
  <2>1. ~(u < t)
    BY <1>2, <1>3
  <2> QED BY <2>1
<1> QED BY <1>4

\* A session is stopped at the start of a booking, if at any time.
LEMMA ScheduledStopType ==
  ASSUME NEW b \in Bookings \cup {NoBooking}, readModel \subseteq Bookings
  PROVE  ScheduledStop(b) \in {StartAt[c] : c \in Bookings} \cup {Never}
<1> DEFINE next == {StartAt[c] : c \in {c \in readModel : StartAt[c] > now /\ StartAt[c] <= now + Lookahead}}
<1>1. next \subseteq {StartAt[c] : c \in Bookings} /\ next \in SUBSET Nat
  BY ConstantsAssumption
<1>2. ASSUME next # {} PROVE (CHOOSE t \in next : \A u \in next : t <= u) \in next
  <2> HIDE DEF next
  <2>1. \E t \in next : \A u \in next : t <= u
    BY <1>1, <1>2, LeastNatural
  <2> QED BY <2>1
<1> QED BY <1>1, <1>2 DEF ScheduledStop

\* The type of the tables and the histories.
TablesOK ==
  /\ session \in [Sessions -> SessionRows]
  /\ charger \in {"none", "available", "occupied", "reserved"}
  /\ booking \in [Bookings -> {"none", "confirmed", "completed", "cancelled", "no_show"}]
  /\ readModel \subseteq synced /\ synced \subseteq Bookings /\ dropped \subseteq Bookings /\ late \subseteq Bookings
  /\ now \in 0 .. MaxTime
  /\ raced \subseteq Sessions /\ overwritten \subseteq Sessions

WorkersOK ==
  /\ worker \in [Workers -> WorkerStates]
  /\ stale \subseteq {w \in Workers : worker[w] # Idle}

\* The types of the tables and those of the workers' memory.
LEMMA TypeParts == TypeOK <=> TablesOK /\ WorkersOK
  BY DEF TypeOK, TablesOK, WorkersOK, SessionRows, WorkerStates

\* The same of the next state.
LEMMA TypePartsNext == TablesOK' /\ WorkersOK' => TypeOK'
  BY DEF TypeOK, TablesOK, WorkersOK, SessionRows, WorkerStates

\* The initial state has the right types.
LEMMA InitTypeOK == Init => TypeOK
<1> SUFFICES ASSUME Init PROVE TablesOK /\ WorkersOK
  BY TypeParts
<1>1. TablesOK
  BY ConstantsAssumption DEF Init, TablesOK, NoRow, SessionRows, Statuses
<1>2. WorkersOK
  BY DEF Init, WorkersOK, WorkerStates
<1> QED BY <1>1, <1>2

\* What a worker that is not idle is about to commit.
LEMMA WorkerAt ==
  ASSUME WorkersOK, NEW w \in Workers
  PROVE  /\ At(w, "start") => worker[w].booking \in Bookings \cup {NoBooking}
         /\ At(w, "stop") \/ At(w, "interrupt") \/ At(w, "force") \/ At(w, "bill") => worker[w].session \in Sessions
         /\ At(w, "release") \/ At(w, "drop") => worker[w].booking \in Bookings
  BY DEF WorkersOK, WorkerStates, At, Idle

\* A load fills the worker's memory and overtakes nobody.
LEMMA LoadTypes ==
  ASSUME TypeOK, NEW w \in Workers, NEW label, NEW s, NEW b, Load(w, label, s, b),
         [at |-> label, session |-> s, booking |-> b] \in WorkerStates
  PROVE  TypeOK'
<1>1. TablesOK'
  BY TypeParts DEF Load, tables, TablesOK, SessionRows
<1>2. WorkersOK'
  <2>1. WorkersOK
    BY TypeParts
  <2>2. worker' \in [Workers -> WorkerStates]
    BY <2>1 DEF Load, WorkersOK
  <2>3. w \notin stale
    BY <2>1 DEF Load, WorkersOK
  <2> QED BY <2>1, <2>2, <2>3 DEF Load, WorkersOK
<1> QED BY <1>1, <1>2, TypePartsNext

\* A commit leaves the worker idle and the others stale.
LEMMA FinishTypes ==
  ASSUME WorkersOK, NEW w \in Workers, Finish(w)
  PROVE  WorkersOK'
<1>1. worker' \in [Workers -> WorkerStates]
  BY DEF Finish, WorkersOK, WorkerStates
<1> QED BY <1>1 DEF Finish, Overtake, WorkersOK

\* Every step keeps the types.
LEMMA NextTypeOK == TypeOK /\ [Next]_vars => TypeOK'
<1> SUFFICES ASSUME TypeOK, [Next]_vars PROVE TypeOK'
  OBVIOUS
<1>0. TablesOK /\ WorkersOK
  BY TypeParts
<1>1. ASSUME NEW w \in Workers, NEW b \in Bookings \cup {NoBooking}, LoadStart(w, b) PROVE TypeOK'
  <2>1. [at |-> "start", session |-> NoSession, booking |-> b] \in WorkerStates
    BY DEF WorkerStates
  <2> QED BY <1>1, <2>1, LoadTypes DEF LoadStart
<1>2. ASSUME NEW w \in Workers, NEW s \in Sessions, CommitStart(w, s) PROVE TypeOK'
  <2>1. worker[w].booking \in Bookings \cup {NoBooking}
    BY <1>0, <1>2, WorkerAt DEF CommitStart
  <2>2. ScheduledStop(worker[w].booking) \in {StartAt[c] : c \in Bookings} \cup {Never}
    BY <1>0, <2>1, ScheduledStopType DEF TablesOK
  <2>3. session' \in [Sessions -> SessionRows]
    BY <1>0, <1>2, <2>1, <2>2 DEF CommitStart, TablesOK, SessionRows, Statuses
  <2>4. TablesOK'
    BY <1>0, <1>2, <2>3 DEF CommitStart, TablesOK, Overwrite, Active
  <2>5. WorkersOK'
    BY <1>0, <1>2, FinishTypes DEF CommitStart
  <2> QED BY <2>4, <2>5, TypePartsNext
<1>3. ASSUME NEW w \in Workers, NEW s \in Sessions, NEW how \in {"stop", "interrupt"}, LoadStop(w, s, how)
      PROVE TypeOK'
  <2>1. [at |-> how, session |-> s, booking |-> NoBooking] \in WorkerStates
    BY DEF WorkerStates
  <2> QED BY <1>3, <2>1, LoadTypes DEF LoadStop
<1>4. ASSUME NEW w \in Workers, CommitStop(w) PROVE TypeOK'
  <2>1. session' \in [Sessions -> SessionRows]
    <3>1. worker[w].session \in Sessions
      BY <1>0, <1>4, WorkerAt DEF CommitStop
    <3> QED BY <1>0, <1>4, <3>1 DEF CommitStop, TablesOK, SessionRows, Statuses, Terminal
  <2>2. TablesOK'
    BY <1>0, <1>4, <2>1 DEF CommitStop, TablesOK, Release, Overwrite, Active
  <2>3. WorkersOK'
    BY <1>0, <1>4, FinishTypes DEF CommitStop
  <2> QED BY <2>2, <2>3, TypePartsNext
<1>5. ASSUME NEW w \in Workers, NEW s \in Sessions, LoadForceStop(w, s) PROVE TypeOK'
  <2>1. [at |-> "force", session |-> s, booking |-> NoBooking] \in WorkerStates
    BY DEF WorkerStates
  <2> QED BY <1>5, <2>1, LoadTypes DEF LoadForceStop
<1>6. ASSUME NEW w \in Workers, CommitForceStop(w) PROVE TypeOK'
  <2>1. session' \in [Sessions -> SessionRows]
    <3>1. worker[w].session \in Sessions
      BY <1>0, <1>6, WorkerAt DEF CommitForceStop
    <3> QED BY <1>0, <1>6, <3>1 DEF CommitForceStop, TablesOK, SessionRows, Statuses, Terminal
  <2>2. TablesOK'
    BY <1>0, <1>6, <2>1 DEF CommitForceStop, TablesOK, Overwrite, Active
  <2>3. WorkersOK'
    BY <1>0, <1>6, FinishTypes DEF CommitForceStop
  <2> QED BY <2>2, <2>3, TypePartsNext
<1>7. ASSUME NEW w \in Workers, NEW s \in Sessions, LoadPayment(w, s) PROVE TypeOK'
  <2>1. [at |-> "bill", session |-> s, booking |-> NoBooking] \in WorkerStates
    BY DEF WorkerStates
  <2> QED BY <1>7, <2>1, LoadTypes DEF LoadPayment
<1>8. ASSUME NEW w \in Workers, CommitPayment(w) PROVE TypeOK'
  <2>1. session' \in [Sessions -> SessionRows]
    <3>1. worker[w].session \in Sessions
      BY <1>0, <1>8, WorkerAt DEF CommitPayment
    <3> QED BY <1>0, <1>8, <3>1 DEF CommitPayment, TablesOK, SessionRows, Statuses, Terminal
  <2>2. TablesOK'
    BY <1>0, <1>8, <2>1 DEF CommitPayment, TablesOK
  <2>3. WorkersOK'
    BY <1>0, <1>8, FinishTypes DEF CommitPayment
  <2> QED BY <2>2, <2>3, TypePartsNext
<1>9. ASSUME NEW w \in Workers, LoadReservation(w) \/ \E b \in Bookings : LoadConfirmed(w, b) PROVE TypeOK'
  <2>1. [at |-> "reserve", session |-> NoSession, booking |-> NoBooking] \in WorkerStates
    BY DEF WorkerStates
  <2>2. Load(w, "reserve", NoSession, NoBooking)
    BY <1>9 DEF LoadReservation, LoadConfirmed
  <2> QED BY <2>1, <2>2, LoadTypes
<1>10. ASSUME NEW w \in Workers, CommitReserve(w) PROVE TypeOK'
  <2>1. TablesOK'
    BY <1>0, <1>10 DEF CommitReserve, TablesOK, Overwrite, Active
  <2>2. WorkersOK'
    BY <1>0, <1>10, FinishTypes DEF CommitReserve
  <2> QED BY <2>1, <2>2, TypePartsNext
<1>11. ASSUME NEW w \in Workers, NEW b \in Bookings, LoadDrop(w, b) PROVE TypeOK'
  <2>1. \A label \in {"release", "drop"} : [at |-> label, session |-> NoSession, booking |-> b] \in WorkerStates
    BY DEF WorkerStates
  <2>2. PICK label \in {"release", "drop"} : Load(w, label, NoSession, b)
    BY <1>11 DEF LoadDrop
  <2> QED BY <2>1, <2>2, LoadTypes
<1>12. ASSUME NEW w \in Workers, CommitRelease(w) PROVE TypeOK'
  <2>1. TablesOK'
    BY <1>0, <1>12 DEF CommitRelease, TablesOK, Release, Overwrite, Active
  <2>2. PICK b \in Bookings : worker[w] = [at |-> "release", session |-> NoSession, booking |-> b]
    BY <1>0, <1>12 DEF CommitRelease, At, WorkersOK, WorkerStates, Idle
  <2>3. worker' = [worker EXCEPT ![w] = [at |-> "drop", session |-> NoSession, booking |-> b]]
    <3>1. worker' = [worker EXCEPT ![w] = [worker[w] EXCEPT !.at = "drop"]]
      BY <1>12 DEF CommitRelease
    <3>2. [worker[w] EXCEPT !.at = "drop"] = [at |-> "drop", session |-> NoSession, booking |-> b]
      BY <2>2
    <3> QED BY <3>1, <3>2
  <2>4. worker' \in [Workers -> WorkerStates]
    BY <1>0, <2>3 DEF WorkersOK, WorkerStates
  <2>5. WorkersOK'
    BY <1>0, <1>12, <2>3, <2>4 DEF CommitRelease, WorkersOK, Overtake, Idle
  <2> QED BY <2>1, <2>5, TypePartsNext
<1>13. ASSUME NEW w \in Workers, CommitDrop(w) PROVE TypeOK'
  <2>1. worker[w].booking \in Bookings
    BY <1>0, <1>13, WorkerAt DEF CommitDrop
  <2>2. TablesOK'
    BY <1>0, <1>13, <2>1 DEF CommitDrop, TablesOK, Without
  <2>3. WorkersOK'
    BY <1>0, <1>13, FinishTypes DEF CommitDrop
  <2> QED BY <2>2, <2>3, TypePartsNext
<1>14. ASSUME NEW w \in Workers, Dies(w) PROVE TypeOK'
  <2>1. TablesOK'
    BY <1>0, <1>14 DEF Dies, tables, TablesOK
  <2>2. WorkersOK'
    BY <1>0, <1>14 DEF Dies, WorkersOK, WorkerStates
  <2> QED BY <2>1, <2>2, TypePartsNext
<1>15. ASSUME NEW b \in Bookings, BookingMoves(b) PROVE TypeOK'
  <2>1. TablesOK'
    BY <1>0, <1>15 DEF BookingMoves, Confirm, Cancel, AutoComplete, NoShow, Sync, SetBooking, TablesOK,
                       GiveAway, Release, Overwrite, Active
  <2>2. WorkersOK'
    BY <1>0, <1>15 DEF BookingMoves, Confirm, Cancel, AutoComplete, NoShow, GiveAway, Sync, WorkersOK
  <2> QED BY <2>1, <2>2, TypePartsNext
<1>16. CASE Tick
  <2>1. TablesOK'
    BY <1>0, <1>16, ConstantsAssumption DEF Tick, tables, TablesOK
  <2>2. WorkersOK'
    BY <1>0, <1>16 DEF Tick, WorkersOK
  <2> QED BY <2>1, <2>2, TypePartsNext
<1>17. CASE StatusChanged
  <2>1. TablesOK'
    BY <1>0, <1>17 DEF StatusChanged, GiveAway, Release, Overwrite, Active, TablesOK
  <2>2. WorkersOK'
    BY <1>0, <1>17 DEF StatusChanged, GiveAway, WorkersOK
  <2> QED BY <2>1, <2>2, TypePartsNext
<1>18. CASE UNCHANGED vars
  BY <1>18 DEF vars, TypeOK
<1> QED BY <1>1, <1>2, <1>3, <1>4, <1>5, <1>6, <1>7, <1>8, <1>9, <1>10, <1>11, <1>12, <1>13, <1>14, <1>15,
           <1>16, <1>17, <1>18 DEF Next, StartSession, EndSession, Reserve, Drop

-----------------------------------------------------------------------------
(* What a worker has read.                                                 *)

\* The commits of a worker.
Commits(w) ==
  \/ \E s \in Sessions : CommitStart(w, s)
  \/ CommitStop(w) \/ CommitForceStop(w) \/ CommitPayment(w) \/ CommitReserve(w) \/ CommitDrop(w)

\* A worker's load finds what FreshRead says.
Loads(w) ==
  \/ \E b \in Bookings \cup {NoBooking} : LoadStart(w, b)
  \/ \E s \in Sessions :
       LoadStop(w, s, "stop") \/ LoadStop(w, s, "interrupt") \/ LoadForceStop(w, s) \/ LoadPayment(w, s)
  \/ LoadReservation(w)
  \/ \E b \in Bookings : LoadConfirmed(w, b) \/ LoadDrop(w, b)

\* Steps that change none of what a worker reads, but for new rows of the read model.
Bystander == UNCHANGED <<session, charger, stale>> /\ readModel \subseteq readModel'

\* The kinds of steps, as the proofs tell them apart.
LEMMA StepKinds ==
  ASSUME [Next]_vars
  PROVE  \/ \E w \in Workers : Loads(w) \/ Commits(w) \/ CommitRelease(w) \/ Dies(w)
         \/ GiveAway
         \/ Bystander /\ worker' = worker
<1>1. ASSUME NEW b \in Bookings, BookingMoves(b) PROVE GiveAway \/ (Bystander /\ worker' = worker)
  BY <1>1 DEF BookingMoves, Confirm, Cancel, AutoComplete, NoShow, Sync, Bystander
<1>2. ASSUME Tick \/ UNCHANGED vars PROVE Bystander /\ worker' = worker
  BY <1>2 DEF Tick, tables, vars, Bystander
<1>3. ASSUME NEW w \in Workers, StartSession(w) \/ EndSession(w) \/ Reserve(w) \/ Drop(w)
      PROVE  Loads(w) \/ Commits(w) \/ CommitRelease(w)
  BY <1>3 DEF StartSession, EndSession, Reserve, Drop, Loads, Commits
<1> QED BY <1>1, <1>2, <1>3 DEF Next, StatusChanged

\* A worker that loads reads what is there.
LEMMA LoadIsFresh ==
  ASSUME TypeOK, NEW w \in Workers, Loads(w)
  PROVE  /\ FreshRead(w)'
         /\ \A v \in Workers \ {w} : worker'[v] = worker[v]
         /\ UNCHANGED <<tables, stale, raced, overwritten>>
         /\ At(w, "bill")' => session[worker'[w].session].status = "stopped"
<1>0. WorkersOK
  BY TypeParts
<1>1. ASSUME NEW label, NEW s, NEW b, Load(w, label, s, b)
      PROVE  /\ worker'[w] = [at |-> label, session |-> s, booking |-> b]
             /\ \A v \in Workers \ {w} : worker'[v] = worker[v]
             /\ UNCHANGED <<tables, stale, raced, overwritten>>
             /\ Active' = Active
  BY <1>0, <1>1 DEF Load, WorkersOK, tables, Active
<1>2. ASSUME NEW b \in Bookings \cup {NoBooking}, LoadStart(w, b) PROVE FreshRead(w)' /\ ~At(w, "bill")'
  <2>1. /\ worker'[w] = [at |-> "start", session |-> NoSession, booking |-> b]
        /\ Active' = {} /\ readModel' = readModel
        /\ b \in readModel \cup {NoBooking}
    BY <1>1, <1>2 DEF LoadStart, IsFree, InWindow, tables
  <2> QED BY <2>1 DEF FreshRead, At
<1>3. ASSUME NEW s \in Sessions, NEW how \in {"stop", "interrupt"}, LoadStop(w, s, how)
      PROVE  FreshRead(w)' /\ ~At(w, "bill")'
  <2>1. /\ worker'[w] = [at |-> how, session |-> s, booking |-> NoBooking] /\ session' = session
        /\ session[s].status = "active" \/ (how = "interrupt" /\ session[s].status = "stopped")
    BY <1>1, <1>3 DEF LoadStop, MayEnd, tables
  <2> QED BY <2>1 DEF FreshRead, At
<1>4. ASSUME NEW s \in Sessions, LoadForceStop(w, s) PROVE FreshRead(w)' /\ ~At(w, "bill")'
  <2>1. /\ worker'[w] = [at |-> "force", session |-> s, booking |-> NoBooking] /\ session' = session
        /\ session[s].status = "active"
    BY <1>1, <1>4 DEF LoadForceStop, tables
  <2> QED BY <2>1 DEF FreshRead, At
<1>5. ASSUME NEW s \in Sessions, LoadPayment(w, s)
      PROVE  FreshRead(w)' /\ session[worker'[w].session].status = "stopped"
  <2>1. /\ worker'[w] = [at |-> "bill", session |-> s, booking |-> NoBooking] /\ session' = session
        /\ session[s].status = "stopped"
    BY <1>1, <1>5 DEF LoadPayment, tables
  <2> QED BY <2>1 DEF FreshRead, At
<1>6. ASSUME LoadReservation(w) \/ \E b \in Bookings : LoadConfirmed(w, b) PROVE FreshRead(w)' /\ ~At(w, "bill")'
  <2>1. /\ worker'[w] = [at |-> "reserve", session |-> NoSession, booking |-> NoBooking] /\ charger' = charger
        /\ charger \in {"none", "available"}
    BY <1>1, <1>6 DEF LoadReservation, LoadConfirmed, MayReserve, tables
  <2> QED BY <2>1 DEF FreshRead, At
<1>7. ASSUME NEW b \in Bookings, LoadDrop(w, b) PROVE FreshRead(w)' /\ ~At(w, "bill")'
  <2>1. PICK label \in {"release", "drop"} :
          Load(w, label, NoSession, b) /\ (label = "release" => charger = "reserved")
    BY <1>7 DEF LoadDrop, MayReserve
  <2>2. worker'[w] = [at |-> label, session |-> NoSession, booking |-> b] /\ charger' = charger
    BY <1>1, <2>1 DEF tables
  <2> QED BY <2>1, <2>2 DEF FreshRead, At
<1>8. FreshRead(w)' /\ (At(w, "bill")' => session[worker'[w].session].status = "stopped")
  BY <1>2, <1>3, <1>4, <1>5, <1>6, <1>7 DEF Loads
<1>9. \E label, s, b : Load(w, label, s, b)
  BY DEF Loads, LoadStart, LoadStop, LoadForceStop, LoadPayment, LoadReservation, LoadConfirmed, LoadDrop
<1> QED BY <1>1, <1>8, <1>9

\* After a commit no worker that has read anything passes for fresh.
LEMMA CommitsOvertake ==
  ASSUME TypeOK, NEW w \in Workers, Commits(w)
  PROVE  /\ Finish(w)
         /\ worker'[w] = Idle
         /\ \A v \in Workers \ {w} : worker'[v] = worker[v]
         /\ \A v \in Workers \ stale' : worker'[v] = Idle
<1>0. WorkersOK
  BY TypeParts
<1>1. Finish(w)
  BY DEF Commits, CommitStart, CommitStop, CommitForceStop, CommitPayment, CommitReserve, CommitDrop
<1> QED BY <1>0, <1>1 DEF Finish, Overtake, WorkersOK

\* A worker that is idle has read nothing.
LEMMA IdleIsFresh ==
  ASSUME NEW w \in Workers, worker'[w] = Idle
  PROVE  FreshRead(w)' /\ ~At(w, "bill")'
  BY DEF Idle, FreshRead, At

\* What a fresh worker has read stays so until another worker commits.
LEMMA NextFreshReads == TypeOK /\ FreshReads /\ [Next]_vars => FreshReads'
<1> SUFFICES ASSUME TypeOK, FreshReads, [Next]_vars, NEW v \in Workers, v \notin stale' PROVE FreshRead(v)'
  BY DEF FreshReads
<1>0. WorkersOK
  BY TypeParts
<1>1. ASSUME NEW w \in Workers, Loads(w) PROVE FreshRead(v)'
  <2>1. CASE v = w
    BY <1>1, <2>1, LoadIsFresh
  <2>2. CASE v # w
    <3>1. /\ worker'[v] = worker[v] /\ v \notin stale
          /\ session' = session /\ charger' = charger /\ readModel' = readModel
      BY <1>1, <2>2, LoadIsFresh DEF tables
    <3>2. FreshRead(v)
      BY <3>1 DEF FreshReads
    <3> QED BY <3>1, <3>2 DEF FreshRead, At, Active
  <2> QED BY <2>1, <2>2
<1>2. ASSUME NEW w \in Workers, Commits(w) PROVE FreshRead(v)'
  BY <1>2, CommitsOvertake, IdleIsFresh
<1>3. ASSUME NEW w \in Workers, CommitRelease(w) PROVE FreshRead(v)'
  <2>1. CASE v = w
    <3>1. worker'[w].at = "drop"
      BY <1>0, <1>3 DEF CommitRelease, WorkersOK, WorkerStates, At, Idle
    <3> QED BY <2>1, <3>1 DEF FreshRead, At
  <2>2. CASE v # w /\ Overtake(w)
    BY <1>0, <1>3, <2>2, IdleIsFresh DEF CommitRelease, Overtake, WorkersOK
  <2>3. CASE v # w /\ UNCHANGED <<charger, overwritten, stale>>
    <3>1. /\ worker'[v] = worker[v] /\ v \notin stale
          /\ session' = session /\ charger' = charger /\ readModel' = readModel
      BY <1>0, <1>3, <2>3 DEF CommitRelease, WorkersOK
    <3>2. FreshRead(v)
      BY <3>1 DEF FreshReads
    <3> QED BY <3>1, <3>2 DEF FreshRead, At, Active
  <2> QED BY <1>3, <2>1, <2>2, <2>3 DEF CommitRelease
<1>4. ASSUME NEW w \in Workers, Dies(w) PROVE FreshRead(v)'
  <2>1. CASE v = w
    BY <1>0, <1>4, <2>1, IdleIsFresh DEF Dies, WorkersOK
  <2>2. CASE v # w
    <3>1. /\ worker'[v] = worker[v] /\ v \notin stale
          /\ session' = session /\ charger' = charger /\ readModel' = readModel
      BY <1>0, <1>4, <2>2 DEF Dies, WorkersOK, tables
    <3>2. FreshRead(v)
      BY <3>1 DEF FreshReads
    <3> QED BY <3>1, <3>2 DEF FreshRead, At, Active
  <2> QED BY <2>1, <2>2
<1>5. CASE GiveAway
  BY <1>5, IdleIsFresh DEF GiveAway
<1>6. CASE Bystander /\ worker' = worker
  <2>1. FreshRead(v)
    BY <1>6 DEF Bystander, FreshReads
  <2> QED BY <1>6, <2>1 DEF Bystander, FreshRead, At, Active
<1> QED BY <1>1, <1>2, <1>3, <1>4, <1>5, <1>6, StepKinds

-----------------------------------------------------------------------------
(* What happens to the charger.                                            *)

\* Who charges and whose charger it is stays the same.
Quiet == Active' = Active /\ UNCHANGED <<charger, raced, overwritten>>

\* A session starts: alone, or with the others written over.
Taken(s) ==
  /\ s \notin Active
  /\ Active' = Active \cup {s}
  /\ charger' = "occupied"
  /\ \/ Active = {} /\ UNCHANGED <<raced, overwritten>>
     \/ raced' = raced \cup {s} /\ overwritten' = overwritten \cup Active

\* The charger is given away: over all sessions that still charge, by the end of
\* the session that charged, or from nobody.
GivenAway ==
  /\ charger' # "occupied"
  /\ raced' = raced
  /\ \/ Active' \subseteq Active /\ overwritten' = overwritten \cup Active'
     \/ overwritten' = overwritten /\ \E s \in Active : Active' = Active \ {s}
     \/ overwritten' = overwritten /\ Active' = Active /\ charger # "occupied"

\* What the end of a session changes.
LEMMA EndedSession ==
  ASSUME TypeOK, NEW s \in Sessions, NEW x, x # "active", session' = [session EXCEPT ![s].status = x]
  PROVE  /\ Active' = Active \ {s}
         /\ \A t \in Sessions \ {s} : session'[t] = session[t]
         /\ session'[s].status = x
         /\ \A t \in Sessions : session'[t].booking = session[t].booking
<1>0. session \in [Sessions -> SessionRows]
  BY TypeParts DEF TablesOK
<1>1. \A t \in Sessions \ {s} : session'[t] = session[t]
  BY <1>0
<1>2. session'[s].status = x /\ session'[s].booking = session[s].booking
  BY <1>0 DEF SessionRows
<1> QED BY <1>1, <1>2 DEF Active

\* The steps of a worker that ends a session, as it was before and as it is then.
LEMMA EndingStep ==
  ASSUME TypeOK, NEW w \in Workers, CommitStop(w) \/ CommitForceStop(w) \/ CommitPayment(w)
  PROVE  /\ worker[w].session \in Sessions
         /\ \E x \in {"stopped"} \cup Terminal : session' = [session EXCEPT ![worker[w].session].status = x]
<1>1. worker[w].session \in Sessions
  BY TypeParts, WorkerAt DEF CommitStop, CommitForceStop, CommitPayment
<1> QED BY <1>1 DEF CommitStop, CommitForceStop, CommitPayment, Terminal

\* What any step does to the charger and to those who charge.
LEMMA ChargerMoves ==
  ASSUME IInv, [Next]_vars
  PROVE  Quiet \/ GivenAway \/ \E s \in Sessions : Taken(s)
<1>0. TypeOK /\ TablesOK /\ WorkersOK /\ FreshReads
  BY TypeParts DEF IInv
<1>1. ASSUME UNCHANGED <<session, charger, raced, overwritten>> PROVE Quiet
  BY <1>1 DEF Quiet, Active
<1>2. ASSUME NEW w \in Workers, NEW s \in Sessions, CommitStart(w, s) PROVE Taken(s)
  <2>1. s \notin Active
    BY <1>2 DEF CommitStart, NoRow, Active
  <2>2. /\ session'[s].status = "active"
        /\ \A t \in Sessions \ {s} : session'[t] = session[t]
    BY <1>0, <1>2 DEF CommitStart, TablesOK
  <2>3. Active' = Active \cup {s}
    BY <2>2 DEF Active
  <2>4. CASE w \in stale
    BY <1>2, <2>1, <2>3, <2>4 DEF CommitStart, Overwrite, Taken
  <2>5. CASE w \notin stale
    <3>1. Active = {}
      BY <1>0, <1>2, <2>5 DEF FreshReads, FreshRead, CommitStart
    <3>2. raced' = raced /\ overwritten' = overwritten \cup {}
      BY <1>2, <2>5 DEF CommitStart, Overwrite
    <3> QED BY <1>2, <2>1, <2>3, <3>1, <3>2 DEF CommitStart, Taken
  <2> QED BY <2>4, <2>5
<1>3. ASSUME NEW w \in Workers, CommitStop(w) \/ CommitForceStop(w) PROVE GivenAway
  <2> DEFINE s == worker[w].session
  <2>1. s \in Sessions /\ Active' = Active \ {s}
    <3>1. PICK x \in {"stopped"} \cup Terminal : session' = [session EXCEPT ![s].status = x]
      BY <1>0, <1>3, EndingStep
    <3>2. s \in Sessions /\ x # "active"
      BY <1>0, <1>3, EndingStep DEF Terminal
    <3> QED BY <1>0, <3>1, <3>2, EndedSession
  <2>2. charger' # "occupied" /\ raced' = raced
    BY <1>3 DEF CommitStop, CommitForceStop, Release
  <2>3. CASE overwritten' = overwritten \cup (Active \ {s})
    BY <2>1, <2>2, <2>3 DEF GivenAway
  <2>4. CASE overwritten' # overwritten \cup (Active \ {s})
    <3>1. overwritten' = overwritten /\ w \notin stale /\ (CommitForceStop(w) \/ session[s].status # "stopped")
      BY <1>3, <2>4 DEF CommitStop, CommitForceStop, Overwrite
    <3>2. FreshRead(w)
      BY <1>0, <3>1 DEF FreshReads
    <3>3. session[s].status = "active"
      BY <1>3, <3>1, <3>2 DEF FreshRead, CommitStop, CommitForceStop
    <3> QED BY <2>1, <2>2, <3>1, <3>3 DEF GivenAway, Active
  <2> QED BY <2>3, <2>4
<1>4. ASSUME NEW w \in Workers, CommitPayment(w) PROVE Quiet
  <2>1. PICK x \in {"stopped"} \cup Terminal : session' = [session EXCEPT ![worker[w].session].status = x]
    BY <1>0, <1>4, EndingStep
  <2>2. Active' = Active \ {worker[w].session}
    <3>1. worker[w].session \in Sessions /\ x # "active"
      BY <1>0, <1>4, EndingStep DEF Terminal
    <3> QED BY <1>0, <2>1, <3>1, EndedSession
  <2>3. worker[w].session \notin Active
    BY <1>4 DEF IInv, BilledHasEnded, CommitPayment, Terminal, Active
  <2> QED BY <1>4, <2>2, <2>3 DEF CommitPayment, Quiet
<1>5. ASSUME NEW w \in Workers, CommitReserve(w) \/ (CommitRelease(w) /\ Release /\ Overwrite(IF w \in stale THEN Active ELSE {}))
      PROVE  GivenAway
  <2>1. charger' # "occupied" /\ raced' = raced /\ Active' = Active
    BY <1>5 DEF CommitReserve, CommitRelease, Release, Active
  <2>2. CASE w \in stale
    BY <1>5, <2>1, <2>2 DEF CommitReserve, Overwrite, GivenAway
  <2>3. CASE w \notin stale
    <3>1. overwritten' = overwritten \cup {}
      BY <1>5, <2>3 DEF CommitReserve, Overwrite
    <3>2. charger # "occupied"
      BY <1>0, <1>5, <2>3 DEF FreshReads, FreshRead, CommitReserve, CommitRelease
    <3> QED BY <2>1, <3>1, <3>2 DEF GivenAway
  <2> QED BY <2>2, <2>3
<1>6. ASSUME GiveAway PROVE GivenAway
  <2>1. Active' = Active
    BY <1>6 DEF GiveAway, Active
  <2> QED BY <1>6, <2>1 DEF GiveAway, Release, Overwrite, GivenAway
<1>7. ASSUME NEW w \in Workers, Loads(w) \/ Dies(w) PROVE Quiet
  BY <1>0, <1>1, <1>7, LoadIsFresh DEF Dies, tables
<1>8. ASSUME NEW w \in Workers, CommitDrop(w) PROVE Quiet
  BY <1>1, <1>8 DEF CommitDrop
<1>9. ASSUME NEW w \in Workers, CommitRelease(w) PROVE Quiet \/ GivenAway
  BY <1>1, <1>5, <1>9 DEF CommitRelease
<1>10. ASSUME NEW b \in Bookings, BookingMoves(b) PROVE Quiet \/ GivenAway
  BY <1>1, <1>6, <1>10 DEF BookingMoves, Confirm, Cancel, AutoComplete, NoShow, Sync
<1>11. ASSUME Tick \/ UNCHANGED vars PROVE Quiet
  BY <1>1, <1>11 DEF Tick, tables, vars
<1> QED BY <1>2, <1>3, <1>4, <1>5, <1>6, <1>7, <1>8, <1>9, <1>10, <1>11
        DEF Next, StartSession, EndSession, Reserve, Drop, Loads, StatusChanged

\* Of two sessions that charge one was started late, and each is marked.
LEMMA NextCharging ==
  ASSUME IInv, [Next]_vars
  PROVE  /\ TwoActiveOnlyIfRaced' /\ CrowdOverwritten'
         /\ OccupiedIsCharging' /\ ActiveIsOccupiedUnlessOverwritten'
<1> USE DEF TwoActiveOnlyIfRaced, CrowdOverwritten, OccupiedIsCharging, ActiveIsOccupiedUnlessOverwritten
<1>0. /\ TwoActiveOnlyIfRaced /\ CrowdOverwritten
      /\ OccupiedIsCharging /\ ActiveIsOccupiedUnlessOverwritten
  BY DEF IInv
<1>1. CASE Quiet
  BY <1>0, <1>1 DEF Quiet
<1>2. ASSUME NEW s \in Sessions, Taken(s)
      PROVE  /\ TwoActiveOnlyIfRaced' /\ CrowdOverwritten'
             /\ OccupiedIsCharging' /\ ActiveIsOccupiedUnlessOverwritten'
  <2>1. OccupiedIsCharging'
    BY <1>2 DEF Taken
  <2>2. TwoActiveOnlyIfRaced' /\ CrowdOverwritten' /\ ActiveIsOccupiedUnlessOverwritten'
    BY <1>0, <1>2 DEF Taken
  <2> QED BY <2>1, <2>2
<1>3. CASE GivenAway
  <2>1. Active' \subseteq Active /\ raced' = raced /\ overwritten \subseteq overwritten'
    BY <1>3 DEF GivenAway
  <2>2. TwoActiveOnlyIfRaced' /\ CrowdOverwritten'
    BY <1>0, <2>1
  <2>3. OccupiedIsCharging'
    BY <1>3 DEF GivenAway
  <2>4. Active' \subseteq overwritten' \cup raced'
    <3>1. CASE overwritten' = overwritten \cup Active'
      BY <3>1
    <3>2. CASE \E s \in Active : Active' = Active \ {s}
      BY <1>0, <2>1, <3>2
    <3>3. CASE charger # "occupied"
      BY <1>0, <2>1, <3>3
    <3> QED BY <1>3, <3>1, <3>2, <3>3 DEF GivenAway
  <2>5. ActiveIsOccupiedUnlessOverwritten'
    BY <2>4
  <2> QED BY <2>2, <2>3, <2>5
<1> QED BY <1>1, <1>2, <1>3, ChargerMoves

-----------------------------------------------------------------------------
(* The rows of the sessions and the read model.                            *)

\* How a step changes the row of one session: it is inserted, or its status
\* becomes one of the later ones on behalf of the worker that commits.
LEMMA RowMoves ==
  ASSUME TypeOK, [Next]_vars
  PROVE  \/ session' = session
         \/ \E w \in Workers, s \in Sessions : CommitStart(w, s)
         \/ \E w \in Workers :
              /\ CommitStop(w) \/ CommitForceStop(w) \/ CommitPayment(w)
              /\ \A t \in Sessions \ {worker[w].session} : session'[t] = session[t]
              /\ session'[worker[w].session].status \in {"stopped"} \cup Terminal
              /\ \A t \in Sessions : session'[t].booking = session[t].booking
<1>1. ASSUME NEW w \in Workers, CommitStop(w) \/ CommitForceStop(w) \/ CommitPayment(w)
      PROVE  /\ \A t \in Sessions \ {worker[w].session} : session'[t] = session[t]
             /\ session'[worker[w].session].status \in {"stopped"} \cup Terminal
             /\ \A t \in Sessions : session'[t].booking = session[t].booking
  <2>1. PICK x \in {"stopped"} \cup Terminal : session' = [session EXCEPT ![worker[w].session].status = x]
    BY <1>1, EndingStep
  <2>2. worker[w].session \in Sessions /\ x # "active"
    BY <1>1, EndingStep DEF Terminal
  <2> QED BY <2>1, <2>2, EndedSession
<1>2. ASSUME NEW w \in Workers, Loads(w) \/ CommitReserve(w) \/ CommitDrop(w) \/ CommitRelease(w) \/ Dies(w)
      PROVE  session' = session
  BY <1>2, LoadIsFresh DEF CommitReserve, CommitDrop, CommitRelease, Dies, tables
<1>3. ASSUME GiveAway PROVE session' = session
  BY <1>3 DEF GiveAway
<1>4. ASSUME Bystander PROVE session' = session
  BY <1>4 DEF Bystander
<1> QED BY <1>1, <1>2, <1>3, <1>4, StepKinds DEF Commits

\* A session whose payment is handled does not charge again.
LEMMA NextBilledHasEnded ==
  ASSUME TypeOK, BilledHasEnded, [Next]_vars
  PROVE  BilledHasEnded'
<1> SUFFICES ASSUME NEW v \in Workers, At(v, "bill")'
             PROVE  session'[worker'[v].session].status \in {"stopped"} \cup Terminal
  BY DEF BilledHasEnded, Terminal
<1>0. WorkersOK
  BY TypeParts
<1>1. ASSUME worker'[v] = worker[v]
      PROVE  session'[worker'[v].session].status \in {"stopped"} \cup Terminal
  <2> DEFINE s == worker[v].session
  <2>1. s \in Sessions /\ session[s].status \in {"stopped"} \cup Terminal
    BY <1>0, <1>1, WorkerAt DEF BilledHasEnded, At
  <2>2. ASSUME NEW w \in Workers, NEW t \in Sessions, CommitStart(w, t) PROVE session'[s] = session[s]
    <3>1. s # t
      BY <2>1, <2>2 DEF CommitStart, NoRow, Terminal
    <3> QED BY <2>1, <2>2, <3>1, TypeParts DEF CommitStart, TablesOK
  <2> QED BY <1>1, <2>1, <2>2, RowMoves
<1>2. ASSUME NEW w \in Workers, Loads(w)
      PROVE  session'[worker'[v].session].status \in {"stopped"} \cup Terminal
  BY <1>1, <1>2, LoadIsFresh DEF tables
<1>3. ASSUME NEW w \in Workers, Commits(w) PROVE worker'[v] = worker[v]
  BY <1>3, CommitsOvertake, IdleIsFresh
<1>4. ASSUME NEW w \in Workers, CommitRelease(w) \/ Dies(w) PROVE worker'[v] = worker[v]
  BY <1>0, <1>4 DEF CommitRelease, Dies, WorkersOK, WorkerStates, At, Idle
<1>5. ASSUME GiveAway PROVE worker'[v] = worker[v]
  BY <1>5 DEF GiveAway
<1> QED BY <1>1, <1>2, <1>3, <1>4, <1>5, StepKinds

\* The UNIQUE column keeps a second session of a booking out.
LEMMA NextBookingUsedOnce ==
  ASSUME TypeOK, BookingUsedOnce, [Next]_vars
  PROVE  BookingUsedOnce'
<1>1. ASSUME NEW w \in Workers, NEW s \in Sessions, CommitStart(w, s) PROVE BookingUsedOnce'
  <2>1. session'[s].booking = worker[w].booking /\ \A t \in Sessions \ {s} : session'[t] = session[t]
    BY <1>1, TypeParts DEF CommitStart, TablesOK
  <2>2. worker[w].booking = NoBooking \/ \A t \in Sessions : session[t].booking # worker[w].booking
    BY <1>1 DEF CommitStart, BookingIsNew
  <2> QED BY <2>1, <2>2 DEF BookingUsedOnce
<1> QED BY <1>1, RowMoves DEF BookingUsedOnce

\* Only a booking that comes late enters the read model after its end.
LEMMA NextDroppedIsLate ==
  ASSUME TypeOK, DroppedIsLate, [Next]_vars
  PROVE  DroppedIsLate'
<1>1. ASSUME NEW w \in Workers, CommitDrop(w) PROVE DroppedIsLate'
  BY <1>1 DEF CommitDrop, Without, DroppedIsLate
<1>2. ASSUME NEW b \in Bookings, Sync(b) PROVE DroppedIsLate'
  BY <1>2 DEF Sync, DroppedIsLate
<1>3. ASSUME UNCHANGED <<readModel, dropped, late>> PROVE DroppedIsLate'
  BY <1>3 DEF DroppedIsLate
<1>4. ASSUME NEW w \in Workers, Loads(w) PROVE UNCHANGED <<readModel, dropped, late>>
  BY <1>4, LoadIsFresh DEF tables
<1>5. ASSUME NEW w \in Workers, NEW s \in Sessions, CommitStart(w, s) PROVE UNCHANGED <<readModel, dropped, late>>
  BY <1>5 DEF CommitStart
<1>6. ASSUME NEW w \in Workers,
             CommitStop(w) \/ CommitForceStop(w) \/ CommitPayment(w) \/ CommitReserve(w) \/ CommitRelease(w) \/ Dies(w)
      PROVE  UNCHANGED <<readModel, dropped, late>>
  BY <1>6 DEF CommitStop, CommitForceStop, CommitPayment, CommitReserve, CommitRelease, Dies, tables
<1>7. ASSUME GiveAway \/ \E b \in Bookings : Confirm(b) \/ Cancel(b) \/ AutoComplete(b)
      PROVE  UNCHANGED <<readModel, dropped, late>>
  BY <1>7 DEF Confirm, Cancel, AutoComplete, GiveAway
<1>8. ASSUME Tick \/ UNCHANGED vars PROVE UNCHANGED <<readModel, dropped, late>>
  BY <1>8 DEF Tick, tables, vars
<1> QED BY <1>1, <1>2, <1>3, <1>4, <1>5, <1>6, <1>7, <1>8
        DEF Next, StartSession, EndSession, Reserve, Drop, BookingMoves, NoShow, StatusChanged, Loads

-----------------------------------------------------------------------------
(* The theorems.                                                           *)

\* Init and every step establish the inductive invariant.
LEMMA InitIInv == Init => IInv
<1> SUFFICES ASSUME Init PROVE IInv
  OBVIOUS
<1>1. Active = {}
  BY DEF Init, Active, NoRow
<1>2. \A w \in Workers : worker[w].at = "idle"
  BY DEF Init, Idle
<1>3. TypeOK
  BY InitTypeOK
<1>4. FreshReads /\ BilledHasEnded
  BY <1>2 DEF FreshReads, FreshRead, BilledHasEnded, At
<1>5. TwoActiveOnlyIfRaced /\ CrowdOverwritten /\ ActiveIsOccupiedUnlessOverwritten
  BY <1>1 DEF TwoActiveOnlyIfRaced, CrowdOverwritten, ActiveIsOccupiedUnlessOverwritten
<1>6. OccupiedIsCharging
  BY DEF Init, OccupiedIsCharging
<1>7. BookingUsedOnce
  BY DEF Init, NoRow, BookingUsedOnce
<1>8. DroppedIsLate
  BY DEF Init, DroppedIsLate
<1> QED BY <1>3, <1>4, <1>5, <1>6, <1>7, <1>8 DEF IInv

\* Every step keeps the inductive invariant.
LEMMA NextIInv == IInv /\ [Next]_vars => IInv'
<1> SUFFICES ASSUME IInv, [Next]_vars PROVE IInv'
  OBVIOUS
<1>1. TypeOK /\ FreshReads /\ BilledHasEnded /\ BookingUsedOnce /\ DroppedIsLate
  BY DEF IInv
<1>2. TypeOK' /\ FreshReads'
  BY <1>1, NextTypeOK, NextFreshReads
<1>3. BilledHasEnded' /\ BookingUsedOnce' /\ DroppedIsLate'
  BY <1>1, NextBilledHasEnded, NextBookingUsedOnce, NextDroppedIsLate
<1>4. /\ TwoActiveOnlyIfRaced' /\ CrowdOverwritten'
      /\ OccupiedIsCharging' /\ ActiveIsOccupiedUnlessOverwritten'
  BY NextCharging
<1> QED BY <1>2, <1>3, <1>4 DEF IInv

\* The reads of a worker hold until another one commits, whatever was started,
\* stopped, reserved or dropped meanwhile: the invariant behind all the others.
THEOREM ReadsHold == Spec => []IInv
<1>1. Init => IInv
  BY InitIInv
<1>2. IInv /\ [Next]_vars => IInv'
  BY NextIInv
<1> QED BY <1>1, <1>2, PTL DEF Spec

\* The tables and the memory of the workers have their types.
THEOREM TypeCorrect == Spec => []TypeOK
<1>1. IInv => TypeOK
  BY DEF IInv
<1> QED BY <1>1, ReadsHold, PTL

\* Two sessions charge at one charger only if one of them was started by a
\* request whose look-up another commit had overtaken.
THEOREM TwoActiveOnlyIfRacedCorrect == Spec => []TwoActiveOnlyIfRaced
<1>1. IInv => TwoActiveOnlyIfRaced
  BY DEF IInv
<1> QED BY <1>1, ReadsHold, PTL

\* A charger that is shown as occupied has a session that charges.
THEOREM OccupiedIsChargingCorrect == Spec => []OccupiedIsCharging
<1>1. IInv => OccupiedIsCharging
  BY DEF IInv
<1> QED BY <1>1, ReadsHold, PTL

\* A session that charges occupies its charger, unless the row was given away by
\* a worker with stale reads or by one of the two that do not look.
THEOREM ActiveIsOccupiedCorrect == Spec => []ActiveIsOccupiedUnlessOverwritten
<1>1. IInv => ActiveIsOccupiedUnlessOverwritten
  BY DEF IInv
<1> QED BY <1>1, ReadsHold, PTL

\* A booking gets one session at most.
THEOREM BookingUsedOnceCorrect == Spec => []BookingUsedOnce
<1>1. IInv => BookingUsedOnce
  BY DEF IInv
<1> QED BY <1>1, ReadsHold, PTL

\* A session that has ended is changed only by a worker with stale reads.
THEOREM TerminalIsFinalCorrect == Spec => TerminalIsFinalUnlessStale
<1>1. ASSUME IInv, [Next]_vars, NEW s \in Sessions, session[s].status \in Terminal
      PROVE  session'[s] = session[s] \/ \E w \in stale : worker[w].session = s /\ worker'[w] = Idle
  <2>0. TypeOK /\ FreshReads
    BY <1>1 DEF IInv
  <2>1. ASSUME NEW w \in Workers, NEW t \in Sessions, CommitStart(w, t) PROVE session'[s] = session[s]
    <3>1. s # t
      BY <1>1, <2>1 DEF CommitStart, NoRow, Terminal
    <3> QED BY <2>0, <2>1, <3>1, TypeParts DEF CommitStart, TablesOK
  <2>2. ASSUME NEW w \in Workers, CommitStop(w) \/ CommitForceStop(w) \/ CommitPayment(w), worker[w].session = s
        PROVE  w \in stale /\ worker'[w] = Idle
    <3>1. worker'[w] = Idle
      BY <2>0, <2>2, CommitsOvertake DEF Commits
    <3>2. w \in stale
      BY <1>1, <2>0, <2>2 DEF FreshReads, FreshRead, CommitStop, CommitForceStop, CommitPayment, Terminal
    <3> QED BY <3>1, <3>2
  <2> QED BY <1>1, <2>0, <2>1, <2>2, RowMoves
<1>2. IInv /\ [Next]_vars => [\A s \in Sessions : session[s].status \in Terminal =>
        session'[s] = session[s] \/ \E w \in stale : worker[w].session = s /\ worker'[w] = Idle]_vars
  BY <1>1
<1> QED BY <1>2, ReadsHold, PTL DEF Spec, TerminalIsFinalUnlessStale

\* No session starts with a booking whose end was consumed, unless the start had
\* looked before or the booking entered the read model after its end.
THEOREM DroppedBookingIsRefusedCorrect == Spec => DroppedBookingIsRefused
<1>1. ASSUME IInv, [Next]_vars, NEW s \in Sessions, session[s] = NoRow, session'[s].booking \in dropped
      PROVE  s \in raced' \/ session'[s].booking \in late
  <2>0. TypeOK /\ FreshReads /\ DroppedIsLate
    BY <1>1 DEF IInv
  <2>1. NoBooking \notin dropped
    BY <2>0, TypeParts, ConstantsAssumption DEF TablesOK
  <2>2. session[s].booking \notin dropped
    BY <1>1, <2>1 DEF NoRow
  <2>3. PICK w \in Workers, t \in Sessions : CommitStart(w, t)
    BY <1>1, <2>0, <2>2, RowMoves
  <2>4. t = s /\ session'[s].booking = worker[w].booking
    BY <1>1, <2>0, <2>2, <2>3, TypeParts DEF CommitStart, TablesOK
  <2>5. CASE w \in stale
    BY <2>3, <2>4, <2>5 DEF CommitStart
  <2>6. CASE w \notin stale
    <3>1. worker[w].booking \in readModel \cup {NoBooking}
      BY <2>0, <2>3, <2>6 DEF FreshReads, FreshRead, CommitStart
    <3> QED BY <1>1, <2>0, <2>1, <2>4, <3>1 DEF DroppedIsLate
  <2> QED BY <2>5, <2>6
<1>2. IInv /\ [Next]_vars => [\A s \in Sessions : session[s] = NoRow /\ session'[s].booking \in dropped =>
        s \in raced' \/ session'[s].booking \in late]_vars
  BY <1>1
<1> QED BY <1>2, ReadsHold, PTL DEF Spec, DroppedBookingIsRefused

-----------------------------------------------------------------------------
(* Kiosk: which request is under way, and whose bill is shown.             *)

\* Requests and events, and their types.
CallRows ==
  [kind : {"init", "slots", "scanned", "start", "booked", "stop", "completed"},
   at : {"asked", "read", "readings", "sent", "done", "refused", "pay"},
   of : MaybeCharge, pays : MaybeCharge, tries : Nat]
EventRows == [what : {"none", "started", "completed", "interrupted", "available", "reserved"}, of : MaybeCharge]

\* Only a stop and a bill come to be paid, each for the session it is of, which is over by then.
CallOK(c) ==
  /\ c.kind = "stop" => c.of # None /\ c.pays = c.of /\ (c.at \in {"done", "pay"} => IsOver(c.of))
  /\ c.kind = "completed" => c.at = "pay" /\ c.of # None /\ c.pays = c.of /\ IsOver(c.of)
  /\ c.kind \in {"start", "booked"} => c.at \in {"sent", "done", "refused"}
  /\ c.kind \notin {"stop", "completed", "start", "booked"} => c.at \in {"asked", "read", "readings"}

EventOK(e) == e.what = "completed" => e.of # None /\ IsOver(e.of)

KioskTypes ==
  /\ screen \in Screens
  /\ shown \in MaybeCharge /\ summary \in MaybeCharge /\ url \in MaybeCharge /\ paidBy \in MaybeCharge
  /\ busy \in BOOLEAN /\ charging \in BOOLEAN /\ online \in BOOLEAN
  /\ begun \in 0 .. MaxCharges /\ (charging => begun # 0)
  /\ settled \subseteq Charges /\ rooms \subseteq Charges
  /\ wire \in Seq(EventRows) /\ recent \in EventRows
  /\ calls \subseteq CallRows

\* One action is under way if the screen thinks so.
OneAction ==
  /\ busy => \E c \in calls : Actions = {c}
  /\ ~busy => Actions = {}

\* The inductive invariant of the kiosk.
KioskInv ==
  /\ KioskTypes
  /\ \A c \in calls : CallOK(c)
  /\ EventOK(recent) /\ \A i \in 1 .. Len(wire) : EventOK(wire[i])
  /\ OneAction
  /\ screen = "STOPPED" => \E c \in Actions : c.kind = "stop"
  /\ BillIsOfOneSession

LEMMA KioskStarts == KioskInit => KioskInv
<1> SUFFICES ASSUME KioskInit PROVE KioskInv
  OBVIOUS
<1>1. calls = {InitCall} /\ InitCall \in CallRows /\ InitCall.kind = "init" /\ InitCall.at = "asked"
  BY DEF KioskInit, InitCall, Call, CallRows, MaybeCharge, None
<1>2. wire = <<>> /\ recent \in EventRows /\ recent.what = "none"
  BY DEF KioskInit, NoEvent, EventRow, EventRows, MaybeCharge, None
<1>3. KioskTypes
  <2>1. busy \in BOOLEAN /\ charging \in BOOLEAN /\ online \in BOOLEAN /\ ~charging
    BY Zenon DEF KioskInit
  <2>2. wire \in Seq(EventRows)
    BY <1>2
  <2> QED
    BY <1>1, <1>2, <2>1, <2>2, KioskAssumption DEF KioskInit, KioskTypes, Screens, MaybeCharge, Charges, None
<1>4. Actions = {}
  BY <1>1 DEF Actions
<1>5. \A c \in calls : CallOK(c)
  BY <1>1 DEF CallOK
<1> QED
  BY <1>2, <1>3, <1>4, <1>5 DEF KioskInv, KioskInit, OneAction, EventOK, BillIsOfOneSession, None

\* A step leaves the sessions alone, or one begins or ends.
SessionsMove == \/ begun' = begun /\ charging' = charging
          \/ Begin
          \/ \E how \in {"completed", "interrupted"} : End(how)

LEMMA SessionsMoveStep ==
  ASSUME [KioskNext]_kiosk
  PROVE  SessionsMove
<1> USE DEF SessionsMove
<1>1. ASSUME NEW c \in calls, Answers(c)
      PROVE  SessionsMove
  <2>1. CASE StartServed(c) \/ StopServed(c)
    BY <2>1 DEF StartServed, StopServed, backend
  <2>2. CASE ~(StartServed(c) \/ StopServed(c))
    BY <1>1, <2>2 DEF Answers, backend, InitRead, InitShow, InitActive, SlotsAnswered, ScanFires, AnswerLost, StartAnswered,
       StopAnswered, PayAnswered
  <2> QED
    BY <2>1, <2>2
<1>2. CASE AppStart \/ AppStop
  BY <1>2 DEF AppStart, AppStop
<1>3. CASE UNCHANGED kiosk
  BY <1>3, Zenon DEF kiosk, backend
<1>4. CASE (\E what \in {"reserved", "available"} : Report(what)) \/ (\E s \in Charges : Settle(s)) \/ Broadcast \/ Forget
           \/ Connect \/ Disconnect
  BY <1>4, Zenon DEF Report, Settle, Broadcast, Forget, Connect, Disconnect
<1>5. CASE (\E to \in {"MAINTENANCE", "OFFLINE", "RESERVED"} : StationRead(to)) \/ PressStart \/ ConfirmNotice \/ PressScan
           \/ Scan \/ ScanReserved \/ Reset \/ PressStop
  BY <1>5, Zenon DEF StationRead, PressStart, ConfirmNotice, PressScan, Scan, ScanReserved, Reset, PressStop, backend
<1> QED
  BY <1>1, <1>2, <1>3, <1>4, <1>5 DEF KioskNext

\* What is over stays over.
LEMMA StaysOver ==
  ASSUME KioskInv, [KioskNext]_kiosk
  PROVE  \A s \in Int : IsOver(s) => IsOver(s)'
<1> SUFFICES ASSUME NEW s \in Int, IsOver(s) PROVE IsOver(s)'
  OBVIOUS
<1>1. begun \in Nat /\ (charging => begun # 0)
  BY KioskAssumption DEF KioskInv, KioskTypes
<1>2. CASE begun' = begun /\ charging' = charging
  BY <1>2, Zenon DEF IsOver
<1>3. CASE Begin
  BY <1>1, <1>3 DEF IsOver, Begin
<1>4. CASE \E how \in {"completed", "interrupted"} : End(how)
  <2>1. begun' = begun /\ charging /\ ~charging'
    BY <1>4 DEF End
  <2> QED
    BY <2>1 DEF IsOver
<1> QED
  BY <1>2, <1>3, <1>4, SessionsMoveStep DEF SessionsMove

\* What a call is, and that going to INIT adds nothing but the question for the session.
LEMMA CallIs ==
  ASSUME NEW kind \in {"init", "slots", "scanned", "start", "booked", "stop", "completed"},
         NEW at \in {"asked", "read", "readings", "sent", "done", "refused", "pay"}, NEW s \in MaybeCharge
  PROVE  /\ Call(kind, at, s) \in CallRows
         /\ Call(kind, at, s).kind = kind /\ Call(kind, at, s).at = at /\ Call(kind, at, s).of = s /\ Call(kind, at, s).pays = s
  BY DEF Call, CallRows

LEMMA CallsAtIs ==
  ASSUME NEW to, NEW cs
  PROVE  cs \subseteq CallsAt(to, cs) /\ CallsAt(to, cs) \subseteq cs \cup {InitCall}
  BY DEF CallsAt

LEMMA InitCallIs ==
  InitCall \in CallRows /\ InitCall.kind = "init" /\ InitCall.at = "asked" /\ CallOK(InitCall)
<1>1. None \in MaybeCharge
  BY DEF MaybeCharge
<1> QED
  BY <1>1, CallIs DEF InitCall, CallOK

\* What a step does about the action under way.
Acts(c) == c.kind \in {"start", "booked", "stop", "completed"}
Replaced == (calls \ calls') \cup (calls' \ calls)

Idles ==
  /\ busy' = busy /\ (screen' = "STOPPED" => screen = "STOPPED")
  /\ \A c \in Replaced : ~Acts(c)

Starting(n) ==
  /\ ~busy /\ busy' = TRUE /\ n \in calls' /\ Acts(n)
  /\ screen' = "STOPPED" => n.kind = "stop" \/ screen = "STOPPED"
  /\ \A c \in Replaced \ {n} : ~Acts(c)

Turns(c, n) ==
  /\ busy' = busy /\ screen' = screen
  /\ Acts(c) /\ n.kind = c.kind
  /\ calls' = (calls \ {c}) \cup {n}

Ends(c) ==
  /\ Acts(c) /\ busy' = FALSE /\ screen' # "STOPPED"
  /\ c \notin calls' /\ \A d \in Replaced \ {c} : ~Acts(d)

LEMMA ActionStays ==
  ASSUME KioskInv,
         Idles \/ (\E n \in calls' : Starting(n)) \/ (\E c \in calls, n \in calls' : Turns(c, n)) \/ (\E c \in calls : Ends(c))
  PROVE  /\ OneAction'
         /\ screen' = "STOPPED" => \E c \in Actions' : c.kind = "stop"
         /\ busy' \in BOOLEAN
<1>1. /\ Actions = {c \in calls : Acts(c)} /\ Actions' = {c \in calls' : Acts(c)}
      /\ busy \in BOOLEAN /\ OneAction
      /\ screen = "STOPPED" => \E c \in Actions : c.kind = "stop"
  BY DEF KioskInv, KioskTypes, Actions, Acts
<1>2. CASE Idles
  <2>1. Actions' = Actions
    BY <1>1, <1>2 DEF Idles, Replaced
  <2>2. OneAction'
    BY <1>1, <1>2, <2>1 DEF Idles, OneAction
  <2> QED
    BY <1>1, <1>2, <2>1, <2>2 DEF Idles
<1>3. ASSUME NEW n \in calls', Starting(n)
      PROVE  OneAction' /\ (screen' = "STOPPED" => \E c \in Actions' : c.kind = "stop") /\ busy' \in BOOLEAN
  <2>1. Actions = {}
    BY <1>1, <1>3 DEF Starting, OneAction
  <2>2. Actions' = {n}
    BY <1>1, <1>3, <2>1 DEF Starting, Replaced
  <2> QED
    BY <1>1, <1>3, <2>1, <2>2 DEF Starting, OneAction
<1>4. ASSUME NEW c \in calls, NEW n \in calls', Turns(c, n)
      PROVE  OneAction' /\ (screen' = "STOPPED" => \E d \in Actions' : d.kind = "stop") /\ busy' \in BOOLEAN
  <2>1. busy /\ Actions = {c}
    BY <1>1, <1>4 DEF Turns, OneAction
  <2>2. Actions' = {n}
    BY <1>1, <1>4, <2>1 DEF Turns, Acts
  <2> QED
    BY <1>1, <1>4, <2>1, <2>2 DEF Turns, OneAction
<1>5. ASSUME NEW c \in calls, Ends(c)
      PROVE  OneAction' /\ (screen' = "STOPPED" => \E d \in Actions' : d.kind = "stop") /\ busy' \in BOOLEAN
  <2>1. Actions = {c}
    BY <1>1, <1>5 DEF Ends, OneAction
  <2>2. Actions' = {}
    BY <1>1, <1>5, <2>1 DEF Ends, Replaced
  <2> QED
    BY <1>1, <1>5, <2>2 DEF Ends, OneAction
<1> QED
  BY <1>2, <1>3, <1>4, <1>5

Kinds == Idles \/ (\E n \in calls' : Starting(n)) \/ (\E c \in calls, n \in calls' : Turns(c, n)) \/ (\E c \in calls : Ends(c))

\* The calls a step adds are well formed.
Sound == \A c \in calls' \ calls : c \in CallRows /\ CallOK(c)'

\* A request or timer that is answered.
LEMMA AnswerStep ==
  ASSUME KioskInv, NEW c \in calls, Answers(c), KioskNext
  PROVE  Kinds /\ Sound
<1>1. c \in CallRows /\ CallOK(c) /\ (charging => begun \in Charges) /\ None \in MaybeCharge /\ begun \in 0 .. MaxCharges
  BY KioskAssumption DEF KioskInv, KioskTypes, MaybeCharge, Charges
<1>2. \A d : IsOver(d.of) /\ d.of \in Int => IsOver(d.of)'
  BY StaysOver
<1>3. CallOK(InitCall)' /\ InitCall \in CallRows /\ ~Acts(InitCall)
  BY InitCallIs DEF CallOK, Acts
<1>4. ASSUME NEW to, Go(to, calls \ {c}), to # "STOPPED", ~Acts(c), busy' = busy
      PROVE  Kinds /\ Sound
  BY <1>3, <1>4, CallsAtIs DEF Go, Kinds, Idles, Replaced, Sound
<1>5. ASSUME NEW to, Go(to, calls \ {c}), to # "STOPPED", Acts(c), busy' = FALSE
      PROVE  Kinds /\ Sound
  <2>1. Ends(c)
    BY <1>3, <1>5, CallsAtIs DEF Go, Ends, Replaced
  <2> QED
    BY <1>3, <1>5, <2>1, CallsAtIs DEF Go, Kinds, Sound
<1>6. ASSUME NEW n \in CallRows, calls' = (calls \ {c}) \cup {n}, Acts(c), n.kind = c.kind, CallOK(n)',
             busy' = busy, screen' = screen
      PROVE  Kinds /\ Sound
  <2>1. Turns(c, n)
    BY <1>6 DEF Turns
  <2> QED
    BY <1>6, <2>1 DEF Kinds, Sound
<1>7. ASSUME NEW n \in CallRows, calls' \subseteq (calls \ {c}) \cup {n}, calls \ {c} \subseteq calls', ~Acts(c), ~Acts(n), CallOK(n)',
             busy' = busy, screen' = screen
      PROVE  Kinds /\ Sound
  BY <1>7 DEF Kinds, Idles, Replaced, Sound
<1>8. ASSUME NEW kind \in {"start", "booked"}, NEW from, Starts(kind, from, calls \ {c}), ~Acts(c), screen' = screen
      PROVE  Kinds /\ Sound
  <2>1. CASE calls' = calls \ {c} /\ UNCHANGED busy
    BY <1>8, <2>1 DEF Kinds, Idles, Replaced, Sound
  <2>2. CASE ~busy /\ calls' = (calls \ {c}) \cup {Call(kind, "sent", None)} /\ busy' = TRUE
    <3>1. PICK n : n = Call(kind, "sent", None)
      OBVIOUS
    <3>2. n \in CallRows /\ n.kind = kind /\ n.at = "sent"
      BY <1>1, <3>1, CallIs
    <3>3. CallOK(n)' /\ Acts(n)
      BY <3>2 DEF CallOK, Acts
    <3>4. Starting(n)
      BY <1>8, <2>2, <3>1, <3>3 DEF Starting, Replaced
    <3> QED
      BY <2>2, <3>1, <3>2, <3>3, <3>4 DEF Kinds, Sound
  <2> QED
    BY <1>8, <2>1, <2>2 DEF Starts
<1>9. ASSUME InitRead(c) PROVE Kinds /\ Sound
  <2>1. PICK s \in {None} \cup (IF charging THEN {begun} ELSE {}) :
          calls' = (calls \ {c}) \cup (IF s = None THEN {} ELSE {Call("init", "read", s)})
    BY <1>9 DEF InitRead
  <2>2. s \in MaybeCharge
    BY <1>1, <2>1 DEF MaybeCharge
  <2>3. PICK n : n = Call("init", "read", s)
    OBVIOUS
  <2>4. n \in CallRows /\ n.kind = "init" /\ n.at = "read"
    BY <2>2, <2>3, CallIs
  <2>5. CallOK(n)' /\ ~Acts(n) /\ ~Acts(c)
    BY <1>9, <2>4 DEF CallOK, Acts, InitRead
  <2> QED
    BY <1>7, <1>9, <2>1, <2>3, <2>4, <2>5, Zenon DEF InitRead, face
<1>10. ASSUME InitShow(c) PROVE Kinds /\ Sound
  <2>1. PICK n : n = [c EXCEPT !.at = "readings"]
    OBVIOUS
  <2>2. n \in CallRows /\ n.kind = "init" /\ n.at = "readings" /\ c.kind = "init"
    BY <1>1, <1>10, <2>1 DEF InitShow, CallRows
  <2>3. CallOK(n)' /\ ~Acts(n) /\ ~Acts(c)
    BY <2>2 DEF CallOK, Acts
  <2>4. calls' = (calls \ {c}) \cup {n} /\ busy' = busy /\ screen' = screen
    BY <1>10, <2>1 DEF InitShow
  <2> QED
    BY <1>7, <2>2, <2>3, <2>4
<1>11. CASE InitActive(c)
  BY <1>4, <1>11 DEF InitActive, Acts
<1>12. CASE SlotsAnswered(c)
  BY <1>4, <1>8, <1>12 DEF SlotsAnswered, Acts
<1>13. CASE ScanFires(c)
  BY <1>8, <1>13 DEF ScanFires, Acts
<1>14. CASE StartServed(c)
  <2>1. CASE Begin /\ calls' = (calls \ {c}) \cup {[c EXCEPT !.at = "done", !.of = begun + 1]}
    <3>1. PICK n : n = [c EXCEPT !.at = "done", !.of = begun + 1]
      OBVIOUS
    <3>2. begun + 1 \in MaybeCharge
      BY <1>1, <2>1, KioskAssumption DEF Begin, MaybeCharge, Charges
    <3>3. n \in CallRows /\ n.kind = c.kind /\ n.at = "done"
      BY <1>1, <3>1, <3>2 DEF CallRows
    <3>4. CallOK(n)' /\ Acts(c)
      BY <1>14, <3>3 DEF CallOK, Acts, StartServed
    <3> QED
      BY <1>6, <1>14, <2>1, <3>1, <3>3, <3>4 DEF StartServed, face
  <2>2. CASE calls' = (calls \ {c}) \cup {[c EXCEPT !.at = "refused"]}
    <3>1. PICK n : n = [c EXCEPT !.at = "refused"]
      OBVIOUS
    <3>2. n \in CallRows /\ n.kind = c.kind /\ n.at = "refused"
      BY <1>1, <3>1 DEF CallRows
    <3>3. CallOK(n)' /\ Acts(c)
      BY <1>14, <3>2 DEF CallOK, Acts, StartServed
    <3> QED
      BY <1>6, <1>14, <2>2, <3>1, <3>2, <3>3 DEF StartServed, face
  <2> QED
    BY <1>14, <2>1, <2>2 DEF StartServed
<1>15. CASE AnswerLost(c)
  <2>1. PICK n : n = IF c.tries < MaxTries THEN [c EXCEPT !.at = "sent", !.tries = c.tries + 1] ELSE [c EXCEPT !.at = "refused"]
    OBVIOUS
  <2>2. n \in CallRows /\ n.kind = c.kind /\ n.at \in {"sent", "refused"} /\ n.of = c.of /\ n.pays = c.pays
    <3>1. CASE c.tries < MaxTries
      <4>1. n = [c EXCEPT !.at = "sent", !.tries = c.tries + 1] /\ c.tries + 1 \in Nat
        BY <1>1, <2>1, <3>1 DEF CallRows
      <4> QED
        BY <1>1, <4>1 DEF CallRows
    <3>2. CASE ~(c.tries < MaxTries)
      <4>1. n = [c EXCEPT !.at = "refused"]
        BY <2>1, <3>2
      <4> QED
        BY <1>1, <4>1 DEF CallRows
    <3> QED
      BY <3>1, <3>2
  <2>3. c.kind \in {"start", "booked", "stop"} /\ Acts(c)
    BY <1>1, <1>15 DEF AnswerLost, CallOK, Acts
  <2>4. CallOK(n)'
    BY <1>1, <2>2, <2>3 DEF CallOK
  <2> QED
    BY <1>6, <1>15, <2>1, <2>2, <2>3, <2>4 DEF AnswerLost, face
<1>16. CASE StartAnswered(c)
  <2>1. Acts(c) /\ busy' = FALSE /\ (Go("ACTIVE", calls \ {c}) \/ Go("ERROR", calls \ {c}))
    BY <1>16 DEF StartAnswered, Acts
  <2> QED
    BY <1>5, <2>1
<1>17. CASE StopServed(c)
  <2>1. PICK label \in {"done", "refused"} :
          /\ calls' = (calls \ {c}) \cup {[c EXCEPT !.at = label]}
          /\ label = "done" => c.of = begun /\ End("completed")
    BY <1>17 DEF StopServed
  <2>2. PICK n : n = [c EXCEPT !.at = label]
    OBVIOUS
  <2>3. n \in CallRows /\ n.kind = "stop" /\ c.kind = "stop" /\ n.at = label /\ n.of = c.of /\ n.pays = c.pays
    BY <1>1, <1>17, <2>2 DEF CallRows, StopServed
  <2>4. label = "done" => IsOver(c.of)'
    <3> SUFFICES ASSUME label = "done" PROVE IsOver(c.of)'
      OBVIOUS
    <3>1. c.of = begun /\ begun' = begun /\ ~charging'
      BY <2>1 DEF End
    <3> QED
      BY <3>1 DEF IsOver
  <2>5. CallOK(n)' /\ Acts(c)
    BY <1>1, <2>1, <2>3, <2>4 DEF CallOK, Acts
  <2>6. busy' = busy /\ screen' = screen
    BY <1>17, Zenon DEF StopServed, face
  <2> QED
    BY <1>6, <2>1, <2>2, <2>3, <2>5, <2>6
<1>18. CASE StopAnswered(c)
  <2>1. Acts(c) /\ c.kind = "stop"
    BY <1>18 DEF StopAnswered, Acts
  <2>2. CASE c.at = "done"
    <3>1. PICK n : n = [c EXCEPT !.at = "pay"]
      OBVIOUS
    <3>2. n \in CallRows /\ n.kind = "stop" /\ n.at = "pay" /\ n.of = c.of /\ n.pays = c.pays
      BY <1>1, <2>1, <3>1 DEF CallRows
    <3>3. c.of \in Int
      BY <1>1 DEF CallRows, MaybeCharge, Charges, None
    <3>4. CallOK(n)'
      BY <1>1, <1>2, <2>1, <2>2, <3>2, <3>3 DEF CallOK
    <3> QED
      BY <1>6, <1>18, <2>1, <2>2, <3>1, <3>2, <3>4 DEF StopAnswered
  <2>3. CASE c.at # "done"
    BY <1>5, <1>18, <2>1, <2>3 DEF StopAnswered
  <2> QED
    BY <2>2, <2>3
<1>19. CASE PayAnswered(c)
  <2>1. Acts(c)
    BY <1>1, <1>19 DEF PayAnswered, CallOK, Acts
  <2> QED
    BY <1>5, <1>19, <2>1 DEF PayAnswered
<1> QED
  BY <1>9, <1>10, <1>11, <1>12, <1>13, <1>14, <1>15, <1>16, <1>17, <1>18, <1>19 DEF Answers

\* The customer, the session service and the socket.
LEMMA OtherStep ==
  ASSUME KioskInv, [KioskNext]_kiosk, ~\E c \in calls : Answers(c)
  PROVE  Kinds /\ Sound
<1>1. None \in MaybeCharge /\ shown \in MaybeCharge
  BY DEF KioskInv, KioskTypes, MaybeCharge
<1>2. CallOK(InitCall)' /\ InitCall \in CallRows /\ ~Acts(InitCall)
  BY InitCallIs DEF CallOK, Acts
<1>3. ASSUME calls' = calls, screen' = screen, busy' = busy
      PROVE  Kinds /\ Sound
  BY <1>3 DEF Kinds, Idles, Replaced, Sound
<1>4. ASSUME NEW to, Go(to, calls), to = "STOPPED" => screen = "STOPPED", busy' = busy
      PROVE  Kinds /\ Sound
  BY <1>2, <1>4, CallsAtIs DEF Go, Kinds, Idles, Replaced, Sound
<1>5. ASSUME NEW kind \in {"start", "booked"}, NEW from, Starts(kind, from, calls), screen' = screen
      PROVE  Kinds /\ Sound
  <2>1. CASE calls' = calls /\ UNCHANGED busy
    BY <1>5, <2>1 DEF Kinds, Idles, Replaced, Sound
  <2>2. CASE ~busy /\ calls' = calls \cup {Call(kind, "sent", None)} /\ busy' = TRUE
    <3>1. PICK n : n = Call(kind, "sent", None)
      OBVIOUS
    <3>2. n \in CallRows /\ n.kind = kind /\ n.at = "sent"
      BY <1>1, <3>1, CallIs
    <3>3. CallOK(n)' /\ Acts(n)
      BY <3>2 DEF CallOK, Acts
    <3>4. Starting(n)
      BY <1>5, <2>2, <3>1, <3>3 DEF Starting, Replaced
    <3> QED
      BY <2>2, <3>1, <3>2, <3>3, <3>4 DEF Kinds, Sound
  <2> QED
    BY <1>5, <2>1, <2>2 DEF Starts
<1>6. ASSUME NEW kind \in {"slots", "scanned"}, calls' = calls \cup {Call(kind, "asked", None)}, screen' = screen, busy' = busy
      PROVE  Kinds /\ Sound
  <2>1. PICK n : n = Call(kind, "asked", None)
    OBVIOUS
  <2>2. n \in CallRows /\ n.kind = kind /\ n.at = "asked"
    BY <1>1, <2>1, CallIs
  <2>3. CallOK(n)' /\ ~Acts(n)
    BY <2>2 DEF CallOK, Acts
  <2> QED
    BY <1>6, <2>1, <2>2, <2>3 DEF Kinds, Idles, Replaced, Sound
<1>7. ASSUME UNCHANGED <<face, calls>> PROVE Kinds /\ Sound
  <2>1. calls' = calls /\ screen' = screen /\ busy' = busy
    BY <1>7, Zenon DEF face
  <2> QED
    BY <1>3, <2>1
<1>8. CASE UNCHANGED kiosk
  BY <1>7, <1>8, Zenon DEF kiosk
<1>9. CASE AppStart \/ AppStop \/ (\E what \in {"reserved", "available"} : Report(what)) \/ Forget
  BY <1>7, <1>9, Zenon DEF AppStart, AppStop, Report, Forget
<1>10. CASE (\E s \in Charges : Settle(s)) \/ Connect \/ Disconnect
  BY <1>3, <1>10, Zenon DEF Settle, Connect, Disconnect
<1>11. CASE (\E to \in {"MAINTENANCE", "OFFLINE", "RESERVED"} : StationRead(to)) \/ PressScan \/ Reset
  BY <1>4, <1>11 DEF StationRead, PressScan, Reset
<1>12. CASE PressStart \/ Scan
  <2>1. \E kind \in {"slots", "scanned"} : calls' = calls \cup {Call(kind, "asked", None)}
    BY <1>12 DEF PressStart, Scan
  <2>2. screen' = screen /\ busy' = busy
    BY <1>12, Zenon DEF PressStart, Scan, face
  <2> QED
    BY <1>6, <2>1, <2>2
<1>13. CASE ConfirmNotice \/ ScanReserved
  BY <1>5, <1>13 DEF ConfirmNotice, ScanReserved
<1>14. CASE PressStop
  <2>1. PICK n : n = Call("stop", "sent", shown)
    OBVIOUS
  <2>2. n \in CallRows /\ n.kind = "stop" /\ n.at = "sent" /\ n.of = shown /\ n.pays = shown
    BY <1>1, <2>1, CallIs
  <2>3. CallOK(n)' /\ Acts(n)
    BY <1>14, <2>2 DEF CallOK, Acts, PressStop
  <2>4. Starting(n)
    BY <1>2, <1>14, <2>1, <2>2, <2>3, CallsAtIs DEF PressStop, Go, Starting, Replaced
  <2> QED
    BY <1>2, <1>14, <2>1, <2>2, <2>3, <2>4, CallsAtIs DEF PressStop, Go, Kinds, Sound
<1>15. CASE Broadcast
  <2>1. CASE ~online
    BY <1>7, <1>15, <2>1 DEF Broadcast
  <2>2. CASE online
    <3>1. PICK e : e = Head(wire)
      OBVIOUS
    <3>2. Hear(e)
      BY <1>15, <2>2, <3>1 DEF Broadcast
    <3>3. EventOK(e) /\ e \in EventRows
      BY <1>15, <3>1 DEF Broadcast, KioskInv, KioskTypes
    <3>4. ASSUME HearStarted(e.of) PROVE Kinds /\ Sound
      BY <1>4, <1>7, <3>4 DEF HearStarted
    <3>5. ASSUME HearCompleted(e.of), e.what = "completed" PROVE Kinds /\ Sound
      <4>1. CASE screen # "ACTIVE" \/ ~Concerns(e.of) \/ busy
        BY <1>7, <3>5, <4>1 DEF HearCompleted
      <4>2. CASE ~(screen # "ACTIVE" \/ ~Concerns(e.of) \/ busy)
        <5>1. PICK n : n = [Call("completed", "pay", e.of) EXCEPT !.pays = shown]
          OBVIOUS
        <5>2. n \in CallRows /\ n.kind = "completed" /\ n.at = "pay" /\ n.of = e.of /\ n.pays = shown
          BY <1>1, <3>3, <5>1 DEF Call, CallRows, EventRows
        <5>3. IsOver(e.of)' /\ e.of # None /\ shown = e.of
          BY <3>3, <3>5, <4>2, StaysOver DEF EventOK, Concerns, EventRows, MaybeCharge, Charges, None
        <5>4. CallOK(n)' /\ Acts(n)
          BY <5>2, <5>3 DEF CallOK, Acts
        <5>5. ~busy /\ busy' = TRUE /\ calls' = calls \cup {n} /\ screen' = screen
          BY <3>5, <4>2, <5>1 DEF HearCompleted
        <5> QED
          BY <5>2, <5>4, <5>5 DEF Kinds, Sound, Starting, Replaced
      <4> QED
        BY <4>1, <4>2
    <3>6. ASSUME HearCharger(e.what) PROVE Kinds /\ Sound
      BY <1>4, <3>6 DEF HearCharger
    <3> QED
      BY <1>7, <3>2, <3>3, <3>4, <3>5, <3>6 DEF Hear, EventRows
  <2> QED
    BY <2>1, <2>2
<1> QED
  BY <1>8, <1>9, <1>10, <1>11, <1>12, <1>13, <1>14, <1>15 DEF KioskNext

\* The sessions' types.
LEMMA SessionsTyped ==
  ASSUME KioskInv, [KioskNext]_kiosk
  PROVE  begun' \in 0 .. MaxCharges /\ charging' \in BOOLEAN /\ (charging' => begun' # 0)
<1>1. begun \in 0 .. MaxCharges /\ charging \in BOOLEAN /\ (charging => begun # 0)
  BY DEF KioskInv, KioskTypes
<1>2. CASE begun' = begun /\ charging' = charging
  BY <1>1, <1>2, Zenon
<1>3. CASE Begin
  <2>1. begun < MaxCharges /\ begun' = begun + 1 /\ charging' = TRUE
    BY <1>3, Zenon DEF Begin
  <2> QED
    BY <1>1, <2>1, KioskAssumption
<1>4. CASE \E how \in {"completed", "interrupted"} : End(how)
  <2>1. begun' = begun /\ charging' = FALSE
    BY <1>4, Zenon DEF End
  <2> QED
    BY <1>1, <2>1
<1> QED
  BY <1>2, <1>3, <1>4, SessionsMoveStep DEF SessionsMove

\* Events that wait are true of the sessions, in any state that follows.
Trusted(events) == events \in Seq(EventRows) /\ \A i \in 1 .. Len(events) : EventOK(events[i])

LEMMA EventsStep ==
  ASSUME KioskInv, [KioskNext]_kiosk
  PROVE  Trusted(wire)' /\ recent' \in EventRows /\ EventOK(recent)'
<1>1. Trusted(wire) /\ recent \in EventRows /\ EventOK(recent) /\ begun \in 0 .. MaxCharges /\ (charging => begun # 0)
  BY DEF KioskInv, KioskTypes, Trusted
<1>2. PICK past : past = {s \in MaybeCharge : s # None /\ IsOver(s)'}
  OBVIOUS
<1> DEFINE Ever(e) == e \in EventRows /\ (e.what = "completed" => e.of \in past)
<1>3. Ever(recent) /\ \A i \in 1 .. Len(wire) : Ever(wire[i])
  <2>1. \A e \in EventRows : EventOK(e) => Ever(e)
    BY <1>2, StaysOver DEF EventOK, EventRows, MaybeCharge, Charges, None
  <2>2. \A i \in 1 .. Len(wire) : wire[i] \in EventRows /\ EventOK(wire[i])
    BY <1>1 DEF Trusted
  <2> QED
    BY <1>1, <2>1, <2>2
<1>4. wire \in Seq(EventRows)
  BY <1>1 DEF Trusted
<1>5. ASSUME wire' \in Seq(EventRows), \A i \in 1 .. Len(wire') : Ever(wire'[i]), Ever(recent')
      PROVE  Trusted(wire)' /\ recent' \in EventRows /\ EventOK(recent)'
  BY <1>2, <1>5 DEF Trusted, EventOK
<1>6. ASSUME wire' = wire, recent' = recent
      PROVE  Trusted(wire)' /\ recent' \in EventRows /\ EventOK(recent)'
  BY <1>3, <1>4, <1>5, <1>6
<1>7. ASSUME NEW e, Ever(e), wire' = Append(wire, e), recent' = recent
      PROVE  Trusted(wire)' /\ recent' \in EventRows /\ EventOK(recent)'
  BY <1>3, <1>4, <1>5, <1>7
<1>8. CASE Begin
  <2>1. PICK e : e = EventRow("started", begun + 1)
    OBVIOUS
  <2>2. Ever(e)
    BY <1>1, <1>8, <2>1, KioskAssumption DEF Begin, EventRow, EventRows, MaybeCharge, Charges
  <2>3. wire' = Append(wire, e) /\ recent' = recent
    BY <1>8, <2>1 DEF Begin
  <2> QED
    BY <1>7, <2>2, <2>3
<1>9. ASSUME NEW how \in {"completed", "interrupted"}, End(how)
      PROVE  Trusted(wire)' /\ recent' \in EventRows /\ EventOK(recent)'
  <2>1. PICK e, f : e = EventRow(how, begun) /\ f = EventRow("available", None)
    OBVIOUS
  <2>2. begun \in MaybeCharge /\ begun \in past
    <3>1. begun' = begun /\ charging /\ ~charging'
      BY <1>9 DEF End
    <3> QED
      BY <1>1, <1>2, <3>1 DEF IsOver, MaybeCharge, Charges, None
  <2>3. Ever(e)
    BY <2>1, <2>2 DEF EventRow, EventRows
  <2>4. Ever(f)
    BY <2>1 DEF EventRow, EventRows, MaybeCharge
  <2>5. wire' = wire \o <<e, f>> /\ recent' = recent
    BY <1>9, <2>1 DEF End
  <2> HIDE DEF Ever
  <2>6. \A i \in 1 .. Len(wire') : Ever(wire'[i])
    BY <1>3, <1>4, <2>3, <2>4, <2>5
  <2>7. wire' \in Seq(EventRows)
    <3>1. <<e, f>> \in Seq(EventRows)
      BY <2>3, <2>4 DEF Ever
    <3> QED
      BY <1>4, <2>5, <3>1
  <2> QED
    BY <1>3, <1>5, <2>5, <2>6, <2>7
<1>10. ASSUME NEW what \in {"reserved", "available"}, Report(what)
       PROVE  Trusted(wire)' /\ recent' \in EventRows /\ EventOK(recent)'
  <2>1. PICK e : e = EventRow(what, None)
    OBVIOUS
  <2>2. Ever(e)
    BY <2>1 DEF EventRow, EventRows, MaybeCharge
  <2>3. wire' = Append(wire, e) /\ recent' = recent
    BY <1>10, <2>1 DEF Report
  <2> QED
    BY <1>7, <2>2, <2>3
<1>11. CASE Broadcast
  <2>1. wire # <<>> /\ recent' = Head(wire) /\ wire' = Tail(wire)
    BY <1>11 DEF Broadcast
  <2> HIDE DEF Ever
  <2>2. Ever(recent') /\ wire' \in Seq(EventRows) /\ \A i \in 1 .. Len(wire') : Ever(wire'[i])
    BY <1>3, <1>4, <2>1
  <2> QED
    BY <1>5, <2>2
<1>12. CASE Forget
  <2>1. wire' = <<recent>> \o wire /\ recent' = NoEvent
    BY <1>12 DEF Forget
  <2>2. Ever(NoEvent)
    BY DEF NoEvent, EventRow, EventRows, MaybeCharge
  <2> HIDE DEF Ever
  <2>3. <<recent>> \in Seq(EventRows) /\ wire' \in Seq(EventRows)
    BY <1>1, <1>4, <2>1
  <2>4. \A i \in 1 .. Len(wire') : Ever(wire'[i])
    <3>1. Len(wire') = Len(wire) + 1 /\ wire'[1] = recent /\ \A i \in 2 .. Len(wire) + 1 : wire'[i] = wire[i - 1]
      BY <1>4, <2>1, <2>3
    <3>2. \A i \in 2 .. Len(wire) + 1 : i - 1 \in 1 .. Len(wire)
      BY <1>4
    <3>3. \A i \in 1 .. Len(wire') : i = 1 \/ i \in 2 .. Len(wire) + 1
      BY <1>4, <3>1
    <3> QED
      BY <1>3, <3>1, <3>2, <3>3
  <2> QED
    BY <1>5, <2>1, <2>2, <2>3, <2>4
<1>13. CASE UNCHANGED kiosk \/ (\E s \in Charges : Settle(s)) \/ Connect \/ Disconnect
  <2>1. wire' = wire /\ recent' = recent
    BY <1>13, Zenon DEF kiosk, backend, Settle, Connect, Disconnect
  <2> QED
    BY <1>6, <2>1
<1>14. CASE (\E to \in {"MAINTENANCE", "OFFLINE", "RESERVED"} : StationRead(to)) \/ PressStart \/ ConfirmNotice \/ PressScan
            \/ Scan \/ ScanReserved \/ Reset \/ PressStop
  <2>1. wire' = wire /\ recent' = recent
    BY <1>14, Zenon DEF StationRead, PressStart, ConfirmNotice, PressScan, Scan, ScanReserved, Reset, PressStop, backend
  <2> QED
    BY <1>6, <2>1
<1>15. ASSUME NEW c \in calls, Answers(c)
       PROVE  Trusted(wire)' /\ recent' \in EventRows /\ EventOK(recent)'
  <2>1. Begin \/ End("completed") \/ (wire' = wire /\ recent' = recent)
    <3>1. CASE StartServed(c) \/ StopServed(c)
      BY <3>1, Zenon DEF StartServed, StopServed, backend
    <3>2. CASE ~(StartServed(c) \/ StopServed(c))
      BY <1>15, <3>2, Zenon DEF Answers, backend, InitRead, InitShow, InitActive, SlotsAnswered, ScanFires, AnswerLost, StartAnswered,
         StopAnswered, PayAnswered
    <3> QED
      BY <3>1, <3>2
  <2> QED
    BY <1>6, <1>8, <1>9, <2>1
<1> QED
  BY <1>8, <1>9, <1>10, <1>11, <1>12, <1>13, <1>14, <1>15 DEF KioskNext, AppStart, AppStop

\* What a step does to the session shown and to the connection, and to the bill.
Shows ==
  \/ UNCHANGED <<shown, rooms, online>>
  \/ online' = online /\ \E s \in MaybeCharge : Show(s)
  \/ UNCHANGED shown /\ online' = TRUE /\ rooms' = {shown} \ {None}
  \/ UNCHANGED shown /\ online' = FALSE /\ rooms' = {}

Bills ==
  \/ UNCHANGED <<summary, url>> /\ screen' \in Screens /\ (screen' = "BILLED" => screen = "BILLED")
  \/ summary' = None /\ url' = None /\ screen' \in Screens \ {"BILLED"}
  \/ \E s \in Charges : summary' = s /\ url' \in {None, s} /\ IsOver(s) /\ screen' \in Screens

Marks == paidBy' \in MaybeCharge /\ settled' \subseteq Charges

LEMMA FaceStep ==
  ASSUME KioskInv, [KioskNext]_kiosk
  PROVE  Shows /\ Bills /\ Marks
<1>1. /\ screen \in Screens /\ shown \in MaybeCharge /\ paidBy \in MaybeCharge /\ settled \subseteq Charges
      /\ None \in MaybeCharge /\ Charges \subseteq MaybeCharge /\ Charges \subseteq Int /\ None \notin Charges
  BY KioskAssumption DEF KioskInv, KioskTypes, MaybeCharge, Charges, None
<1>2. ASSUME settled' = settled, paidBy' = paidBy \/ paidBy' = None PROVE Marks
  BY <1>1, <1>2 DEF Marks
<1>3. ASSUME UNCHANGED <<summary, url>>, screen' \in Screens, screen' = "BILLED" => screen = "BILLED" PROVE Bills
  BY <1>3 DEF Bills
<1>4. ASSUME UNCHANGED <<shown, rooms, online>> PROVE Shows
  BY <1>4 DEF Shows
<1>5. ASSUME UNCHANGED face, online' = online, settled' = settled PROVE Shows /\ Bills /\ Marks
  <2>1. UNCHANGED <<shown, rooms, online>> /\ UNCHANGED <<summary, url>> /\ paidBy' = paidBy /\ screen' = screen
    BY <1>5, Zenon DEF face
  <2> QED
    BY <1>1, <1>2, <1>3, <1>4, <1>5, <2>1
<1>6. ASSUME NEW s \in MaybeCharge, Show(s), online' = online PROVE Shows
  BY <1>6 DEF Shows
<1>7. ASSUME UNCHANGED backend PROVE online' = online /\ settled' = settled
  BY <1>7, Zenon DEF backend
<1>8. ASSUME NEW c \in calls, Answers(c)
      PROVE  Shows /\ Bills /\ Marks
  <2>1. c.of \in MaybeCharge /\ CallOK(c)
    BY DEF KioskInv, KioskTypes, CallRows
  <2>2. CASE InitRead(c)
    BY <1>5, <1>7, <2>2 DEF InitRead
  <2>3. CASE StartServed(c) \/ StopServed(c)
    <3>1. UNCHANGED face
      BY <2>3, Zenon DEF StartServed, StopServed
    <3>2. online' = online /\ settled' = settled
      BY <1>7, <2>3, Zenon DEF StartServed, StopServed, Begin, End
    <3> QED
      BY <1>5, <3>1, <3>2
  <2>4. CASE AnswerLost(c)
    BY <1>5, <1>7, <2>4 DEF AnswerLost
  <2>5. CASE InitShow(c)
    <3>1. screen' = screen /\ UNCHANGED <<summary, url, paidBy>> /\ Show(c.of) /\ UNCHANGED backend
      BY <2>5, Zenon DEF InitShow, ShowOnly
    <3> QED
      BY <1>1, <1>2, <1>3, <1>6, <1>7, <2>1, <3>1
  <2>6. CASE InitActive(c)
    <3>1. screen' = "ACTIVE" /\ UNCHANGED <<summary, url, paidBy>> /\ UNCHANGED <<shown, rooms>> /\ UNCHANGED backend
      BY <2>6, Zenon DEF InitActive, ShowOnly, Go
    <3> QED
      BY <1>2, <1>3, <1>4, <1>7, <3>1 DEF Screens
  <2>7. CASE SlotsAnswered(c)
    <3>1. UNCHANGED <<summary, url, paidBy>> /\ UNCHANGED <<shown, rooms>> /\ UNCHANGED backend
      BY <2>7, Zenon DEF SlotsAnswered, ShowOnly
    <3>2. screen' \in {screen, "RESERVED", "NOTICE"}
      BY <2>7 DEF SlotsAnswered, Go
    <3> QED
      BY <1>1, <1>2, <1>3, <1>4, <1>7, <3>1, <3>2 DEF Screens
  <2>8. CASE ScanFires(c)
    <3>1. UNCHANGED <<summary, url, paidBy>> /\ UNCHANGED <<screen, shown, rooms>> /\ UNCHANGED backend
      BY <2>8, Zenon DEF ScanFires, ShowOnly
    <3> QED
      BY <1>1, <1>2, <1>3, <1>4, <1>7, <3>1
  <2>9. CASE StartAnswered(c)
    <3>1. UNCHANGED <<summary, url, paidBy>> /\ UNCHANGED backend
      BY <2>9, Zenon DEF StartAnswered, ShowOnly
    <3>2. \/ Show(c.of) /\ screen' = "ACTIVE"
          \/ screen' = "ERROR" /\ UNCHANGED <<shown, rooms>>
      BY <2>9, Zenon DEF StartAnswered, Go
    <3> QED
      BY <1>2, <1>3, <1>4, <1>6, <1>7, <2>1, <3>1, <3>2 DEF Screens
  <2>10. CASE StopAnswered(c)
    <3>1. UNCHANGED <<summary, url, paidBy>> /\ UNCHANGED <<shown, rooms>> /\ UNCHANGED backend
      BY <2>10, Zenon DEF StopAnswered, ShowOnly
    <3>2. screen' \in {screen, "ERROR"}
      BY <2>10 DEF StopAnswered, Go
    <3> QED
      BY <1>1, <1>2, <1>3, <1>4, <1>7, <3>1, <3>2 DEF Screens
  <2>11. CASE PayAnswered(c)
    <3>1. /\ UNCHANGED <<shown, rooms>> /\ paidBy' = paidBy /\ UNCHANGED backend
          /\ summary' = c.of /\ url' \in {None, c.pays} /\ screen' = "BILLED" /\ c.at = "pay"
      BY <2>11, Zenon DEF PayAnswered, Go
    <3>2. c.kind \in {"stop", "completed"}
      BY <2>1, <3>1 DEF CallOK
    <3>3. c.of # None /\ c.pays = c.of /\ IsOver(c.of)
      BY <2>1, <3>1, <3>2 DEF CallOK
    <3>4. Bills
      BY <1>1, <2>1, <3>1, <3>3 DEF Bills, MaybeCharge, Screens
    <3> QED
      BY <1>2, <1>4, <1>7, <3>1, <3>4
  <2> QED
    BY <1>8, <2>2, <2>3, <2>4, <2>5, <2>6, <2>7, <2>8, <2>9, <2>10, <2>11 DEF Answers
<1>9. CASE AppStart \/ AppStop \/ (\E what \in {"reserved", "available"} : Report(what)) \/ Forget \/ UNCHANGED kiosk
  <2>1. UNCHANGED face /\ online' = online /\ settled' = settled
    BY <1>9, Zenon DEF AppStart, AppStop, Begin, End, Report, Forget, kiosk, backend
  <2> QED
    BY <1>5, <2>1
<1>10. CASE (\E to \in {"MAINTENANCE", "OFFLINE", "RESERVED"} : StationRead(to)) \/ PressScan \/ PressStop
  <2>1. /\ UNCHANGED <<summary, url, paidBy>> /\ UNCHANGED <<shown, rooms>> /\ UNCHANGED backend
        /\ screen' \in {"MAINTENANCE", "OFFLINE", "RESERVED", "SCAN_QR", "STOPPED"}
    BY <1>10 DEF StationRead, PressScan, PressStop, Go, ShowOnly
  <2> QED
    BY <1>2, <1>3, <1>4, <1>7, <2>1 DEF Screens
<1>11. CASE PressStart \/ Scan
  BY <1>5, <1>7, <1>11 DEF PressStart, Scan
<1>12. CASE ConfirmNotice \/ ScanReserved
  <2>1. UNCHANGED <<summary, url, paidBy>> /\ UNCHANGED <<screen, shown, rooms>> /\ UNCHANGED backend
    BY <1>12, Zenon DEF ConfirmNotice, ScanReserved, ShowOnly
  <2> QED
    BY <1>1, <1>2, <1>3, <1>4, <1>7, <2>1
<1>13. CASE Reset
  <2>1. Show(None) /\ summary' = None /\ url' = None /\ paidBy' = None /\ screen' = "INIT" /\ UNCHANGED backend
    BY <1>13, Zenon DEF Reset, Go
  <2>2. Bills
    BY <2>1 DEF Bills, Screens
  <2> QED
    BY <1>1, <1>2, <1>6, <1>7, <2>1, <2>2
<1>14. CASE Broadcast
  <2>1. online' = online /\ settled' = settled
    BY <1>14, Zenon DEF Broadcast
  <2>2. CASE UNCHANGED face
    BY <1>5, <2>1, <2>2
  <2>3. PICK e : e = Head(wire)
    OBVIOUS
  <2>4. e.of \in MaybeCharge
    <3>1. wire # <<>> /\ wire \in Seq(EventRows)
      BY <1>14 DEF Broadcast, KioskInv, KioskTypes
    <3>2. e \in EventRows
      BY <2>3, <3>1
    <3> QED
      BY <3>2 DEF EventRows
  <2>5. CASE HearStarted(e.of) /\ ~UNCHANGED face
    <3>1. Show(e.of) /\ screen' = "ACTIVE" /\ UNCHANGED <<summary, url, paidBy>>
      BY <2>5, Zenon DEF HearStarted, Go, ShowOnly
    <3> QED
      BY <1>2, <1>3, <1>6, <2>1, <2>4, <3>1 DEF Screens
  <2>6. CASE HearCompleted(e.of) /\ ~UNCHANGED face
    <3>1. UNCHANGED <<screen, shown, rooms>> /\ UNCHANGED <<summary, url, paidBy>>
      BY <2>6, Zenon DEF HearCompleted, ShowOnly
    <3> QED
      BY <1>1, <1>2, <1>3, <1>4, <2>1, <3>1
  <2>7. CASE HearCharger(e.what)
    <3>1. UNCHANGED <<shown, rooms>> /\ UNCHANGED <<summary, url, paidBy>> /\ screen' \in {screen, "RESERVED", "INIT"}
      BY <2>7 DEF HearCharger, ShowOnly, Go
    <3> QED
      BY <1>1, <1>2, <1>3, <1>4, <2>1, <3>1 DEF Screens
  <2>8. UNCHANGED face \/ Hear(e)
    BY <1>14, <2>3 DEF Broadcast
  <2> QED
    BY <2>2, <2>5, <2>6, <2>7, <2>8 DEF Hear
<1>15. ASSUME NEW s \in Charges, Settle(s)
       PROVE  Shows /\ Bills /\ Marks
  <2>1. /\ UNCHANGED <<screen, shown, summary, url, rooms, online>>
        /\ settled' = settled \cup {s} /\ paidBy' \in {s, paidBy}
    BY <1>15 DEF Settle
  <2> QED
    BY <1>1, <1>3, <1>4, <2>1 DEF Marks
<1>16. CASE Connect \/ Disconnect
  <2>1. /\ UNCHANGED <<screen, summary, url, paidBy, settled>> /\ UNCHANGED shown
        /\ \/ online' = TRUE /\ rooms' = {shown} \ {None}
           \/ online' = FALSE /\ rooms' = {}
    BY <1>16, Zenon DEF Connect, Disconnect
  <2> QED
    BY <1>1, <1>2, <1>3, <2>1 DEF Shows
<1> QED
  BY <1>8, <1>9, <1>10, <1>11, <1>12, <1>13, <1>14, <1>15, <1>16 DEF KioskNext

\* A step keeps the inductive invariant.
LEMMA KioskStep ==
  ASSUME KioskInv, [KioskNext]_kiosk
  PROVE  KioskInv'
<1>1. Kinds /\ Sound
  <2>1. CASE \E c \in calls : Answers(c)
    <3>1. KioskNext
      BY <2>1 DEF KioskNext
    <3> QED
      BY <2>1, <3>1, AnswerStep
  <2> QED
    BY <2>1, OtherStep
<1>2. OneAction' /\ (screen' = "STOPPED" => \E c \in Actions' : c.kind = "stop") /\ busy' \in BOOLEAN
  BY <1>1, ActionStays DEF Kinds
<1>3. calls' \subseteq CallRows /\ \A c \in calls' : CallOK(c)'
  <2>1. \A c \in calls : c \in CallRows /\ CallOK(c)
    BY DEF KioskInv, KioskTypes
  <2>2. \A c \in calls : CallOK(c)'
    BY <2>1, StaysOver DEF CallOK, CallRows, MaybeCharge, Charges, None
  <2> QED
    BY <1>1, <2>1, <2>2 DEF Sound
<1>4. begun' \in 0 .. MaxCharges /\ charging' \in BOOLEAN /\ (charging' => begun' # 0)
  BY SessionsTyped
<1>5. Trusted(wire)' /\ recent' \in EventRows /\ EventOK(recent)'
  BY EventsStep
<1>6. Shows /\ Bills /\ Marks
  BY FaceStep
<1>7. /\ screen \in Screens /\ shown \in MaybeCharge /\ summary \in MaybeCharge /\ url \in MaybeCharge
      /\ online \in BOOLEAN /\ rooms \subseteq Charges /\ None \in MaybeCharge /\ Charges \subseteq MaybeCharge
      /\ MaybeCharge \ {None} \subseteq Charges /\ Charges \subseteq Int /\ None \notin Charges
      /\ BillIsOfOneSession
  BY KioskAssumption DEF KioskInv, KioskTypes, MaybeCharge, Charges, None
<1>8. /\ shown' \in MaybeCharge /\ rooms' \subseteq Charges /\ online' \in BOOLEAN
      /\ online' /\ shown' # None => shown' \in rooms'
  <2>1. CASE UNCHANGED <<shown, rooms, online>>
    BY <1>7, <2>1 DEF BillIsOfOneSession
  <2>2. CASE online' = online /\ \E s \in MaybeCharge : Show(s)
    BY <1>7, <2>2 DEF Show
  <2>3. CASE UNCHANGED shown /\ online' = TRUE /\ rooms' = {shown} \ {None}
    BY <1>7, <2>3
  <2>4. CASE UNCHANGED shown /\ online' = FALSE /\ rooms' = {}
    BY <1>7, <2>4
  <2> QED
    BY <1>6, <2>1, <2>2, <2>3, <2>4 DEF Shows
<1>9. /\ screen' \in Screens /\ summary' \in MaybeCharge /\ url' \in MaybeCharge
      /\ screen' = "BILLED" => summary' # None
      /\ summary' # None => IsOver(summary)'
      /\ url' \in {None, summary'}
  <2>1. CASE UNCHANGED <<summary, url>> /\ screen' \in Screens /\ (screen' = "BILLED" => screen = "BILLED")
    <3>1. summary # None => IsOver(summary) /\ summary \in Int
      BY <1>7 DEF BillIsOfOneSession
    <3>2. PICK s : s = summary
      OBVIOUS
    <3>3. s # None => IsOver(s)'
      BY <3>1, <3>2, StaysOver
    <3>4. summary # None => IsOver(summary)'
      BY <2>1, <3>2, <3>3 DEF IsOver
    <3> QED
      BY <1>7, <2>1, <3>4 DEF BillIsOfOneSession
  <2>2. CASE summary' = None /\ url' = None /\ screen' \in Screens \ {"BILLED"}
    BY <1>7, <2>2
  <2>3. ASSUME NEW s \in Charges, summary' = s, url' \in {None, s}, IsOver(s), screen' \in Screens
        PROVE  /\ screen' \in Screens /\ summary' \in MaybeCharge /\ url' \in MaybeCharge
               /\ screen' = "BILLED" => summary' # None
               /\ summary' # None => IsOver(summary)'
               /\ url' \in {None, summary'}
    <3>1. IsOver(s)'
      BY <1>7, <2>3, StaysOver
    <3>2. IsOver(summary)'
      BY <2>3, <3>1 DEF IsOver
    <3> QED
      BY <1>7, <2>3, <3>2
  <2> QED
    BY <1>6, <2>1, <2>2, <2>3 DEF Bills
<1>10. KioskTypes'
  BY <1>2, <1>3, <1>4, <1>5, <1>6, <1>8, <1>9 DEF KioskTypes, Trusted, Marks
<1>11. BillIsOfOneSession'
  BY <1>8, <1>9 DEF BillIsOfOneSession
<1> QED
  BY <1>2, <1>3, <1>5, <1>10, <1>11 DEF KioskInv, Trusted

\* A behaviour of the kiosk.
KioskSpec == KioskInit /\ [][KioskNext]_kiosk

\* What is under way is what the screen thinks is, an event tells of a session that it ended only
\* when it did, and what is paid is of a session that is over.
THEOREM KioskInvariant == KioskSpec => []KioskInv
<1> QED
  BY KioskStarts, KioskStep, PTL DEF KioskSpec

\* The kiosk's state has its types, for any number of sessions and events (useSessionStateMachine).
THEOREM KioskTypesCorrect == KioskSpec => []KioskTypeOK
<1>1. ASSUME KioskInv PROVE KioskTypeOK
  <2>1. \A i \in 1 .. Len(wire) : wire[i].of \in MaybeCharge
    <3>1. wire \in Seq(EventRows)
      BY <1>1 DEF KioskInv, KioskTypes
    <3>2. \A i \in 1 .. Len(wire) : wire[i] \in EventRows
      BY <3>1
    <3> QED
      BY <3>2 DEF EventRows
  <2>2. \A c \in calls : c.of \in MaybeCharge /\ c.at \in {"asked", "read", "readings", "sent", "done", "refused", "pay"}
    BY <1>1 DEF KioskInv, KioskTypes, CallRows
  <2> QED
    BY <1>1, <2>1, <2>2 DEF KioskInv, KioskTypes, KioskTypeOK
<1> QED
  BY <1>1, KioskInvariant, PTL

\* The kiosk runs one start, stop or bill at a time, and none exactly when its buttons work
\* (actionInProgressRef of useSessionStateMachine).
THEOREM BusyWhileActingCorrect == KioskSpec => []BusyWhileActing
<1>1. ASSUME KioskInv PROVE BusyWhileActing
  <2>1. CASE busy
    <3>1. PICK c \in calls : Actions = {c}
      BY <1>1, <2>1 DEF KioskInv, OneAction
    <3>2. Cardinality(Actions) = 1
      BY <3>1, FS_Singleton
    <3> QED
      BY <1>1, <2>1, <3>2 DEF KioskInv, BusyWhileActing
  <2>2. CASE ~busy
    <3>1. Cardinality(Actions) = 0
      BY <1>1, <2>2, FS_EmptySet DEF KioskInv, OneAction
    <3> QED
      BY <1>1, <2>2, <3>1 DEF KioskInv, BusyWhileActing
  <2> QED
    BY <2>1, <2>2
<1> QED
  BY <1>1, KioskInvariant, PTL

\* A bill and its payment link are of one session that is over, and a connected kiosk is in the room
\* of the session it shows (stopSession, handleSessionCompleted, resetSession, useWebSocket).
THEOREM BillIsOfOneSessionCorrect == KioskSpec => []BillIsOfOneSession
<1>1. KioskInv => BillIsOfOneSession
  BY DEF KioskInv
<1> QED
  BY <1>1, KioskInvariant, PTL
=============================================================================
