--------------------------- MODULE ChargerSession ---------------------------
(***************************************************************************)
(* The charging sessions and the state row of one charger in               *)
(* session-service: the starts and stops that users ask for, ForceStopJob, *)
(* ChargerReservationJob, NoShowDetectionJob, and the consumers of         *)
(* booking.confirmed, of the events that end a booking, of                 *)
(* payment.completed and of charger.status_changed.                        *)
(*                                                                         *)
(* None of them locks a row.  Each reads, decides, and writes later: what  *)
(* one of them does is a step that loads and a step that commits, and a    *)
(* worker whose reads were overtaken by the commit of another is stale.    *)
(*                                                                         *)
(* The bookings themselves are those of BookingLifecycle; here they are    *)
(* confirmed, and then completed, cancelled or missed.  Fees, meters and   *)
(* the virtual queue are left out, and so is active_session_id of the      *)
(* charger's row, which is written and never read.                         *)
(***************************************************************************)
EXTENDS Integers, FiniteSets

CONSTANTS
  Sessions,    \* rows charging_sessions may get
  Bookings,
  Workers,     \* requests, jobs and deliveries that are at work at once
  NoSession,
  NoBooking,
  StartAt,     \* startTime of each booking
  EndAt,       \* endTime of each booking
  EarlyEntry,  \* EARLY_ENTRY_MS, and the ten minutes of ChargerReservationJob
  LateBuffer,  \* LATE_BUFFER_MS
  Lookahead,   \* UPCOMING_BOOKING_LOOKAHEAD_MS
  Grace,       \* NO_SHOW_GRACE_MINUTES
  MaxTime      \* bound: the clock stops there

Never == MaxTime + 1  \* a session without scheduledStopAt

ASSUME ConstantsAssumption ==
  /\ NoSession \notin Sessions
  /\ NoBooking \notin Bookings
  /\ MaxTime \in Nat
  /\ StartAt \in [Bookings -> 0 .. MaxTime]
  /\ EndAt \in [Bookings -> 0 .. MaxTime]
  /\ \A b \in Bookings : StartAt[b] < EndAt[b]
  /\ {EarlyEntry, LateBuffer, Lookahead, Grace} \subseteq Nat

VARIABLES
  session,    \* charging_sessions
  charger,    \* availability in the charger's row of charger_state
  booking,    \* status of every booking
  readModel,  \* booking_read_models
  synced,     \* bookings whose booking.confirmed has been consumed for the read model
  dropped,    \* bookings whose end has been consumed for the read model
  late,       \* history: bookings synced after their end was consumed
  now,
  worker,     \* what every worker is about to commit, and for what
  stale,      \* history: workers whose reads another's commit has overtaken
  raced,      \* history: sessions started by a stale worker
  overwritten \* history: active sessions whose charger was given away, see below

vars == <<session, charger, booking, readModel, synced, dropped, late, now, worker, stale, raced, overwritten>>

NoRow == [status |-> "none", booking |-> NoBooking, stopAt |-> Never]

Idle == [at |-> "idle", session |-> NoSession, booking |-> NoBooking]

Active == {s \in Sessions : session[s].status = "active"}

Terminal == {"completed", "interrupted"}

Init ==
  /\ session = [s \in Sessions |-> NoRow]
  /\ charger = "none"
  /\ booking = [b \in Bookings |-> "none"]
  /\ readModel = {} /\ synced = {} /\ dropped = {} /\ late = {}
  /\ now = 0
  /\ worker = [w \in Workers |-> Idle]
  /\ stale = {} /\ raced = {} /\ overwritten = {}

tables == <<session, charger, booking, readModel, synced, dropped, late>>

\* Worker w has read what it needs.
Load(w, label, s, b) ==
  /\ worker[w] = Idle
  /\ worker' = [worker EXCEPT ![w] = [at |-> label, session |-> s, booking |-> b]]
  /\ UNCHANGED <<tables, now, stale, raced, overwritten>>

At(w, label) == worker[w].at = label

\* A commit overtakes what the others have read.
Overtake(w) == stale' = {v \in Workers \ {w} : worker[v] # Idle}

Finish(w) == worker' = [worker EXCEPT ![w] = Idle] /\ Overtake(w)

\* Sessions that go on while the charger is given to somebody else: by a worker
\* that is stale, or by one that does not look.
Overwrite(S) == overwritten' = overwritten \cup S

-----------------------------------------------------------------------------
(* StartSession                                                            *)

HasConflict(b) ==
  \/ Active # {}
  \/ \E c \in readModel \ {b} : EndAt[c] > now /\ StartAt[c] < StartAt[b]

\* The booking is known and the charger may be used at this time.
InWindow(b) ==
  /\ b \in readModel
  /\ now < StartAt[b] - EarlyEntry => ~HasConflict(b)
  /\ now <= EndAt[b] + LateBuffer
  /\ \A s \in Sessions : session[s].booking = b => session[s].status = "interrupted"

\* Mutant of IsFree: the look-up of an active session is left out.
IsFreeUnchecked == TRUE

IsFree == Active = {}

LoadStart(w, b) ==
  /\ b # NoBooking => InWindow(b)
  /\ IsFree
  /\ Load(w, "start", NoSession, b)

\* scheduledStopAt of a walk-in: the start of the next booking that is known.
ScheduledStop(b) ==
  LET next == {StartAt[c] : c \in {c \in readModel : StartAt[c] > now /\ StartAt[c] <= now + Lookahead}}
  IN IF b # NoBooking \/ next = {} THEN Never ELSE CHOOSE t \in next : \A u \in next : t <= u

\* booking_id is UNIQUE, also for a booking whose session was interrupted.
BookingIsNew(b) == b = NoBooking \/ \A s \in Sessions : session[s].booking # b

CommitStart(w, s) ==
  LET b == worker[w].booking IN
  /\ At(w, "start")
  /\ session[s] = NoRow
  /\ BookingIsNew(b)
  /\ session' = [session EXCEPT ![s] = [status |-> "active", booking |-> b, stopAt |-> ScheduledStop(b)]]
  /\ charger' = "occupied"
  /\ raced' = IF w \in stale THEN raced \cup {s} ELSE raced
  /\ Overwrite(IF w \in stale THEN Active ELSE {})
  /\ Finish(w)
  /\ UNCHANGED <<booking, readModel, synced, dropped, late, now>>

-----------------------------------------------------------------------------
(* StopSession and ForceStopJob                                            *)

\* Mutant of MayEnd: interrupt() does not look at the status.
MayEndAlways(status, how) == how = "stop" => status = "active"

\* stop() wants an active session, interrupt() one that is not terminal.
MayEnd(status, how) == status = "active" \/ (how = "interrupt" /\ status = "stopped")

LoadStop(w, s, how) ==
  /\ session[s].status # "none"
  /\ MayEnd(session[s].status, how)
  /\ Load(w, how, s, NoBooking)

Release == charger' = "available"

\* A session that was stopped before can be interrupted: its charger is given
\* back a second time.
CommitStop(w) ==
  LET s == worker[w].session IN
  /\ At(w, "stop") \/ At(w, "interrupt")
  /\ session' = [session EXCEPT ![s].status = IF At(w, "stop") THEN "stopped" ELSE "interrupted"]
  /\ Release
  /\ Overwrite(IF w \in stale \/ session[s].status = "stopped" THEN Active \ {s} ELSE {})
  /\ Finish(w)
  /\ UNCHANGED <<booking, readModel, synced, dropped, late, now, raced>>

\* The list of active sessions whose scheduledStopAt has passed.
LoadForceStop(w, s) ==
  /\ session[s].status = "active"
  /\ session[s].stopAt <= now
  /\ Load(w, "force", s, NoBooking)

CommitForceStop(w) ==
  LET s == worker[w].session IN
  /\ At(w, "force")
  /\ session' = [session EXCEPT ![s].status = "interrupted"]
  /\ charger' = "reserved"
  /\ Overwrite(IF w \in stale THEN Active \ {s} ELSE {})
  /\ Finish(w)
  /\ UNCHANGED <<booking, readModel, synced, dropped, late, now, raced>>

\* payment.completed finds the session stopped, and closes it.
LoadPayment(w, s) ==
  /\ session[s].status = "stopped"
  /\ Load(w, "bill", s, NoBooking)

CommitPayment(w) ==
  LET s == worker[w].session IN
  /\ At(w, "bill")
  /\ session' = [session EXCEPT ![s].status = "completed"]
  /\ Finish(w)
  /\ UNCHANGED <<charger, booking, readModel, synced, dropped, late, now, raced, overwritten>>

-----------------------------------------------------------------------------
(* Who reserves the charger                                                *)

\* Mutant of MayReserve: whatever the charger does.
MayReserveAlways(states) == TRUE

MayReserve(states) == charger \in states

\* ChargerReservationJob
LoadReservation(w) ==
  /\ \E b \in readModel : StartAt[b] <= now + EarlyEntry /\ EndAt[b] >= now
  /\ MayReserve({"available"})
  /\ Load(w, "reserve", NoSession, NoBooking)

\* booking.confirmed of a booking that starts soon; the charger may have no row yet.
LoadConfirmed(w, b) ==
  /\ booking[b] # "none"
  /\ StartAt[b] <= now + EarlyEntry
  /\ MayReserve({"none", "available"})
  /\ Load(w, "reserve", NoSession, NoBooking)

\* save() and upsert(): the row becomes what the worker made of its copy.
CommitReserve(w) ==
  /\ At(w, "reserve")
  /\ charger' = "reserved"
  /\ Overwrite(IF w \in stale THEN Active ELSE {})
  /\ Finish(w)
  /\ UNCHANGED <<session, booking, readModel, synced, dropped, late, now, raced>>

-----------------------------------------------------------------------------
(* The bookings and their read model                                       *)

SetBooking(b, from, to) ==
  /\ booking[b] = from
  /\ booking' = [booking EXCEPT ![b] = to]

Confirm(b) ==
  /\ SetBooking(b, "none", "confirmed")
  /\ UNCHANGED <<session, charger, readModel, synced, dropped, late, now, worker, stale, raced, overwritten>>

Cancel(b) ==
  /\ SetBooking(b, "confirmed", "cancelled")
  /\ UNCHANGED <<session, charger, readModel, synced, dropped, late, now, worker, stale, raced, overwritten>>

\* session.started, consumed some time after the session started.
AutoComplete(b) ==
  /\ \E s \in Sessions : session[s].booking = b
  /\ SetBooking(b, "confirmed", "completed")
  /\ UNCHANGED <<session, charger, readModel, synced, dropped, late, now, worker, stale, raced, overwritten>>

\* The charger is given back by one who does not look at it.
GiveAway ==
  /\ Release
  /\ Overwrite(Active)
  /\ stale' = {w \in Workers : worker[w] # Idle}
  /\ UNCHANGED <<session, readModel, synced, dropped, late, now, worker, raced>>

\* NoShowDetectionJob looks at the booking alone, and frees the charger.
NoShow(b) ==
  /\ now >= StartAt[b] + Grace
  /\ SetBooking(b, "confirmed", "no_show")
  /\ GiveAway

\* charger.status_changed: an operator has set the charger to available in
\* ev-infrastructure-service, which knows no sessions.
StatusChanged ==
  /\ GiveAway
  /\ UNCHANGED booking

\* booking.confirmed has a queue of its own and may come after the booking's end.
Sync(b) ==
  /\ booking[b] # "none" /\ b \notin synced
  /\ readModel' = readModel \cup {b}
  /\ synced' = synced \cup {b}
  /\ late' = IF b \in dropped THEN late \cup {b} ELSE late
  /\ UNCHANGED <<session, charger, booking, dropped, now, worker, stale, raced, overwritten>>

\* booking.cancelled and booking.no_show: releaseCharger(), then delete().
LoadDrop(w, b) ==
  /\ booking[b] \in {"cancelled", "no_show"} /\ b \notin dropped
  /\ Load(w, IF b \in readModel /\ MayReserve({"reserved"}) THEN "release" ELSE "drop", NoSession, b)

\* An error is caught, and the row goes all the same.
CommitRelease(w) ==
  /\ At(w, "release")
  /\ worker' = [worker EXCEPT ![w].at = "drop"]
  /\ \/ /\ Release
        /\ Overwrite(IF w \in stale THEN Active ELSE {})
        /\ Overtake(w)
     \/ UNCHANGED <<charger, overwritten, stale>>
  /\ UNCHANGED <<session, booking, readModel, synced, dropped, late, now, raced>>

Without(b) == readModel \ {b}

CommitDrop(w) ==
  /\ At(w, "drop")
  /\ readModel' = Without(worker[w].booking)
  /\ dropped' = dropped \cup {worker[w].booking}
  /\ Finish(w)
  /\ UNCHANGED <<session, charger, booking, synced, late, now, raced, overwritten>>

-----------------------------------------------------------------------------
\* The process dies, or the transaction is rolled back.
Dies(w) ==
  /\ worker[w] # Idle
  /\ worker' = [worker EXCEPT ![w] = Idle]
  /\ stale' = stale \ {w}
  /\ UNCHANGED <<tables, now, raced, overwritten>>

Tick ==
  /\ now < MaxTime
  /\ now' = now + 1
  /\ UNCHANGED <<tables, worker, stale, raced, overwritten>>

StartSession(w) ==
  \/ \E b \in Bookings \cup {NoBooking} : LoadStart(w, b)
  \/ \E s \in Sessions : CommitStart(w, s)

EndSession(w) ==
  \/ \E s \in Sessions :
       LoadStop(w, s, "stop") \/ LoadStop(w, s, "interrupt") \/ LoadForceStop(w, s) \/ LoadPayment(w, s)
  \/ CommitStop(w) \/ CommitForceStop(w) \/ CommitPayment(w)

Reserve(w) ==
  \/ LoadReservation(w)
  \/ \E b \in Bookings : LoadConfirmed(w, b)
  \/ CommitReserve(w)

Drop(w) ==
  \/ \E b \in Bookings : LoadDrop(w, b)
  \/ CommitRelease(w) \/ CommitDrop(w)

BookingMoves(b) == Confirm(b) \/ Cancel(b) \/ AutoComplete(b) \/ NoShow(b) \/ Sync(b)

Next ==
  \/ \E w \in Workers : StartSession(w) \/ EndSession(w) \/ Reserve(w) \/ Drop(w) \/ Dies(w)
  \/ \E b \in Bookings : BookingMoves(b)
  \/ StatusChanged
  \/ Tick

Spec == Init /\ [][Next]_vars
-----------------------------------------------------------------------------
(* Properties.                                                             *)

Statuses == {"none", "active", "stopped"} \cup Terminal

\* The tables have their types, a session is stopped at the start of a booking if
\* at any time, and a worker that will end a session has one.
TypeOK ==
  /\ session \in [Sessions -> [status : Statuses, booking : Bookings \cup {NoBooking},
                               stopAt : {StartAt[b] : b \in Bookings} \cup {Never}]]
  /\ charger \in {"none", "available", "occupied", "reserved"}
  /\ booking \in [Bookings -> {"none", "confirmed", "completed", "cancelled", "no_show"}]
  /\ readModel \subseteq synced /\ synced \subseteq Bookings /\ dropped \subseteq Bookings /\ late \subseteq Bookings
  /\ now \in 0 .. MaxTime
  /\ worker \in [Workers ->
       [at : {"start"}, session : {NoSession}, booking : Bookings \cup {NoBooking}]
         \cup [at : {"stop", "interrupt", "force", "bill"}, session : Sessions, booking : {NoBooking}]
         \cup [at : {"reserve"}, session : {NoSession}, booking : {NoBooking}]
         \cup [at : {"release", "drop"}, session : {NoSession}, booking : Bookings]
         \cup {Idle}]
  /\ stale \subseteq {w \in Workers : worker[w] # Idle}
  /\ raced \subseteq Sessions /\ overwritten \subseteq Sessions

\* Two sessions are active on the charger only if one of them was started by a
\* request whose look-up another commit had overtaken.
TwoActiveOnlyIfRaced ==
  \A s, t \in Active : s # t => s \in raced \/ t \in raced

\* The charger is occupied only while a session is active, whatever jobs and
\* consumers wrote over each other: it is never stuck with one that has ended.
OccupiedIsCharging == charger = "occupied" => Active # {}

\* While a session is active its charger is occupied, unless its start was
\* overtaken, or the row was given away by a worker with stale reads or by one of
\* the three that do not look: NoShowDetectionJob, the consumer of
\* charger.status_changed, and the interruption of a session that was stopped before.
ActiveIsOccupiedUnlessOverwritten ==
  \A s \in Active \ (overwritten \cup raced) : charger = "occupied"

\* A booking never gets two sessions, also when two starts pass the look-up.
BookingUsedOnce ==
  \A s, t \in Sessions : s # t /\ session[s].booking = session[t].booking => session[s].booking = NoBooking

\* What the documentation of the aggregate says: a session that has ended stays
\* as it is; only a worker with stale reads writes over it.
TerminalIsFinalUnlessStale ==
  [][\A s \in Sessions : session[s].status \in Terminal =>
       session'[s] = session[s] \/ \E w \in stale : worker[w].session = s /\ worker'[w] = Idle]_vars

\* Once the end of a booking has been consumed, no session starts with it, unless
\* the start had looked before or booking.confirmed was consumed after the end.
DroppedBookingIsRefused ==
  [][\A s \in Sessions : session[s] = NoRow /\ session'[s].booking \in dropped =>
       s \in raced' \/ session'[s].booking \in late]_vars
=============================================================================
