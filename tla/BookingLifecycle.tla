-------------------------- MODULE BookingLifecycle --------------------------
(***************************************************************************)
(* The bookings table of session-service and every transaction that writes *)
(* it: CreateBookingUseCase, the handlers that load one booking, change it *)
(* in memory and save it back (AutoConfirm, Cancel and SystemCancel,       *)
(* AutoComplete), and the two cron jobs that load a list of bookings and   *)
(* save them one by one (AutoExpireBookingsJob, NoShowDetectionJob).       *)
(*                                                                         *)
(* Only CreateBooking takes a lock.  The others read the row outside their *)
(* transaction (BookingRepository.findById uses this.repo), and save()     *)
(* writes the columns in which the object in memory differs from the row   *)
(* that TypeORM reads back first.  A handler is therefore three steps here *)
(* (load, compare, commit), and other handlers run between them.           *)
(*                                                                         *)
(* Time is a clock of coarse ticks; amounts are left out: an event carries *)
(* the deposit transaction it settles, or NoTx.  The audit rows of         *)
(* booking_status_history are left out, they repeat the outbox; so are the *)
(* queue entry a no-show notifies and the events about the charger, which  *)
(* no transaction on a booking reads.                                      *)
(***************************************************************************)
EXTENDS Naturals, Sequences

CONSTANTS
  Bookings,      \* booking requests; a request becomes at most one row
  Chargers,
  Workers,       \* requests, consumers and cron runs in flight at once
  Payments,      \* completed deposit transactions
  NoTx,          \* SQL NULL in deposit_transaction_id
  NoWorker,      \* the charger row is not locked
  NoBooking,     \* a worker has no booking in memory
  ChargerOf,     \* the charger a booking asks for
  StartOf,       \* its time range
  EndOf,
  PaidFor,       \* the booking a payment was made for
  Hold,          \* PAYMENT_HOLD_MINUTES, in ticks
  Grace,         \* NO_SHOW_GRACE_MINUTES, in ticks
  MaxNow         \* bound: the last tick of the clock

ASSUME ConstantsAssumption ==
  /\ ChargerOf \in [Bookings -> Chargers]
  /\ StartOf \in [Bookings -> Nat]
  /\ EndOf \in [Bookings -> Nat]
  /\ PaidFor \in [Payments -> Bookings]
  /\ Hold \in Nat /\ Grace \in Nat /\ MaxNow \in Nat
  /\ NoTx \notin Payments
  /\ NoWorker \notin Workers
  /\ NoBooking \notin Bookings

VARIABLES
  rows,       \* bookings: one row per request, "absent" until it is inserted
  tx,         \* what each worker holds in memory
  lock,       \* SELECT ... FOR UPDATE on charger_read_models
  available,  \* charger_state.availability = 'available'
  outbox,     \* event_outbox, in commit order, per booking
  now,        \* the clock
  raced       \* history: bookings written while another worker held a copy

vars == <<rows, tx, lock, available, outbox, now, raced>>

-----------------------------------------------------------------------------
(* The aggregate.                                                          *)

Active   == {"pending_payment", "confirmed"}
Terminal == {"completed", "cancelled", "expired", "no_show"}
Statuses == {"absent"} \cup Active \cup Terminal

Row == [status : Statuses, depositTx : Payments \cup {NoTx}, createdAt : Nat]

NoRow == [status |-> "absent", depositTx |-> NoTx, createdAt |-> 0]

\* Methods of the aggregate that change an existing booking.
Methods == {"confirmWithPayment", "cancel", "complete", "expire", "markNoShow"}

\* Mutant of AllowedFrom: cancel() forgets that no_show is final.
AllowedFromCancelsNoShow(m) ==
  CASE m = "confirmWithPayment" -> {"pending_payment"}
    [] m = "cancel"             -> Active \cup {"no_show"}
    [] m = "complete"           -> {"confirmed"}
    [] m = "expire"             -> {"pending_payment"}
    [] m = "markNoShow"         -> {"confirmed"}

\* The statuses from which a method does not throw.
AllowedFrom(m) ==
  CASE m = "confirmWithPayment" -> {"pending_payment"}
    [] m = "cancel"             -> Active
    [] m = "complete"           -> {"confirmed"}
    [] m = "expire"             -> {"pending_payment"}
    [] m = "markNoShow"         -> {"confirmed"}

StatusAfter(m) ==
  CASE m = "confirmWithPayment" -> "confirmed"
    [] m = "cancel"             -> "cancelled"
    [] m = "complete"           -> "completed"
    [] m = "expire"             -> "expired"
    [] m = "markNoShow"         -> "no_show"

\* The object in memory after the method ran on the row that was loaded.
Apply(m, row, p) ==
  [row EXCEPT !.status    = StatusAfter(m),
              !.depositTx = IF m = "confirmWithPayment" THEN p ELSE @]

Event(type, p) == [type |-> type, depositTx |-> p]

\* Mutant of EventOf: booking.cancelled does not carry the transaction either.
EventOfForgetsDeposit(m, obj) ==
  CASE m = "confirmWithPayment" -> Event("booking.confirmed", NoTx)
    [] m = "cancel"             -> Event("booking.cancelled", NoTx)
    [] m = "complete"           -> Event("booking.completed", obj.depositTx)
    [] m = "expire"             -> Event("booking.expired", NoTx)
    [] m = "markNoShow"         -> Event("booking.no_show", obj.depositTx)

\* booking.confirmed and booking.expired do not carry the transaction; the
\* other events carry the one the object in memory has.
EventOf(m, obj) ==
  CASE m = "confirmWithPayment" -> Event("booking.confirmed", NoTx)
    [] m = "cancel"             -> Event("booking.cancelled", obj.depositTx)
    [] m = "complete"           -> Event("booking.completed", obj.depositTx)
    [] m = "expire"             -> Event("booking.expired", NoTx)
    [] m = "markNoShow"         -> Event("booking.no_show", obj.depositTx)

Overlaps(b1, b2) ==
  /\ ChargerOf[b1] = ChargerOf[b2]
  /\ StartOf[b1] < EndOf[b2]
  /\ EndOf[b1] > StartOf[b2]

-----------------------------------------------------------------------------
(* What a worker holds.  todo is what is left of a job's list; snap has    *)
(* the rows it loaded; dirty tells the columns save() found to differ.     *)

Columns == {"status", "depositTx"}

Differs(obj, row) ==
  (IF obj.status # row.status THEN {"status"} ELSE {}) \cup
  (IF obj.depositTx # row.depositTx THEN {"depositTx"} ELSE {})

Phases == {"idle", "validated", "locked", "listed", "loaded", "compared"}

Idle == [phase |-> "idle", method |-> "cancel", cur |-> NoBooking, pay |-> NoTx,
         todo |-> {}, snap |-> [b \in Bookings |-> NoRow], dirty |-> {}]

IsIdle(w) == tx[w].phase = "idle"

\* Bookings of which w holds a copy that it will still save.
Held(w) ==
  tx[w].todo \cup
    (IF tx[w].phase \in {"loaded", "compared"} THEN {tx[w].cur} ELSE {})

Copy(w) == Apply(tx[w].method, tx[w].snap[tx[w].cur], tx[w].pay)

Init ==
  /\ rows = [b \in Bookings |-> NoRow]
  /\ tx = [w \in Workers |-> Idle]
  /\ lock = [c \in Chargers |-> NoWorker]
  /\ available \in [Chargers -> BOOLEAN]
  /\ outbox = [b \in Bookings |-> << >>]
  /\ now = 0
  /\ raced = {}

-----------------------------------------------------------------------------
(* CreateBookingUseCase.  The checks on the past and on charger_state run  *)
(* before the transaction, so they may be stale when the row is inserted.  *)

ValidateRequest(w, b) ==
  /\ IsIdle(w)
  /\ rows[b] = NoRow
  /\ \A v \in Workers : tx[v].cur # b
  /\ StartOf[b] >= now
  /\ available[ChargerOf[b]]
  /\ tx' = [tx EXCEPT ![w] = [Idle EXCEPT !.phase = "validated", !.cur = b]]
  /\ UNCHANGED <<rows, lock, available, outbox, now, raced>>

\* Mutant of HasOverlap: a slot that is still being paid for counts as free.
HasOverlapConfirmedOnly(b) ==
  \E other \in Bookings :
    /\ other # b
    /\ rows[other].status = "confirmed"
    /\ Overlaps(b, other)

HasOverlap(b) ==
  \E other \in Bookings :
    /\ other # b
    /\ rows[other].status \in Active
    /\ Overlaps(b, other)

\* The lock is granted when the charger row is free; an overlap throws, which
\* rolls the transaction back.
LockCharger(w) ==
  LET b == tx[w].cur
      c == ChargerOf[b]
  IN  /\ tx[w].phase = "validated"
      /\ lock[c] = NoWorker
      /\ IF HasOverlap(b)
           THEN /\ tx' = [tx EXCEPT ![w] = Idle]
                /\ UNCHANGED lock
           ELSE /\ tx' = [tx EXCEPT ![w] = [@ EXCEPT !.phase = "locked"]]
                /\ lock' = [lock EXCEPT ![c] = w]
      /\ UNCHANGED <<rows, available, outbox, now, raced>>

InsertBooking(w) ==
  LET b == tx[w].cur
  IN  /\ tx[w].phase = "locked"
      /\ rows' = [rows EXCEPT ![b] = [status |-> "pending_payment",
                                      depositTx |-> NoTx, createdAt |-> now]]
      /\ outbox' = [outbox EXCEPT ![b] = @ \o <<Event("session.booking_created", NoTx),
                                                Event("session.reserved", NoTx)>>]
      /\ lock' = [lock EXCEPT ![ChargerOf[b]] = NoWorker]
      /\ tx' = [tx EXCEPT ![w] = Idle]
      /\ UNCHANGED <<available, now, raced>>

-----------------------------------------------------------------------------
(* Handlers that change one booking: load it and run the method on it.  A  *)
(* method that throws ends the handler without a write.                    *)

Load(w, m, b, p) ==
  /\ IsIdle(w)
  /\ rows[b].status \in AllowedFrom(m)
  /\ tx' = [tx EXCEPT ![w] = [Idle EXCEPT !.phase = "loaded", !.method = m,
                                          !.cur = b, !.pay = p,
                                          !.snap[b] = rows[b]]]
  /\ UNCHANGED <<rows, lock, available, outbox, now, raced>>

\* payment.completed arrives, perhaps late and perhaps again.
AutoConfirmBooking(w, p) == Load(w, "confirmWithPayment", PaidFor[p], p)

\* The user, staff, a failed deduction or a closed station cancels.
CancelBooking(w, b) == Load(w, "cancel", b, NoTx)

\* session.started arrives.
AutoCompleteBooking(w, b) == Load(w, "complete", b, NoTx)

(* The jobs load the rows that are due, once per run.                      *)

\* Mutants: the queries compare with < where the code has <=.
PaymentOverdueStrict(b) ==
  rows[b].status = "pending_payment" /\ rows[b].createdAt + Hold < now

NotShownUpStrict(b) ==
  rows[b].status = "confirmed" /\ StartOf[b] + Grace < now

PaymentOverdue(b) ==
  rows[b].status = "pending_payment" /\ rows[b].createdAt + Hold <= now

NotShownUp(b) ==
  rows[b].status = "confirmed" /\ StartOf[b] + Grace <= now

ListDue(w, m, due) ==
  /\ IsIdle(w)
  /\ due # {}
  /\ tx' = [tx EXCEPT ![w] =
             [Idle EXCEPT !.phase = "listed", !.method = m, !.todo = due,
                          !.snap = [b \in Bookings |->
                                      IF b \in due THEN rows[b] ELSE NoRow]]]
  /\ UNCHANGED <<rows, lock, available, outbox, now, raced>>

AutoExpireBookings(w) ==
  ListDue(w, "expire", {b \in Bookings : PaymentOverdue(b)})

NoShowDetection(w) ==
  ListDue(w, "markNoShow", {b \in Bookings : NotShownUp(b)})

TakeNext(w, b) ==
  /\ tx[w].phase = "listed"
  /\ b \in tx[w].todo
  /\ tx' = [tx EXCEPT ![w] = [@ EXCEPT !.phase = "loaded", !.cur = b,
                                        !.todo = tx[w].todo \ {b}]]
  /\ UNCHANGED <<rows, lock, available, outbox, now, raced>>

-----------------------------------------------------------------------------
(* BookingRepository.save and the commit of the transaction.               *)

Compare(w) ==
  /\ tx[w].phase = "loaded"
  /\ tx' = [tx EXCEPT ![w] = [@ EXCEPT !.phase = "compared",
                                        !.dirty = Differs(Copy(w), rows[tx[w].cur])]]
  /\ UNCHANGED <<rows, lock, available, outbox, now, raced>>

\* save() writes the columns of the object that differ from the row it read.
Saved(obj, dirty, row) ==
  [row EXCEPT !.status    = IF "status" \in dirty THEN obj.status ELSE @,
              !.depositTx = IF "depositTx" \in dirty THEN obj.depositTx ELSE @]

AfterCommit(w) ==
  IF tx[w].todo = {}
    THEN Idle
    ELSE [tx[w] EXCEPT !.phase = "listed", !.cur = NoBooking, !.dirty = {},
                       !.snap[tx[w].cur] = NoRow]

\* NoShowDetectionJob also frees the charger in the transaction of the save.
Commit(w) ==
  LET b == tx[w].cur
      m == tx[w].method
      obj == Copy(w)
  IN  /\ tx[w].phase = "compared"
      /\ rows' = [rows EXCEPT ![b] = Saved(obj, tx[w].dirty, @)]
      /\ outbox' = [outbox EXCEPT ![b] = Append(@, EventOf(m, obj))]
      /\ available' = IF m = "markNoShow"
                        THEN [available EXCEPT ![ChargerOf[b]] = TRUE]
                        ELSE available
      /\ raced' = IF \E v \in Workers \ {w} : b \in Held(v)
                    THEN raced \cup {b} ELSE raced
      /\ tx' = [tx EXCEPT ![w] = AfterCommit(w)]
      /\ UNCHANGED <<lock, now>>

\* A database error or the end of the process rolls the transaction back; a
\* job run gives up the rest of its list.
Abort(w) ==
  /\ ~IsIdle(w)
  /\ tx' = [tx EXCEPT ![w] = Idle]
  /\ lock' = [c \in Chargers |-> IF lock[c] = w THEN NoWorker ELSE lock[c]]
  /\ UNCHANGED <<rows, available, outbox, now, raced>>

-----------------------------------------------------------------------------
(* The rest of the service: time, and the state of the chargers.           *)

Tick ==
  /\ now < MaxNow
  /\ now' = now + 1
  /\ UNCHANGED <<rows, tx, lock, available, outbox, raced>>

ChargerChanges(c) ==
  /\ available' = [available EXCEPT ![c] = ~@]
  /\ UNCHANGED <<rows, tx, lock, outbox, now, raced>>

Create(w) == (\E b \in Bookings : ValidateRequest(w, b)) \/ LockCharger(w) \/ InsertBooking(w)

Handle(w) ==
  \/ \E p \in Payments : AutoConfirmBooking(w, p)
  \/ \E b \in Bookings : CancelBooking(w, b)
  \/ \E b \in Bookings : AutoCompleteBooking(w, b)

RunJob(w) ==
  \/ AutoExpireBookings(w)
  \/ NoShowDetection(w)
  \/ \E b \in Bookings : TakeNext(w, b)

Save(w) == Compare(w) \/ Commit(w)

Next ==
  \/ \E w \in Workers : Create(w) \/ Handle(w) \/ RunJob(w) \/ Save(w) \/ Abort(w)
  \/ \E c \in Chargers : ChargerChanges(c)
  \/ Tick

Spec == Init /\ [][Next]_vars

\* The cron starts each job again and again, whatever else is in flight, and a
\* step that is tried again and again is not rolled back every time.
Fairness ==
  /\ SF_vars(\E w \in Workers : AutoExpireBookings(w))
  /\ SF_vars(\E w \in Workers : NoShowDetection(w))
  /\ \A w \in Workers :
       /\ WF_vars(LockCharger(w) \/ InsertBooking(w))
       /\ SF_vars(\E b \in Bookings : TakeNext(w, b))
       /\ SF_vars(Compare(w))
       /\ SF_vars(Commit(w))

FairSpec == Spec /\ Fairness

-----------------------------------------------------------------------------
(* Invariants.                                                             *)

Events == [type : {"session.booking_created", "session.reserved",
                   "booking.confirmed", "booking.cancelled", "booking.completed",
                   "booking.expired", "booking.no_show"},
           depositTx : Payments \cup {NoTx}]

WorkerStates == [phase : Phases, method : Methods, cur : Bookings \cup {NoBooking},
                 pay : Payments \cup {NoTx}, todo : SUBSET Bookings,
                 snap : [Bookings -> Row],
                 dirty : SUBSET Columns]

\* The tables and the objects in memory have the types their columns have.
TypeOK ==
  /\ rows \in [Bookings -> Row]
  /\ tx \in [Workers -> WorkerStates]
  /\ \A w \in Workers : tx[w].phase \notin {"idle", "listed"} => tx[w].cur \in Bookings
  /\ lock \in [Chargers -> Workers \cup {NoWorker}]
  /\ available \in [Chargers -> BOOLEAN]
  /\ outbox \in [Bookings -> Seq(Events)]
  /\ now \in 0 .. MaxNow
  /\ raced \subseteq Bookings

DoubleBooked(b1, b2) ==
  /\ b1 # b2
  /\ Overlaps(b1, b2)
  /\ rows[b1].status \in Active
  /\ rows[b2].status \in Active

\* Two active bookings never overlap on one charger.  The overlap check of
\* CreateBooking is meant to ensure it, but a handler that saves a stale copy
\* can make a cancelled or expired booking active again.
NoDoubleBooking == \A b1, b2 \in Bookings : ~DoubleBooked(b1, b2)

\* The lock and the overlap check do prevent double booking as long as no
\* handler saved a booking of which another handler still held a copy: one of
\* two overlapping bookings was written that way.
DoubleBookingOnlyIfRaced ==
  \A b1, b2 \in Bookings : DoubleBooked(b1, b2) => b1 \in raced \/ b2 \in raced

EventFor(row) ==
  CASE row.status = "pending_payment" -> Event("session.reserved", NoTx)
    [] row.status = "confirmed"       -> Event("booking.confirmed", NoTx)
    [] row.status = "cancelled"       -> Event("booking.cancelled", row.depositTx)
    [] row.status = "completed"       -> Event("booking.completed", row.depositTx)
    [] row.status = "expired"         -> Event("booking.expired", NoTx)
    [] row.status = "no_show"         -> Event("booking.no_show", row.depositTx)

\* The last event other services receive about a booking tells what its row
\* says, with the deposit the row holds, unless the booking was raced.
OutboxTellsTheRow ==
  \A b \in Bookings \ raced :
    IF rows[b].status = "absent"
      THEN outbox[b] = << >>
      ELSE outbox[b] # << >> /\ outbox[b][Len(outbox[b])] = EventFor(rows[b])

FinalEvents == {"booking.cancelled", "booking.completed", "booking.expired", "booking.no_show"}

\* The end of a booking is announced at most once, so its deposit is settled at
\* most once: refund after cancel, refund less penalty after no-show, or
\* reconciliation after completion.
EndsAtMostOnce ==
  \A b \in Bookings \ raced : \A i, j \in DOMAIN outbox[b] :
    outbox[b][i].type \in FinalEvents /\ outbox[b][j].type \in FinalEvents => i = j

Successors(s) ==
  CASE s = "absent"          -> {"pending_payment"}
    [] s = "pending_payment" -> {"confirmed", "cancelled", "expired"}
    [] s = "confirmed"       -> {"completed", "cancelled", "no_show"}
    [] OTHER                 -> {}

\* The status of a row moves only along the state machine in the header of the
\* aggregate, and never leaves a terminal status, unless the booking is raced.
StatusFollowsStateMachine ==
  [][\A b \in Bookings \ raced' :
       rows'[b] = rows[b] \/ rows'[b].status \in Successors(rows[b].status)]_vars

\* While a worker is about to insert a booking it holds the lock of the
\* charger, and no other active booking overlaps it but a raced one: what the
\* overlap check saw still holds when the row is inserted.
CheckedSlotStaysFree ==
  \A w \in Workers : tx[w].phase = "locked" =>
    /\ lock[ChargerOf[tx[w].cur]] = w
    /\ \A b \in Bookings \ raced :
         b # tx[w].cur /\ rows[b].status \in Active => ~Overlaps(tx[w].cur, b)

-----------------------------------------------------------------------------
(* Liveness, under FairSpec.                                               *)

\* A booking whose payment hold ran out does not keep its slot for ever: the
\* expiry job or another handler takes it out of pending_payment.
UnpaidSlotIsReleased ==
  \A b \in Bookings :
    rows[b].status = "pending_payment" /\ rows[b].createdAt + Hold <= now
      ~> rows[b].status # "pending_payment"

\* A confirmed booking whose driver does not show up does not stay confirmed.
NoShowSlotIsReleased ==
  \A b \in Bookings :
    rows[b].status = "confirmed" /\ StartOf[b] + Grace <= now
      ~> rows[b].status # "confirmed"
=============================================================================
