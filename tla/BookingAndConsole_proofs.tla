----------------------- MODULE BookingAndConsole_proofs -----------------------
(***************************************************************************)
(* Proofs about the bookings and about the web console that staff works    *)
(* them with.  Of BookingLifecycle, for any set of bookings, chargers and  *)
(* workers: first the types, then an inductive invariant that says what    *)
(* the copies in memory are worth, then the properties that follow.  Of    *)
(* the console, one part after the other: the tokens its tabs share        *)
(* (Console), the roles of a user (UserDirectory), the stations            *)
(* (StationCatalog) and their upkeep (Upkeep), for any number of tabs,     *)
(* pages, requests, stations and events.                                   *)
(***************************************************************************)
EXTENDS MCBookingAndConsole, FiniteSetTheorems, TLAPS

-----------------------------------------------------------------------------
(* The aggregate: facts about its operators.                               *)

\* The initial values have the types their variables have.
LEMMA InitialTypes == NoRow \in Row /\ Idle \in WorkerStates
  BY DEF NoRow, Row, Statuses, Idle, WorkerStates, Phases, Methods, Columns

\* Running a method on a row yields a row.
LEMMA ApplyType ==
  ASSUME NEW m \in Methods, NEW row \in Row, NEW p \in Payments \cup {NoTx}
  PROVE  Apply(m, row, p) \in Row
  BY DEF Methods, Row, Apply, StatusAfter, Statuses, Active, Terminal

\* Every method announces an event of the outbox.
LEMMA EventOfType ==
  ASSUME NEW m \in Methods, NEW row \in Row
  PROVE  EventOf(m, row) \in Events
  BY DEF Methods, Row, EventOf, Event, Events

\* What is loaded and compared has the type of the worker's memory.
LEMMA DiffersType ==
  ASSUME NEW obj, NEW row
  PROVE  Differs(obj, row) \in SUBSET Columns
  BY DEF Differs, Columns

\* Rows with the same columns are the same row.
LEMMA RowsEqual ==
  ASSUME NEW r \in Row, NEW s \in Row, r.status = s.status, r.depositTx = s.depositTx,
         r.createdAt = s.createdAt
  PROVE  r = s
  BY DEF Row

\* Saving a row of the table yields a row of the table.
LEMMA SavedType ==
  ASSUME NEW obj \in Row, NEW row \in Row,
         NEW dirty \in SUBSET Columns
  PROVE  Saved(obj, dirty, row) \in Row
  BY DEF Saved, Row

-----------------------------------------------------------------------------
(* Types.                                                                  *)

\* The initial state has the right types.
LEMMA InitTypeOK == Init => TypeOK
  BY ConstantsAssumption, InitialTypes
     DEF Init, TypeOK, Idle, Events

WorkerOK(t) ==
  t \in WorkerStates /\ (t.phase \notin {"idle", "listed"} => t.cur \in Bookings)

\* Giving one worker a well-typed memory keeps the memories well typed.
LEMMA WorkerUpdate ==
  ASSUME TypeOK, NEW w \in Workers, NEW t, WorkerOK(t), tx' = [tx EXCEPT ![w] = t]
  PROVE  /\ tx' \in [Workers -> WorkerStates]
         /\ \A v \in Workers : tx'[v].phase \notin {"idle", "listed"} => tx'[v].cur \in Bookings
  BY DEF TypeOK, WorkerOK

\* An idle worker is well typed.
LEMMA IdleOK == WorkerOK(Idle)
  BY InitialTypes DEF WorkerOK, Idle

\* Loading one booking keeps the types.
LEMMA LoadTypeOK ==
  ASSUME TypeOK, NEW w \in Workers, NEW m \in Methods, NEW b \in Bookings,
         NEW p \in Payments \cup {NoTx}, Load(w, m, b, p)
  PROVE  TypeOK'
<1>1. tx' \in [Workers -> WorkerStates]
  BY InitialTypes DEF Load, TypeOK, WorkerStates, Phases, Idle
<1>2. \A v \in Workers : tx'[v].phase \notin {"idle", "listed"} => tx'[v].cur \in Bookings
  BY InitialTypes DEF Load, TypeOK, WorkerStates, Phases, Idle
<1> QED BY <1>1, <1>2 DEF Load, TypeOK

\* Listing the bookings that are due keeps the types.
LEMMA ListDueTypeOK ==
  ASSUME TypeOK, NEW w \in Workers, NEW m \in Methods, NEW due \in SUBSET Bookings,
         ListDue(w, m, due)
  PROVE  TypeOK'
<1>1. tx' \in [Workers -> WorkerStates]
  BY InitialTypes DEF ListDue, TypeOK, WorkerStates, Phases, Idle
<1>2. \A v \in Workers : tx'[v].phase \notin {"idle", "listed"} => tx'[v].cur \in Bookings
  BY InitialTypes DEF ListDue, TypeOK, WorkerStates, Phases, Idle
<1> QED BY <1>1, <1>2 DEF ListDue, TypeOK

\* Every step keeps the types.
LEMMA NextTypeOK == TypeOK /\ [Next]_vars => TypeOK'
<1> SUFFICES ASSUME TypeOK, [Next]_vars PROVE TypeOK'
  OBVIOUS
<1> USE ConstantsAssumption
<1>1. ASSUME NEW w \in Workers, NEW b \in Bookings, ValidateRequest(w, b) PROVE TypeOK'
  BY <1>1, InitialTypes DEF ValidateRequest, TypeOK, WorkerStates, Phases, Idle
<1>2. ASSUME NEW w \in Workers, LockCharger(w) PROVE TypeOK'
  <2> DEFINE b == tx[w].cur
  <2>1. b \in Bookings /\ ChargerOf[b] \in Chargers /\ tx[w] \in WorkerStates
    BY <1>2 DEF LockCharger, TypeOK
  <2>2. \/ tx' = [tx EXCEPT ![w] = Idle] /\ lock' = lock
        \/ /\ tx' = [tx EXCEPT ![w] = [tx[w] EXCEPT !.phase = "locked"]]
           /\ lock' = [lock EXCEPT ![ChargerOf[b]] = w]
    BY <1>2, <2>1 DEF LockCharger, TypeOK
  <2>3. WorkerOK([tx[w] EXCEPT !.phase = "locked"])
    BY <2>1 DEF WorkerOK, WorkerStates, Phases
  <2>4. lock' \in [Chargers -> Workers \cup {NoWorker}]
    BY <2>1, <2>2 DEF TypeOK
  <2> QED BY <1>2, <2>2, <2>3, <2>4, IdleOK, WorkerUpdate DEF LockCharger, TypeOK
<1>3. ASSUME NEW w \in Workers, InsertBooking(w) PROVE TypeOK'
  <2> DEFINE b == tx[w].cur
  <2>0. b \in Bookings /\ now \in Nat
    <3>1. b \in Bookings
      BY <1>3 DEF InsertBooking, TypeOK
    <3>2. now \in Nat
      BY DEF TypeOK
    <3> QED BY <3>1, <3>2
  <2>1. rows' \in [Bookings -> Row]
    <3>1. [status |-> "pending_payment", depositTx |-> NoTx, createdAt |-> now] \in Row
      BY <2>0 DEF Row, Statuses, Active
    <3> QED BY <1>3, <2>0, <3>1 DEF InsertBooking, TypeOK
  <2>2. outbox' \in [Bookings -> Seq(Events)]
    <3>1. <<Event("session.booking_created", NoTx), Event("session.reserved", NoTx)>>
            \in Seq(Events)
      BY DEF Event, Events
    <3>2. outbox[b] \o <<Event("session.booking_created", NoTx), Event("session.reserved", NoTx)>>
            \in Seq(Events)
      BY <2>0, <3>1 DEF TypeOK
    <3> QED BY <1>3, <2>0, <3>2 DEF InsertBooking, TypeOK
  <2> QED BY <1>3, <2>1, <2>2, IdleOK, WorkerUpdate DEF InsertBooking, TypeOK
<1>4. ASSUME NEW w \in Workers, NEW p \in Payments, AutoConfirmBooking(w, p) PROVE TypeOK'
  BY <1>4, LoadTypeOK DEF AutoConfirmBooking, Methods
<1>5. ASSUME NEW w \in Workers, NEW b \in Bookings, CancelBooking(w, b) PROVE TypeOK'
  BY <1>5, LoadTypeOK DEF CancelBooking, Methods
<1>6. ASSUME NEW w \in Workers, NEW b \in Bookings, AutoCompleteBooking(w, b) PROVE TypeOK'
  BY <1>6, LoadTypeOK DEF AutoCompleteBooking, Methods
<1>7. ASSUME NEW w \in Workers, AutoExpireBookings(w) PROVE TypeOK'
  BY <1>7, ListDueTypeOK DEF AutoExpireBookings, Methods
<1>8. ASSUME NEW w \in Workers, NoShowDetection(w) PROVE TypeOK'
  BY <1>8, ListDueTypeOK DEF NoShowDetection, Methods
<1>9. ASSUME NEW w \in Workers, NEW b \in Bookings, TakeNext(w, b) PROVE TypeOK'
  <2> DEFINE t == [tx[w] EXCEPT !.phase = "loaded", !.cur = b, !.todo = tx[w].todo \ {b}]
  <2>1. tx[w] \in WorkerStates /\ tx' = [tx EXCEPT ![w] = t]
    <3>1. tx[w] \in WorkerStates
      BY DEF TypeOK
    <3>2. tx' = [tx EXCEPT ![w] = t]
      BY <1>9 DEF TakeNext
    <3> QED BY <3>1, <3>2
  <2>2. WorkerOK(t)
    BY <2>1 DEF WorkerOK, WorkerStates, Phases
  <2> QED BY <1>9, <2>1, <2>2, WorkerUpdate DEF TakeNext, TypeOK
<1>10. ASSUME NEW w \in Workers, Compare(w) PROVE TypeOK'
  <2> DEFINE d == Differs(Copy(w), rows[tx[w].cur])
             t == [tx[w] EXCEPT !.phase = "compared", !.dirty = d]
  <2>1. tx[w] \in WorkerStates /\ tx[w].cur \in Bookings /\ tx' = [tx EXCEPT ![w] = t]
    BY <1>10 DEF Compare, TypeOK
  <2>2. d \in SUBSET Columns
    BY DiffersType
  <2>3. WorkerOK(t)
    <3> HIDE DEF d
    <3> QED BY <2>1, <2>2 DEF WorkerOK, WorkerStates, Phases
  <2> QED BY <1>10, <2>1, <2>3, WorkerUpdate DEF Compare, TypeOK
<1>11. ASSUME NEW w \in Workers, Commit(w) PROVE TypeOK'
  <2> DEFINE b == tx[w].cur
  <2>1. b \in Bookings /\ tx[w] \in WorkerStates
    BY <1>11 DEF Commit, TypeOK
  <2>2. tx[w].method \in Methods /\ tx[w].snap[b] \in Row /\ Copy(w) \in Row
    BY <2>1, ApplyType DEF WorkerStates, Copy
  <2>3. rows' \in [Bookings -> Row]
    BY <1>11, <2>1, <2>2, SavedType DEF Commit, TypeOK, WorkerStates
  <2>4. outbox' \in [Bookings -> Seq(Events)]
    BY <1>11, <2>1, <2>2, EventOfType DEF Commit, TypeOK
  <2>5. AfterCommit(w) \in WorkerStates
    BY <2>1, InitialTypes DEF AfterCommit, WorkerStates, Phases
  <2>6. AfterCommit(w).phase \in {"idle", "listed"}
    BY <2>1 DEF AfterCommit, WorkerStates, Idle
  <2>7. available' \in [Chargers -> BOOLEAN] /\ raced' \subseteq Bookings
    BY <1>11, <2>1 DEF Commit, TypeOK
  <2> QED BY <1>11, <2>3, <2>4, <2>5, <2>6, <2>7 DEF Commit, TypeOK
<1>12. ASSUME NEW w \in Workers, Abort(w) PROVE TypeOK'
  BY <1>12, InitialTypes DEF Abort, TypeOK, Idle
<1>13. ASSUME NEW c \in Chargers, ChargerChanges(c) PROVE TypeOK'
  BY <1>13 DEF ChargerChanges, TypeOK
<1>14. CASE Tick
  BY <1>14 DEF Tick, TypeOK
<1>15. CASE UNCHANGED vars
  BY <1>15 DEF vars, TypeOK
<1> QED
  BY <1>1, <1>2, <1>3, <1>4, <1>5, <1>6, <1>7, <1>8, <1>9, <1>10, <1>11, <1>12,
     <1>13, <1>14, <1>15
     DEF Next, Create, Handle, RunJob, Save

\* The tables and the objects in memory always have the types of TypeOK.
THEOREM TypeCorrect == Spec => []TypeOK
  BY InitTypeOK, NextTypeOK, PTL DEF Spec

-----------------------------------------------------------------------------
(* What the copies in memory are worth.  A worker saves what it loaded     *)
(* earlier, so the properties about rows hold because a copy of a booking  *)
(* that is not raced still equals its row, and because the request a       *)
(* worker is inserting has no row yet.                                     *)

Creating(w) == tx[w].phase \in {"validated", "locked"}

CopyOK(w) ==
  /\ tx[w].phase \in {"idle", "validated", "locked"} => tx[w].todo = {}
  /\ tx[w].cur \notin tx[w].todo
  /\ \A b \in Held(w) : rows[b].status # "absent"
  /\ \A b \in Held(w) \ raced :
       tx[w].snap[b] = rows[b] /\ rows[b].status \in AllowedFrom(tx[w].method)
  /\ tx[w].phase = "compared" /\ tx[w].cur \notin raced =>
       tx[w].dirty = Differs(Copy(w), rows[tx[w].cur])
  /\ Creating(w) => rows[tx[w].cur] = NoRow

RequestsDistinct ==
  \A v, w \in Workers : v # w /\ Creating(v) /\ Creating(w) => tx[v].cur # tx[w].cur

RacedExist == \A b \in raced : rows[b].status # "absent"

CopiesOK == (\A w \in Workers : CopyOK(w)) /\ RequestsDistinct /\ RacedExist

MemoryInv == TypeOK /\ CopiesOK

\* A method runs from an active status, moves along the state machine, and
\* only a payment leads to an active status.
LEMMA MethodFacts ==
  ASSUME NEW m \in Methods, NEW s, s \in AllowedFrom(m)
  PROVE  /\ s \in Active
         /\ StatusAfter(m) \in Successors(s)
         /\ StatusAfter(m) # "absent"
         /\ StatusAfter(m) \in Active => m = "confirmWithPayment"
  BY DEF Methods, AllowedFrom, StatusAfter, Active, Successors

\* What a worker holds are bookings.
LEMMA HeldType ==
  ASSUME TypeOK, NEW w \in Workers
  PROVE  Held(w) \subseteq Bookings
  BY DEF TypeOK, WorkerStates, Held

\* CopyOK of a worker depends on its memory, the rows and the raced bookings.
LEMMA CopyUntouched ==
  ASSUME NEW v \in Workers, CopyOK(v), tx'[v] = tx[v], rows' = rows, raced' = raced
  PROVE  CopyOK(v)'
  BY DEF CopyOK, Held, Copy, Creating

\* An idle worker holds nothing.
LEMMA CopyOfIdle ==
  ASSUME NEW w \in Workers, tx'[w] = Idle
  PROVE  CopyOK(w)' /\ ~Creating(w)'
  BY DEF CopyOK, Held, Idle, Creating

\* A step of one worker that writes no row keeps the invariant if it leaves
\* that worker's own copies in order and asks for no booking twice.
LEMMA QuietStep ==
  ASSUME MemoryInv, NEW w \in Workers, NEW t, tx' = [tx EXCEPT ![w] = t],
         rows' = rows, raced' = raced, CopyOK(w)',
         \A v \in Workers \ {w} : Creating(v) /\ Creating(w)' => tx[v].cur # t.cur
  PROVE  CopiesOK'
<1>1. tx'[w] = t /\ \A v \in Workers \ {w} : tx'[v] = tx[v]
  BY DEF MemoryInv, TypeOK
<1>2. \A v \in Workers : CopyOK(v)'
  BY <1>1, CopyUntouched DEF MemoryInv, CopiesOK
<1>3. RequestsDistinct'
  BY <1>1 DEF MemoryInv, CopiesOK, RequestsDistinct, Creating
<1> QED BY <1>2, <1>3 DEF MemoryInv, CopiesOK, RacedExist

\* Becoming idle keeps the invariant.
LEMMA BecomesIdle ==
  ASSUME MemoryInv, NEW w \in Workers, tx' = [tx EXCEPT ![w] = Idle],
         rows' = rows, raced' = raced
  PROVE  CopiesOK'
<1>1. tx'[w] = Idle
  BY DEF MemoryInv, TypeOK
<1> QED BY <1>1, CopyOfIdle, QuietStep

\* Loading one booking gives the worker a fresh copy of it.
LEMMA LoadCopies ==
  ASSUME MemoryInv, NEW w \in Workers, NEW m \in Methods, NEW b \in Bookings, NEW p,
         Load(w, m, b, p)
  PROVE  CopiesOK'
<1> DEFINE t == [Idle EXCEPT !.phase = "loaded", !.method = m, !.cur = b, !.pay = p,
                             !.snap[b] = rows[b]]
<1>1. tx' = [tx EXCEPT ![w] = t] /\ tx'[w] = t
  BY DEF Load, MemoryInv, TypeOK
<1>2. t.phase = "loaded" /\ t.method = m /\ t.cur = b /\ t.todo = {} /\ t.snap[b] = rows[b]
  BY DEF Idle
<1>3. rows' = rows /\ raced' = raced /\ rows[b].status \in AllowedFrom(m)
  BY DEF Load
<1>4. rows[b].status # "absent"
  BY <1>3, MethodFacts DEF Active
<1>5. CopyOK(w)' /\ ~Creating(w)'
  <2> HIDE DEF t
  <2> QED BY <1>1, <1>2, <1>3, <1>4 DEF CopyOK, Held, Creating
<1> QED
  <2> HIDE DEF t
  <2> QED BY <1>1, <1>3, <1>5, QuietStep

\* Listing bookings gives the worker fresh copies of them.
LEMMA ListCopies ==
  ASSUME MemoryInv, NEW w \in Workers, NEW m \in Methods, NEW due \in SUBSET Bookings,
         ListDue(w, m, due), \A b \in due : rows[b].status \in AllowedFrom(m)
  PROVE  CopiesOK'
<1> DEFINE t == [Idle EXCEPT !.phase = "listed", !.method = m, !.todo = due,
                             !.snap = [b \in Bookings |->
                                         IF b \in due THEN rows[b] ELSE NoRow]]
<1>1. tx' = [tx EXCEPT ![w] = t] /\ tx'[w] = t
  BY DEF ListDue, MemoryInv, TypeOK
<1>2. /\ t.phase = "listed" /\ t.method = m /\ t.cur = NoBooking /\ t.todo = due
      /\ \A b \in due : t.snap[b] = rows[b]
  BY DEF Idle
<1>3. rows' = rows /\ raced' = raced
  BY DEF ListDue
<1>4. \A b \in due : rows[b].status # "absent"
  BY MethodFacts DEF Active
<1>5. CopyOK(w)' /\ ~Creating(w)'
  <2> HIDE DEF t
  <2> QED BY <1>1, <1>2, <1>3, <1>4, ConstantsAssumption DEF CopyOK, Held, Creating
<1> QED
  <2> HIDE DEF t
  <2> QED BY <1>1, <1>3, <1>5, QuietStep

\* The commit of a booking that is not raced afterwards applies the method to
\* the row as it is.
LEMMA CommitIsAtomic ==
  ASSUME MemoryInv, NEW w \in Workers, Commit(w)
  PROVE  LET b == tx[w].cur
         IN  /\ b \in Bookings /\ b \in Held(w) /\ tx[w].method \in Methods
             /\ rows' = [rows EXCEPT ![b] = rows'[b]]
             /\ rows[b].status # "absent" /\ rows'[b].status # "absent"
             /\ b \notin raced' =>
                  /\ b \notin raced
                  /\ \A v \in Workers \ {w} : b \notin Held(v)
                  /\ rows[b].status \in AllowedFrom(tx[w].method)
                  /\ Copy(w) = Apply(tx[w].method, rows[b], tx[w].pay)
                  /\ rows'[b] = Copy(w)
<1> DEFINE b == tx[w].cur
           m == tx[w].method
<1>1. tx[w] \in WorkerStates /\ b \in Bookings /\ b \in Held(w) /\ m \in Methods
  BY DEF Commit, MemoryInv, TypeOK, Held, WorkerStates
<1>2. rows' = [rows EXCEPT ![b] = Saved(Copy(w), tx[w].dirty, rows[b])]
  BY DEF Commit
<1>3. rows'[b] = Saved(Copy(w), tx[w].dirty, rows[b])
  BY <1>1, <1>2 DEF MemoryInv, TypeOK
<1>4. rows[b].status # "absent"
  BY <1>1 DEF MemoryInv, CopiesOK, CopyOK
<1>5. Copy(w).status # "absent"
  <2>1. Copy(w).status = StatusAfter(m)
    BY <1>1 DEF Copy, Apply, WorkerStates, Row
  <2> QED BY <1>1, <2>1 DEF StatusAfter, Methods
<1>6. rows[b] \in Row /\ Copy(w) \in Row /\ tx[w].dirty \in SUBSET Columns
  BY <1>1, ApplyType DEF MemoryInv, TypeOK, WorkerStates, Copy
<1>7. rows'[b].status # "absent"
  BY <1>3, <1>4, <1>5, <1>6 DEF Saved, Row
<1>8. ASSUME b \notin raced'
      PROVE  /\ b \notin raced
             /\ \A v \in Workers \ {w} : b \notin Held(v)
             /\ rows[b].status \in AllowedFrom(m)
             /\ Copy(w) = Apply(m, rows[b], tx[w].pay)
             /\ rows'[b] = Copy(w)
  <2>1. b \notin raced /\ \A v \in Workers \ {w} : b \notin Held(v)
    BY <1>8 DEF Commit
  <2>2. rows[b].status \in AllowedFrom(m) /\ tx[w].snap[b] = rows[b]
    BY <1>1, <2>1 DEF MemoryInv, CopiesOK, CopyOK
  <2>3. Copy(w) = Apply(m, rows[b], tx[w].pay)
    BY <2>2 DEF Copy
  <2>4. tx[w].dirty = Differs(Copy(w), rows[b])
    BY <2>1 DEF MemoryInv, CopiesOK, CopyOK, Commit
  <2>5. Saved(Copy(w), tx[w].dirty, rows[b]).status = Copy(w).status
    BY <1>6, <2>4 DEF Saved, Differs, Row
  <2>6. Saved(Copy(w), tx[w].dirty, rows[b]).depositTx = Copy(w).depositTx
    BY <1>6, <2>4 DEF Saved, Differs, Row
  <2>7. Saved(Copy(w), tx[w].dirty, rows[b]).createdAt = Copy(w).createdAt
    BY <1>6, <2>3 DEF Saved, Apply, Row
  <2>8. Saved(Copy(w), tx[w].dirty, rows[b]) = Copy(w)
    <3> DEFINE sv == Saved(Copy(w), tx[w].dirty, rows[b])
    <3>1. sv \in Row
      BY <1>6, SavedType
    <3>2. sv.status = Copy(w).status /\ sv.depositTx = Copy(w).depositTx
            /\ sv.createdAt = Copy(w).createdAt
      BY <2>5, <2>6, <2>7
    <3> HIDE DEF sv
    <3>3. sv = Copy(w)
      BY <1>6, <3>1, <3>2, RowsEqual
    <3> QED BY <3>3 DEF sv
  <2> QED BY <1>3, <2>1, <2>2, <2>3, <2>8
<1>9. rows' = [rows EXCEPT ![b] = rows'[b]]
  BY <1>2, <1>3
<1> QED BY <1>1, <1>4, <1>7, <1>8, <1>9

\* A commit leaves the copies of all workers in order.
LEMMA CommitCopies ==
  ASSUME MemoryInv, NEW w \in Workers, Commit(w)
  PROVE  CopiesOK'
<1> DEFINE b == tx[w].cur
<1>1. /\ b \in Bookings /\ b \in Held(w) /\ rows[b].status # "absent" /\ rows'[b].status # "absent"
      /\ rows' = [rows EXCEPT ![b] = rows'[b]]
  BY CommitIsAtomic
<1>2. \A a \in Bookings : a # b => rows'[a] = rows[a]
  BY <1>1 DEF MemoryInv, TypeOK
<1>3. raced \subseteq raced' /\ raced' \subseteq raced \cup {b}
  BY DEF Commit
<1>4. tx' = [tx EXCEPT ![w] = AfterCommit(w)] /\ tx[w].phase = "compared"
  BY DEF Commit
<1>5. tx'[w] = AfterCommit(w) /\ \A v \in Workers \ {w} : tx'[v] = tx[v]
  BY <1>4 DEF MemoryInv, TypeOK
<1>6. ASSUME NEW v \in Workers \ {w} PROVE CopyOK(v)'
  <2>1. CopyOK(v) /\ Held(v) \subseteq Bookings /\ Held(v)' = Held(v) /\ Copy(v)' = Copy(v)
    BY <1>5, HeldType DEF MemoryInv, CopiesOK, Held, Copy
  <2>2. b \in Held(v) => b \in raced'
    BY DEF Commit
  <2>3. \A a \in Held(v) : rows'[a].status # "absent"
    BY <1>1, <1>2, <2>1 DEF CopyOK
  <2>4. \A a \in Held(v) \ raced' : tx[v].snap[a] = rows'[a]
                                     /\ rows'[a].status \in AllowedFrom(tx[v].method)
    BY <1>2, <1>3, <2>1, <2>2 DEF CopyOK
  <2>5. tx[v].phase = "compared" /\ tx[v].cur \notin raced' =>
          tx[v].dirty = Differs(Copy(v), rows'[tx[v].cur])
    BY <1>2, <1>3, <2>1, <2>2 DEF CopyOK, Held
  <2>6. Creating(v) => rows'[tx[v].cur] = NoRow
    <3>1. Creating(v) => tx[v].cur \in Bookings /\ tx[v].cur # b
      BY <1>1, <2>1 DEF CopyOK, Creating, NoRow, MemoryInv, TypeOK
    <3> QED BY <1>2, <2>1, <3>1 DEF CopyOK
  <2> QED BY <1>5, <2>1, <2>3, <2>4, <2>5, <2>6 DEF CopyOK, Creating
<1>7. CopyOK(w)' /\ ~Creating(w)'
  <2>1. CASE tx[w].todo = {}
    BY <1>5, <2>1, CopyOfIdle DEF AfterCommit
  <2>2. CASE tx[w].todo # {}
    <3> DEFINE t == AfterCommit(w)
    <3>1. tx[w] \in WorkerStates
      BY DEF MemoryInv, TypeOK
    <3>2. /\ t.phase = "listed" /\ t.method = tx[w].method /\ t.cur = NoBooking
          /\ t.todo = tx[w].todo /\ \A a \in Bookings \ {b} : t.snap[a] = tx[w].snap[a]
      BY <2>2, <3>1 DEF AfterCommit, WorkerStates
    <3>3. CopyOK(w) /\ b \notin tx[w].todo /\ tx[w].todo \subseteq Held(w) /\ tx[w].todo \subseteq Bookings
      BY <3>1 DEF MemoryInv, CopiesOK, CopyOK, Held, WorkerStates
    <3>4. Held(w)' = tx[w].todo
      BY <1>5, <3>2 DEF Held
    <3>5. \A a \in tx[w].todo : a # b /\ rows'[a] = rows[a]
      BY <1>2, <3>3
    <3>6. \A a \in tx[w].todo \ raced' : t.snap[a] = tx[w].snap[a] /\ a \notin raced
      BY <1>3, <3>2, <3>3, <3>5
    <3>7. t.cur \notin t.todo
      BY <3>1, <3>2, ConstantsAssumption DEF WorkerStates
    <3>8. \A a \in Held(w)' : rows'[a].status # "absent"
      BY <3>3, <3>4, <3>5 DEF CopyOK
    <3>9. \A a \in Held(w)' \ raced' :
            t.snap[a] = rows'[a] /\ rows'[a].status \in AllowedFrom(t.method)
      BY <3>2, <3>3, <3>4, <3>5, <3>6 DEF CopyOK
    <3>10. tx'[w] = t
      BY <1>5
    <3> HIDE DEF t
    <3> QED BY <3>2, <3>7, <3>8, <3>9, <3>10 DEF CopyOK, Creating
  <2> QED BY <2>1, <2>2
<1>8. RequestsDistinct'
  BY <1>5, <1>7 DEF MemoryInv, CopiesOK, RequestsDistinct, Creating
<1>9. RacedExist'
  BY <1>1, <1>2, <1>3 DEF MemoryInv, CopiesOK, RacedExist, TypeOK
<1> QED BY <1>5, <1>6, <1>7, <1>8, <1>9 DEF CopiesOK

\* Inserting a row leaves the copies of all workers in order.
LEMMA InsertCopies ==
  ASSUME MemoryInv, NEW w \in Workers, InsertBooking(w)
  PROVE  CopiesOK'
<1> DEFINE b == tx[w].cur
<1>1. b \in Bookings /\ rows[b] = NoRow /\ Creating(w)
  BY DEF InsertBooking, MemoryInv, TypeOK, CopiesOK, CopyOK, Creating
<1>2. rows'[b].status # "absent" /\ \A a \in Bookings : a # b => rows'[a] = rows[a]
  BY <1>1 DEF InsertBooking, MemoryInv, TypeOK
<1>3. tx'[w] = Idle /\ (\A v \in Workers \ {w} : tx'[v] = tx[v]) /\ raced' = raced
  BY DEF InsertBooking, MemoryInv, TypeOK
<1>4. ASSUME NEW v \in Workers \ {w} PROVE CopyOK(v)'
  <2>1. CopyOK(v) /\ Held(v) \subseteq Bookings /\ Held(v)' = Held(v) /\ Copy(v)' = Copy(v)
    BY <1>3, HeldType DEF MemoryInv, CopiesOK, Held, Copy
  <2>2. b \notin Held(v)
    BY <1>1, <2>1 DEF CopyOK, NoRow
  <2>3. tx[v].phase = "compared" => tx[v].cur \in Held(v)
    BY DEF Held
  <2>4. Creating(v) => tx[v].cur \in Bookings /\ tx[v].cur # b
    BY <1>1 DEF MemoryInv, CopiesOK, RequestsDistinct, TypeOK, Creating
  <2> QED BY <1>2, <1>3, <2>1, <2>2, <2>3, <2>4 DEF CopyOK, Creating
<1>5. CopyOK(w)' /\ ~Creating(w)'
  BY <1>3, CopyOfIdle
<1>6. RequestsDistinct'
  BY <1>3, <1>5 DEF MemoryInv, CopiesOK, RequestsDistinct, Creating
<1>7. RacedExist'
  BY <1>2, <1>3 DEF MemoryInv, CopiesOK, RacedExist, TypeOK
<1> QED BY <1>4, <1>5, <1>6, <1>7 DEF CopiesOK

\* Every step keeps the types and the copies in order.
LEMMA NextMemoryInv == MemoryInv /\ [Next]_vars => MemoryInv'
<1> SUFFICES ASSUME MemoryInv, [Next]_vars PROVE CopiesOK'
  BY NextTypeOK DEF MemoryInv
<1>1. ASSUME NEW w \in Workers, NEW b \in Bookings, ValidateRequest(w, b) PROVE CopiesOK'
  <2> DEFINE t == [Idle EXCEPT !.phase = "validated", !.cur = b]
  <2>1. tx' = [tx EXCEPT ![w] = t] /\ tx'[w] = t /\ rows' = rows /\ raced' = raced
    BY <1>1 DEF ValidateRequest, MemoryInv, TypeOK
  <2>2. t.phase = "validated" /\ t.cur = b /\ t.todo = {}
    BY DEF Idle
  <2>3. rows[b] = NoRow /\ \A v \in Workers : tx[v].cur # b
    BY <1>1 DEF ValidateRequest
  <2> HIDE DEF t
  <2>4. CopyOK(w)'
    BY <2>1, <2>2, <2>3 DEF CopyOK, Held, Creating
  <2> QED BY <2>1, <2>2, <2>3, <2>4, QuietStep
<1>2. ASSUME NEW w \in Workers, LockCharger(w) PROVE CopiesOK'
  <2>1. CASE tx' = [tx EXCEPT ![w] = Idle]
    BY <1>2, <2>1, BecomesIdle DEF LockCharger
  <2>2. CASE tx' = [tx EXCEPT ![w] = [tx[w] EXCEPT !.phase = "locked"]]
    <3> DEFINE t == [tx[w] EXCEPT !.phase = "locked"]
    <3>1. tx' = [tx EXCEPT ![w] = t] /\ tx'[w] = t /\ rows' = rows /\ raced' = raced
      BY <1>2, <2>2 DEF LockCharger, MemoryInv, TypeOK
    <3>2. t.phase = "locked" /\ t.cur = tx[w].cur /\ t.todo = tx[w].todo
      BY DEF MemoryInv, TypeOK, WorkerStates
    <3>3. tx[w].phase = "validated" /\ CopyOK(w)
      BY <1>2 DEF LockCharger, MemoryInv, CopiesOK
    <3> HIDE DEF t
    <3>4. CopyOK(w)'
      BY <3>1, <3>2, <3>3 DEF CopyOK, Held, Creating
    <3>5. \A v \in Workers \ {w} : Creating(v) => tx[v].cur # t.cur
      BY <3>2, <3>3 DEF MemoryInv, CopiesOK, RequestsDistinct, Creating
    <3> QED BY <3>1, <3>4, <3>5, QuietStep
  <2> QED BY <1>2, <2>1, <2>2 DEF LockCharger
<1>3. ASSUME NEW w \in Workers, InsertBooking(w) PROVE CopiesOK'
  BY <1>3, InsertCopies
<1>4. ASSUME NEW w \in Workers, NEW p \in Payments, AutoConfirmBooking(w, p) PROVE CopiesOK'
  BY <1>4, LoadCopies, ConstantsAssumption DEF AutoConfirmBooking, Methods
<1>5. ASSUME NEW w \in Workers, NEW b \in Bookings, CancelBooking(w, b) PROVE CopiesOK'
  BY <1>5, LoadCopies DEF CancelBooking, Methods
<1>6. ASSUME NEW w \in Workers, NEW b \in Bookings, AutoCompleteBooking(w, b) PROVE CopiesOK'
  BY <1>6, LoadCopies DEF AutoCompleteBooking, Methods
<1>7. ASSUME NEW w \in Workers, AutoExpireBookings(w) PROVE CopiesOK'
  <2>1. \A b \in {a \in Bookings : PaymentOverdue(a)} : rows[b].status \in AllowedFrom("expire")
    BY DEF PaymentOverdue, AllowedFrom
  <2> QED BY <1>7, <2>1, ListCopies DEF AutoExpireBookings, Methods
<1>8. ASSUME NEW w \in Workers, NoShowDetection(w) PROVE CopiesOK'
  <2>1. \A b \in {a \in Bookings : NotShownUp(a)} : rows[b].status \in AllowedFrom("markNoShow")
    BY DEF NotShownUp, AllowedFrom
  <2> QED BY <1>8, <2>1, ListCopies DEF NoShowDetection, Methods
<1>9. ASSUME NEW w \in Workers, NEW b \in Bookings, TakeNext(w, b) PROVE CopiesOK'
  <2> DEFINE t == [tx[w] EXCEPT !.phase = "loaded", !.cur = b, !.todo = tx[w].todo \ {b}]
  <2>1. tx' = [tx EXCEPT ![w] = t] /\ tx'[w] = t /\ rows' = rows /\ raced' = raced
    BY <1>9 DEF TakeNext, MemoryInv, TypeOK
  <2>2. /\ t.phase = "loaded" /\ t.cur = b /\ t.todo = tx[w].todo \ {b}
        /\ t.snap = tx[w].snap /\ t.method = tx[w].method
    BY DEF MemoryInv, TypeOK, WorkerStates
  <2>3. b \in tx[w].todo /\ CopyOK(w) /\ tx[w].todo \subseteq Held(w)
    BY <1>9 DEF TakeNext, MemoryInv, CopiesOK, Held
  <2> HIDE DEF t
  <2>4. CopyOK(w)' /\ ~Creating(w)'
    BY <2>1, <2>2, <2>3 DEF CopyOK, Held, Creating
  <2> QED BY <2>1, <2>4, QuietStep
<1>10. ASSUME NEW w \in Workers, Compare(w) PROVE CopiesOK'
  <2> DEFINE t == [tx[w] EXCEPT !.phase = "compared",
                                !.dirty = Differs(Copy(w), rows[tx[w].cur])]
  <2>1. tx' = [tx EXCEPT ![w] = t] /\ tx'[w] = t /\ rows' = rows /\ raced' = raced
    BY <1>10 DEF Compare, MemoryInv, TypeOK
  <2>2. /\ t.phase = "compared" /\ t.cur = tx[w].cur /\ t.todo = tx[w].todo
        /\ t.snap = tx[w].snap /\ t.method = tx[w].method /\ t.pay = tx[w].pay
        /\ t.dirty = Differs(Copy(w), rows[tx[w].cur])
    BY DEF MemoryInv, TypeOK, WorkerStates
  <2>3. tx[w].phase = "loaded" /\ CopyOK(w)
    BY <1>10 DEF Compare, MemoryInv, CopiesOK
  <2> HIDE DEF t
  <2>4. Copy(w)' = Copy(w) /\ Held(w)' = Held(w)
    BY <2>1, <2>2, <2>3 DEF Copy, Held
  <2>5. CopyOK(w)' /\ ~Creating(w)'
    BY <2>1, <2>2, <2>3, <2>4 DEF CopyOK, Creating
  <2> QED BY <2>1, <2>5, QuietStep
<1>11. ASSUME NEW w \in Workers, Commit(w) PROVE CopiesOK'
  BY <1>11, CommitCopies
<1>12. ASSUME NEW w \in Workers, Abort(w) PROVE CopiesOK'
  BY <1>12, BecomesIdle DEF Abort
<1>13. ASSUME tx' = tx, rows' = rows, raced' = raced PROVE CopiesOK'
  BY <1>13 DEF MemoryInv, CopiesOK, CopyOK, Held, Copy, Creating, RequestsDistinct, RacedExist
<1>14. ASSUME NEW c \in Chargers, ChargerChanges(c) PROVE CopiesOK'
  BY <1>13, <1>14 DEF ChargerChanges
<1>15. CASE Tick
  BY <1>13, <1>15 DEF Tick
<1>16. CASE UNCHANGED vars
  BY <1>13, <1>16 DEF vars
<1> QED
  BY <1>1, <1>2, <1>3, <1>4, <1>5, <1>6, <1>7, <1>8, <1>9, <1>10, <1>11, <1>12,
     <1>14, <1>15, <1>16
     DEF Next, Create, Handle, RunJob, Save

\* At the start nobody holds a copy.
LEMMA InitMemoryInv == Init => MemoryInv
<1> SUFFICES ASSUME Init PROVE CopiesOK
  BY InitTypeOK DEF MemoryInv
<1>1. \A w \in Workers : CopyOK(w) /\ ~Creating(w)
  BY DEF Init, CopyOK, Held, Idle, Creating
<1> QED BY <1>1 DEF Init, CopiesOK, RequestsDistinct, RacedExist

\* As long as a booking is not raced, every copy of it in memory is its row.
THEOREM CopiesInOrder == Spec => []MemoryInv
  BY InitMemoryInv, NextMemoryInv, PTL DEF Spec

-----------------------------------------------------------------------------
(* The state machine.                                                      *)

\* Only an insert and a commit write rows and events.
LEMMA OnlyTwoWriters ==
  ASSUME [Next]_vars
  PROVE  \/ rows' = rows /\ outbox' = outbox /\ raced' = raced
         \/ \E w \in Workers : InsertBooking(w) \/ Commit(w)
  BY DEF vars, Next, Create, Handle, RunJob, Save, ValidateRequest, LockCharger,
         AutoConfirmBooking, CancelBooking, AutoCompleteBooking, Load, AutoExpireBookings,
         NoShowDetection, ListDue, TakeNext, Compare, Abort, ChargerChanges, Tick

\* An insert writes the row of a booking that had none.
LEMMA InsertWrites ==
  ASSUME MemoryInv, NEW w \in Workers, InsertBooking(w)
  PROVE  LET b == tx[w].cur
         IN  /\ b \in Bookings /\ rows[b] = NoRow
             /\ rows'[b].status = "pending_payment"
             /\ rows'[b].depositTx = NoTx
             /\ \A a \in Bookings : a # b => rows'[a] = rows[a] /\ outbox'[a] = outbox[a]
             /\ outbox'[b] = outbox[b] \o <<Event("session.booking_created", NoTx),
                                            Event("session.reserved", NoTx)>>
             /\ raced' = raced
<1>1. tx[w].cur \in Bookings /\ rows[tx[w].cur] = NoRow
  BY DEF InsertBooking, MemoryInv, TypeOK, CopiesOK, CopyOK, Creating
<1> QED BY <1>1 DEF InsertBooking, MemoryInv, TypeOK

\* A commit writes the row of one booking and appends one event about it.
LEMMA CommitWrites ==
  ASSUME MemoryInv, NEW w \in Workers, Commit(w)
  PROVE  LET b == tx[w].cur
             m == tx[w].method
         IN  /\ b \in Bookings
             /\ \A a \in Bookings : a # b => rows'[a] = rows[a] /\ outbox'[a] = outbox[a]
             /\ raced \subseteq raced'
             /\ b \notin raced' =>
                  /\ b \notin raced
                  /\ m \in Methods
                  /\ rows[b].status \in AllowedFrom(m)
                  /\ rows'[b] = Apply(m, rows[b], tx[w].pay)
                  /\ rows'[b].status = StatusAfter(m)
                  /\ outbox'[b] = Append(outbox[b], EventOf(m, rows'[b]))
<1> DEFINE b == tx[w].cur
           m == tx[w].method
<1>1. b \in Bookings /\ rows' = [rows EXCEPT ![b] = rows'[b]]
  BY CommitIsAtomic
<1>2. outbox' = [outbox EXCEPT ![b] = Append(outbox[b], EventOf(m, Copy(w)))] /\ raced \subseteq raced'
  BY DEF Commit
<1>3. \A a \in Bookings : a # b => rows'[a] = rows[a] /\ outbox'[a] = outbox[a]
  BY <1>1, <1>2 DEF MemoryInv, TypeOK
<1>4. ASSUME b \notin raced'
      PROVE  /\ b \notin raced /\ m \in Methods /\ rows[b].status \in AllowedFrom(m)
             /\ rows'[b] = Apply(m, rows[b], tx[w].pay)
             /\ rows'[b].status = StatusAfter(m)
             /\ outbox'[b] = Append(outbox[b], EventOf(m, rows'[b]))
  <2>1. /\ b \notin raced /\ m \in Methods /\ rows[b].status \in AllowedFrom(m)
        /\ Copy(w) = Apply(m, rows[b], tx[w].pay) /\ rows'[b] = Copy(w)
    BY <1>4, CommitIsAtomic
  <2>2. outbox'[b] = Append(outbox[b], EventOf(m, rows'[b]))
    BY <1>1, <1>2, <2>1 DEF MemoryInv, TypeOK
  <2>3. rows'[b].status = StatusAfter(m)
    BY <1>1, <2>1 DEF Apply, MemoryInv, TypeOK, Row
  <2> QED BY <2>1, <2>2, <2>3
<1> QED BY <1>1, <1>2, <1>3, <1>4

\* The status of a booking that is not raced moves only along the state machine.
THEOREM StateMachineKept == Spec => StatusFollowsStateMachine
<1> DEFINE A == \A b \in Bookings \ raced' :
                  rows'[b] = rows[b] \/ rows'[b].status \in Successors(rows[b].status)
<1>1. MemoryInv /\ [Next]_vars => A
  <2> SUFFICES ASSUME MemoryInv, [Next]_vars, NEW b \in Bookings \ raced'
               PROVE  rows'[b] = rows[b] \/ rows'[b].status \in Successors(rows[b].status)
    OBVIOUS
  <2>1. CASE rows' = rows
    BY <2>1
  <2>2. ASSUME NEW w \in Workers, InsertBooking(w)
        PROVE  rows'[b] = rows[b] \/ rows'[b].status \in Successors(rows[b].status)
    BY <2>2, InsertWrites DEF NoRow, Successors
  <2>3. ASSUME NEW w \in Workers, Commit(w)
        PROVE  rows'[b] = rows[b] \/ rows'[b].status \in Successors(rows[b].status)
    <3>1. CASE b # tx[w].cur
      BY <2>3, <3>1, CommitWrites
    <3>2. CASE b = tx[w].cur
      BY <2>3, <3>2, CommitWrites, MethodFacts
    <3> QED BY <3>1, <3>2
  <2> QED BY <2>1, <2>2, <2>3, OnlyTwoWriters
<1>2. []MemoryInv /\ [][Next]_vars => [][A]_vars
  BY <1>1, PTL
<1> QED BY <1>2, CopiesInOrder, PTL DEF Spec, StatusFollowsStateMachine

-----------------------------------------------------------------------------
(* No double booking unless raced.                                         *)

SlotInv == MemoryInv /\ CheckedSlotStaysFree /\ DoubleBookingOnlyIfRaced

\* Overlap is symmetric.
LEMMA OverlapsSymmetric ==
  ASSUME NEW b \in Bookings, NEW o \in Bookings, Overlaps(b, o)
  PROVE  Overlaps(o, b)
  BY ConstantsAssumption DEF Overlaps

\* No step makes an unraced booking active but the insert of its row.
LEMMA BecomesActive ==
  ASSUME MemoryInv, [Next]_vars, NEW b \in Bookings \ raced', rows'[b].status \in Active
  PROVE  \/ rows[b].status \in Active
         \/ \E w \in Workers : InsertBooking(w) /\ tx[w].cur = b
<1>1. CASE rows' = rows
  BY <1>1
<1>2. ASSUME NEW w \in Workers, InsertBooking(w)
      PROVE  rows[b].status \in Active \/ (InsertBooking(w) /\ tx[w].cur = b)
  <2>1. CASE b # tx[w].cur
    <3>1. \A a \in Bookings : a # tx[w].cur => rows'[a] = rows[a]
      BY <1>2, InsertWrites
    <3>2. rows[b].status \in Active
      BY <2>1, <3>1
    <3> QED BY <3>2
  <2>2. CASE b = tx[w].cur
    BY <1>2, <2>2
  <2> QED BY <2>1, <2>2
<1>3. ASSUME NEW w \in Workers, Commit(w) PROVE rows[b].status \in Active
  <2>1. CASE b # tx[w].cur
    BY <1>3, <2>1, CommitWrites
  <2>2. CASE b = tx[w].cur
    BY <1>3, <2>2, CommitWrites, MethodFacts
  <2> QED BY <2>1, <2>2
<1> QED BY <1>1, <1>2, <1>3, OnlyTwoWriters

\* A step never unmarks a raced booking.
LEMMA RacedGrows == ASSUME MemoryInv, [Next]_vars PROVE raced \subseteq raced'
<1>1. ASSUME NEW w \in Workers, InsertBooking(w) PROVE raced' = raced
  BY <1>1 DEF InsertBooking
<1>2. ASSUME NEW w \in Workers, Commit(w) PROVE raced \subseteq raced'
  BY <1>2 DEF Commit
<1> QED BY <1>1, <1>2, OnlyTwoWriters


\* A worker that is about to insert was so before, or has just got the lock
\* and found no overlap.
LEMMA HowToBeLocked ==
  ASSUME MemoryInv, [Next]_vars, NEW w \in Workers, tx'[w].phase = "locked"
  PROVE  \/ tx'[w] = tx[w]
         \/ /\ LockCharger(w) /\ ~HasOverlap(tx[w].cur)
            /\ tx[w].cur \in Bookings /\ tx'[w].cur = tx[w].cur
            /\ lock' = [lock EXCEPT ![ChargerOf[tx[w].cur]] = w]
<1> DEFINE G == \/ tx'[w] = tx[w]
                \/ /\ LockCharger(w) /\ ~HasOverlap(tx[w].cur)
                   /\ tx[w].cur \in Bookings /\ tx'[w].cur = tx[w].cur
                   /\ lock' = [lock EXCEPT ![ChargerOf[tx[w].cur]] = w]
<1>0. tx \in [Workers -> WorkerStates]
  BY DEF MemoryInv, TypeOK
<1>1. ASSUME NEW v \in Workers, NEW t, tx' = [tx EXCEPT ![v] = t], t.phase # "locked" PROVE G
  BY <1>0, <1>1
<1>2. ASSUME NEW v \in Workers, tx' = [tx EXCEPT ![v] = Idle] PROVE G
  BY <1>1, <1>2 DEF Idle
<1>3. ASSUME NEW v \in Workers, NEW b \in Bookings, ValidateRequest(v, b) PROVE G
  <2>1. [Idle EXCEPT !.phase = "validated", !.cur = b].phase # "locked"
    BY DEF Idle
  <2> QED BY <1>1, <1>3, <2>1 DEF ValidateRequest
<1>4. ASSUME NEW v \in Workers, LockCharger(v) PROVE G
  <2>1. CASE HasOverlap(tx[v].cur)
    BY <1>2, <1>4, <2>1 DEF LockCharger
  <2>2. CASE ~HasOverlap(tx[v].cur)
    <3>1. /\ tx' = [tx EXCEPT ![v] = [tx[v] EXCEPT !.phase = "locked"]]
          /\ lock' = [lock EXCEPT ![ChargerOf[tx[v].cur]] = v]
          /\ tx[v].phase = "validated"
      BY <1>4, <2>2 DEF LockCharger
    <3>2. CASE v # w
      BY <1>0, <3>1, <3>2
    <3>3. CASE v = w
      <4>1. tx[w].cur \in Bookings
        BY <3>1, <3>3 DEF MemoryInv, TypeOK
      <4>2. tx'[w].cur = tx[w].cur
        BY <1>0, <3>1, <3>3 DEF WorkerStates
      <4> QED BY <1>4, <2>2, <3>1, <3>3, <4>1, <4>2
    <3> QED BY <3>2, <3>3
  <2> QED BY <2>1, <2>2
<1>5. ASSUME NEW v \in Workers, InsertBooking(v) PROVE G
  BY <1>2, <1>5 DEF InsertBooking
<1>6. ASSUME NEW v \in Workers, NEW m, NEW b, NEW p, Load(v, m, b, p) PROVE G
  <2>1. [Idle EXCEPT !.phase = "loaded", !.method = m, !.cur = b, !.pay = p,
                     !.snap[b] = rows[b]].phase # "locked"
    BY DEF Idle
  <2> QED BY <1>1, <1>6, <2>1 DEF Load
<1>7. ASSUME NEW v \in Workers, NEW m, NEW due, ListDue(v, m, due) PROVE G
  <2> DEFINE s == [b \in Bookings |-> IF b \in due THEN rows[b] ELSE NoRow]
  <2>1. [Idle EXCEPT !.phase = "listed", !.method = m, !.todo = due, !.snap = s].phase # "locked"
    BY DEF Idle
  <2> QED BY <1>1, <1>7, <2>1 DEF ListDue
<1>8. ASSUME NEW v \in Workers, NEW b \in Bookings, TakeNext(v, b) PROVE G
  <2>1. [tx[v] EXCEPT !.phase = "loaded", !.cur = b, !.todo = tx[v].todo \ {b}].phase # "locked"
    BY <1>0 DEF WorkerStates
  <2> QED BY <1>1, <1>8, <2>1 DEF TakeNext
<1>9. ASSUME NEW v \in Workers, Compare(v) PROVE G
  <2>1. [tx[v] EXCEPT !.phase = "compared",
                      !.dirty = Differs(Copy(v), rows[tx[v].cur])].phase # "locked"
    BY <1>0 DEF WorkerStates
  <2> QED BY <1>1, <1>9, <2>1 DEF Compare
<1>10. ASSUME NEW v \in Workers, Commit(v) PROVE G
  <2>1. AfterCommit(v).phase # "locked"
    BY <1>0 DEF AfterCommit, WorkerStates, Idle
  <2> QED BY <1>1, <1>10, <2>1 DEF Commit
<1>11. ASSUME NEW v \in Workers, Abort(v) PROVE G
  BY <1>2, <1>11 DEF Abort
<1>12. CASE UNCHANGED tx
  BY <1>12
<1> QED
  BY <1>3, <1>4, <1>5, <1>6, <1>7, <1>8, <1>9, <1>10, <1>11, <1>12
     DEF vars, Next, Create, Handle, RunJob, Save, AutoConfirmBooking, CancelBooking,
         AutoCompleteBooking, AutoExpireBookings, NoShowDetection, ChargerChanges, Tick

LocksHeld ==
  \A w \in Workers : tx[w].phase = "locked" => lock[ChargerOf[tx[w].cur]] = w

\* A worker that is about to insert keeps the lock until it does.
LEMMA LocksStayHeld == ASSUME MemoryInv, LocksHeld, [Next]_vars PROVE LocksHeld'
<1> SUFFICES ASSUME NEW w \in Workers, tx'[w].phase = "locked"
             PROVE  lock'[ChargerOf[tx'[w].cur]] = w
  BY DEF LocksHeld
<1>0. lock \in [Chargers -> Workers \cup {NoWorker}]
  BY DEF MemoryInv, TypeOK
<1>1. CASE tx'[w] # tx[w]
  BY <1>0, <1>1, HowToBeLocked, ConstantsAssumption
<1>2. CASE tx'[w] = tx[w]
  <2> DEFINE c == ChargerOf[tx[w].cur]
  <2>1. tx[w].phase = "locked" /\ lock[c] = w /\ c \in Chargers /\ w # NoWorker
    BY <1>2, ConstantsAssumption DEF LocksHeld, MemoryInv, TypeOK
  <2>2. CASE lock' = lock
    BY <1>2, <2>1, <2>2
  <2>3. ASSUME NEW v \in Workers, LockCharger(v) PROVE lock'[c] = w
    <3>1. \/ lock' = lock
          \/ lock[ChargerOf[tx[v].cur]] = NoWorker /\ lock' = [lock EXCEPT ![ChargerOf[tx[v].cur]] = v]
      BY <2>3 DEF LockCharger
    <3> QED BY <1>0, <2>1, <3>1
  <2>4. ASSUME NEW v \in Workers, InsertBooking(v) PROVE lock'[c] = w
    <3>1. tx[v].phase = "locked" /\ tx'[v] = Idle /\ lock' = [lock EXCEPT ![ChargerOf[tx[v].cur]] = NoWorker]
      BY <2>4 DEF InsertBooking, MemoryInv, TypeOK
    <3>2. v # w /\ lock[ChargerOf[tx[v].cur]] = v
      BY <2>1, <3>1, <1>2 DEF LocksHeld, Idle
    <3> QED BY <1>0, <2>1, <3>1, <3>2
  <2>5. ASSUME NEW v \in Workers, Abort(v) PROVE lock'[c] = w
    <3>1. tx'[v] = Idle /\ lock' = [d \in Chargers |-> IF lock[d] = v THEN NoWorker ELSE lock[d]]
      BY <2>5 DEF Abort, MemoryInv, TypeOK
    <3>2. v # w
      BY <2>1, <3>1, <1>2 DEF Idle
    <3> QED BY <2>1, <3>1, <3>2
  <2>6. \/ lock' = lock
        \/ \E v \in Workers : LockCharger(v) \/ InsertBooking(v) \/ Abort(v)
    BY DEF vars, Next, Create, Handle, RunJob, Save, ValidateRequest, AutoConfirmBooking,
           CancelBooking, AutoCompleteBooking, Load, AutoExpireBookings, NoShowDetection,
           ListDue, TakeNext, Compare, Commit, ChargerChanges, Tick
  <2> QED BY <1>2, <2>2, <2>3, <2>4, <2>5, <2>6
<1> QED BY <1>1, <1>2

\* Nobody inserts a booking into a slot that another worker has checked and
\* locked.
LEMMA CheckedSlotKept ==
  ASSUME MemoryInv, CheckedSlotStaysFree, [Next]_vars
  PROVE  CheckedSlotStaysFree'
<1>1. LocksHeld /\ LocksHeld'
  BY LocksStayHeld DEF CheckedSlotStaysFree, LocksHeld
<1> SUFFICES ASSUME NEW w \in Workers, tx'[w].phase = "locked",
                    NEW b \in Bookings \ raced', b # tx'[w].cur, rows'[b].status \in Active,
                    Overlaps(tx'[w].cur, b)
             PROVE  FALSE
  BY <1>1 DEF CheckedSlotStaysFree, LocksHeld, Overlaps
<1>2. b \notin raced
  BY RacedGrows
<1>3. tx'[w].cur = tx[w].cur /\ (tx[w].phase = "locked" \/ ~HasOverlap(tx[w].cur))
  <2>1. CASE tx'[w] = tx[w]
    BY <2>1
  <2>2. CASE tx'[w] # tx[w]
    BY <2>2, HowToBeLocked
  <2> QED BY <2>1, <2>2
<1>4. CASE rows[b].status \in Active
  BY <1>2, <1>3, <1>4 DEF CheckedSlotStaysFree, HasOverlap
<1>5. CASE \E v \in Workers : InsertBooking(v) /\ tx[v].cur = b
  <2>1. PICK v \in Workers : InsertBooking(v) /\ tx[v].cur = b
    BY <1>5
  <2>2. v # w /\ lock' = [lock EXCEPT ![ChargerOf[b]] = NoWorker]
    BY <1>3, <2>1 DEF InsertBooking
  <2>3. lock'[ChargerOf[tx'[w].cur]] = w
    BY <1>1 DEF LocksHeld
  <2>4. ChargerOf[b] = ChargerOf[tx'[w].cur] /\ ChargerOf[b] \in Chargers
    BY ConstantsAssumption DEF Overlaps
  <2>5. lock'[ChargerOf[b]] = NoWorker
    BY <2>2, <2>4 DEF MemoryInv, TypeOK
  <2> QED BY <2>3, <2>4, <2>5, ConstantsAssumption
<1> QED BY <1>4, <1>5, BecomesActive

\* A step makes no two unraced bookings overlap while both are active.
LEMMA DoubleBookingKept ==
  ASSUME SlotInv, [Next]_vars
  PROVE  DoubleBookingOnlyIfRaced'
<1> USE DEF SlotInv
<1>1. ASSUME NEW a \in Bookings \ raced', NEW b \in Bookings \ raced', a # b, Overlaps(a, b),
             rows[a].status \in Active, rows'[b].status \in Active
      PROVE  FALSE
  <2>1. a \notin raced /\ b \notin raced
    BY RacedGrows
  <2>2. CASE rows[b].status \in Active
    BY <1>1, <2>1, <2>2 DEF DoubleBookingOnlyIfRaced, DoubleBooked
  <2>3. ASSUME NEW w \in Workers, InsertBooking(w), tx[w].cur = b PROVE FALSE
    <3>1. tx[w].phase = "locked"
      BY <2>3 DEF InsertBooking
    <3>2. Overlaps(b, a)
      BY <1>1, OverlapsSymmetric
    <3> QED BY <1>1, <2>1, <2>3, <3>1, <3>2 DEF CheckedSlotStaysFree
  <2> QED BY <1>1, <2>2, <2>3, BecomesActive
<1> SUFFICES ASSUME NEW a \in Bookings \ raced', NEW b \in Bookings \ raced', a # b,
                    Overlaps(a, b), rows'[a].status \in Active, rows'[b].status \in Active
             PROVE  FALSE
  BY DEF DoubleBookingOnlyIfRaced, DoubleBooked, Overlaps
<1>2. Overlaps(b, a)
  BY OverlapsSymmetric
<1>3. rows[a].status \in Active \/ rows[b].status \in Active
  <2>1. ASSUME NEW v \in Workers, InsertBooking(v), tx[v].cur = a PROVE rows[b].status \in Active
    <3>1. \A d \in Bookings : d # tx[v].cur => rows'[d] = rows[d]
      BY <2>1, InsertWrites
    <3> QED BY <2>1, <3>1
  <2> QED BY <2>1, BecomesActive
<1> QED BY <1>1, <1>2, <1>3

\* The slot invariant is inductive.
LEMMA SlotInvInductive == Spec => []SlotInv
<1>1. Init => SlotInv
  BY InitMemoryInv DEF SlotInv, CheckedSlotStaysFree, DoubleBookingOnlyIfRaced, DoubleBooked,
                       Init, Idle, NoRow, Active
<1>2. SlotInv /\ [Next]_vars => SlotInv'
  BY NextMemoryInv, CheckedSlotKept, DoubleBookingKept DEF SlotInv
<1> QED BY <1>1, <1>2, PTL DEF Spec

\* A slot that was checked under the lock stays free until the row is in.
THEOREM CheckedSlotFree == Spec => []CheckedSlotStaysFree
  BY SlotInvInductive, PTL DEF SlotInv

\* Of two overlapping active bookings at least one is raced.
THEOREM NoDoubleBookingUnlessRaced == Spec => []DoubleBookingOnlyIfRaced
  BY SlotInvInductive, PTL DEF SlotInv

-----------------------------------------------------------------------------
(* What other services are told.                                           *)

LastEvent(b) == outbox[b][Len(outbox[b])]

\* A booking that is still open has announced no end.
OpenIsNotAnnounced ==
  \A b \in Bookings \ raced : rows[b].status \notin Terminal =>
    \A i \in DOMAIN outbox[b] : outbox[b][i].type \notin FinalEvents

OutboxInv == MemoryInv /\ OutboxTellsTheRow /\ OpenIsNotAnnounced /\ EndsAtMostOnce

\* What a commit announces is what the row says afterwards.
LEMMA EventOfTells ==
  ASSUME NEW m \in Methods, NEW row, row.status = StatusAfter(m)
  PROVE  EventOf(m, row) = EventFor(row)
  BY DEF Methods, StatusAfter, EventOf, EventFor

\* A method that ends in an open status announces no end.
LEMMA OpenEventNotFinal ==
  ASSUME NEW m \in Methods, NEW row, StatusAfter(m) \notin Terminal
  PROVE  EventOf(m, row).type \notin FinalEvents
  BY DEF Methods, StatusAfter, EventOf, Event, FinalEvents, Terminal

\* An append keeps the elements of a sequence and adds one at its end.
LEMMA AppendFacts ==
  ASSUME NEW S, NEW s \in Seq(S), NEW e \in S
  PROVE  LET t == Append(s, e)
         IN  /\ Len(t) = Len(s) + 1 /\ t # << >> /\ t[Len(t)] = e
             /\ DOMAIN t = 1 .. Len(s) + 1
             /\ \A i \in 1 .. Len(s) : t[i] = s[i]
  OBVIOUS

\* What OutboxInv says of one booking.
TellsOf(b) ==
  /\ IF rows[b].status = "absent" THEN outbox[b] = << >>
     ELSE outbox[b] # << >> /\ LastEvent(b) = EventFor(rows[b])
  /\ rows[b].status \notin Terminal =>
       \A i \in DOMAIN outbox[b] : outbox[b][i].type \notin FinalEvents
  /\ \A i, j \in DOMAIN outbox[b] :
       outbox[b][i].type \in FinalEvents /\ outbox[b][j].type \in FinalEvents => i = j

LEMMA OutboxInvPerBooking ==
  MemoryInv => (OutboxInv <=> \A b \in Bookings \ raced : TellsOf(b))
  BY DEF OutboxInv, OutboxTellsTheRow, OpenIsNotAnnounced, EndsAtMostOnce, TellsOf, LastEvent

\* Inserting a booking announces it.
LEMMA InsertTells ==
  ASSUME MemoryInv, NEW w \in Workers, InsertBooking(w), NEW b \in Bookings, b = tx[w].cur,
         TellsOf(b)
  PROVE  TellsOf(b)'
<1> DEFINE es == <<Event("session.booking_created", NoTx), Event("session.reserved", NoTx)>>
<1>1. rows[b] = NoRow /\ rows'[b].status = "pending_payment" /\ outbox'[b] = outbox[b] \o es
  BY InsertWrites
<1>2. outbox[b] = << >>
  BY <1>1 DEF TellsOf, NoRow
<1>3. outbox'[b] = es
  BY <1>1, <1>2
<1>4. \A i \in DOMAIN es : es[i].type \notin FinalEvents
  BY DEF Event, FinalEvents
<1>5. es # << >> /\ es[Len(es)] = EventFor(rows'[b])
  BY <1>1 DEF Event, EventFor
<1> HIDE DEF es
<1> QED BY <1>1, <1>3, <1>4, <1>5 DEF TellsOf, LastEvent

\* Committing a change of a booking that is not raced announces it.
LEMMA CommitTells ==
  ASSUME MemoryInv, NEW w \in Workers, Commit(w), NEW b \in Bookings \ raced', b = tx[w].cur,
         TellsOf(b)
  PROVE  TellsOf(b)'
<1> DEFINE m == tx[w].method
           e == EventOf(m, rows'[b])
<1>1. /\ m \in Methods /\ rows[b].status \in AllowedFrom(m)
      /\ rows'[b].status = StatusAfter(m) /\ outbox'[b] = Append(outbox[b], e)
  BY CommitWrites
<1>2. outbox[b] \in Seq(Events) /\ e \in Events
  <2>1. rows'[b] \in Row
    BY NextTypeOK DEF MemoryInv, TypeOK, Next, Save
  <2> QED BY <1>1, <2>1, EventOfType DEF MemoryInv, TypeOK
<1>3. e = EventFor(rows'[b]) /\ (StatusAfter(m) \notin Terminal => e.type \notin FinalEvents)
  BY <1>1, EventOfTells, OpenEventNotFinal
<1>4. rows[b].status \notin Terminal /\ rows'[b].status # "absent"
  BY <1>1, MethodFacts DEF Active, Terminal
<1>5. \A i \in DOMAIN outbox[b] : outbox[b][i].type \notin FinalEvents
  BY <1>4 DEF TellsOf
<1> DEFINE n == Len(outbox[b])
<1>6. /\ outbox'[b] # << >> /\ outbox'[b][Len(outbox'[b])] = e
      /\ DOMAIN outbox'[b] = 1 .. n + 1 /\ n \in Nat
      /\ \A i \in 1 .. n : outbox'[b][i].type \notin FinalEvents
      /\ outbox'[b][n + 1] = e
  <2> HIDE DEF e
  <2>1. /\ Len(Append(outbox[b], e)) = n + 1 /\ Append(outbox[b], e) # << >>
        /\ DOMAIN Append(outbox[b], e) = 1 .. n + 1
        /\ \A i \in 1 .. n : Append(outbox[b], e)[i] = outbox[b][i]
        /\ Append(outbox[b], e)[n + 1] = e
    BY <1>2, AppendFacts
  <2>2. n \in Nat /\ DOMAIN outbox[b] = 1 .. n
    BY <1>2
  <2> HIDE DEF n
  <2> QED BY <1>1, <1>5, <2>1, <2>2
<1> HIDE DEF e, n, m
<1>7. \A i \in DOMAIN outbox'[b] : outbox'[b][i].type \in FinalEvents => i = n + 1
  BY <1>6
<1>8. rows'[b].status \notin Terminal =>
        \A i \in DOMAIN outbox'[b] : outbox'[b][i].type \notin FinalEvents
  BY <1>1, <1>3, <1>6
<1> QED BY <1>3, <1>4, <1>6, <1>7, <1>8 DEF TellsOf, LastEvent

\* The outbox invariant is inductive.
LEMMA OutboxInvInductive == Spec => []OutboxInv
<1>1. Init => OutboxInv
  <2> SUFFICES ASSUME Init PROVE OutboxInv
    OBVIOUS
  <2>1. \A b \in Bookings : rows[b].status = "absent" /\ outbox[b] = << >>
    BY DEF Init, NoRow
  <2>2. DOMAIN << >> = {}
    OBVIOUS
  <2>3. \A b \in Bookings : TellsOf(b)
    BY <2>1, <2>2 DEF TellsOf
  <2> QED BY <2>3, InitMemoryInv, OutboxInvPerBooking
<1>2. OutboxInv /\ [Next]_vars => OutboxInv'
  <2> SUFFICES ASSUME OutboxInv, [Next]_vars PROVE OutboxInv'
    OBVIOUS
  <2>1. MemoryInv /\ MemoryInv' /\ \A b \in Bookings \ raced : TellsOf(b)
    BY NextMemoryInv, OutboxInvPerBooking DEF OutboxInv
  <2>2. ASSUME NEW b \in Bookings \ raced' PROVE TellsOf(b)'
    <3>1. TellsOf(b)
      BY <2>1, RacedGrows
    <3>2. CASE rows'[b] = rows[b] /\ outbox'[b] = outbox[b]
      BY <3>1, <3>2 DEF TellsOf, LastEvent
    <3>3. ASSUME NEW w \in Workers, InsertBooking(w) PROVE TellsOf(b)'
      <4>1. CASE b = tx[w].cur
        BY <2>1, <3>1, <3>3, <4>1, InsertTells
      <4>2. CASE b # tx[w].cur
        BY <2>1, <3>2, <3>3, <4>2, InsertWrites
      <4> QED BY <4>1, <4>2
    <3>4. ASSUME NEW w \in Workers, Commit(w) PROVE TellsOf(b)'
      <4>1. CASE b = tx[w].cur
        BY <2>1, <3>1, <3>4, <4>1, CommitTells
      <4>2. CASE b # tx[w].cur
        BY <2>1, <3>2, <3>4, <4>2, CommitWrites
      <4> QED BY <4>1, <4>2
    <3> QED BY <3>2, <3>3, <3>4, OnlyTwoWriters
  <2>3. MemoryInv' => (OutboxInv' <=> \A b \in Bookings \ raced' : TellsOf(b)')
    BY DEF OutboxInv, OutboxTellsTheRow, OpenIsNotAnnounced, EndsAtMostOnce, TellsOf, LastEvent
  <2> QED BY <2>1, <2>2, <2>3
<1> QED BY <1>1, <1>2, PTL DEF Spec

\* The last event about an unraced booking tells what its row says.
THEOREM OutboxFaithful == Spec => []OutboxTellsTheRow
  BY OutboxInvInductive, PTL DEF OutboxInv

\* The end of an unraced booking is announced at most once.
THEOREM EndAnnouncedOnce == Spec => []EndsAtMostOnce
  BY OutboxInvInductive, PTL DEF OutboxInv
-----------------------------------------------------------------------------
(* Console: the types and what waits for an exchange.                      *)

\* An exchange has a token to exchange.
ExchangeHasToken == \A t \in Tabs : exchange[t].at # "idle" => exchange[t].with # NoLogin

\* The inductive invariant of the console's login.
ConsoleInv == ConsoleTypeOK /\ ExchangeHasToken /\ ParkedIsAnswered

\* Requests and exchanges of a tab, and their types.
AskType == [at : Steps, with : 0 .. pairs, retried : BOOLEAN, resends : 0 .. MaxResends]
ExchangeType == [at : {"idle", "sent", "found", "done"}, with : 0 .. pairs]

\* What is free has its type, in any state.
LEMMA FreeType ==
  ASSUME pairs \in Nat
  PROVE  FreeAsk \in AskType /\ FreeExchange \in ExchangeType
  BY ConsoleAssumption DEF FreeAsk, FreeExchange, AskType, ExchangeType, Steps, NoLogin

\* The initial state.
LEMMA ConsoleInitInv == ConsoleInit => ConsoleInv
  BY ConsoleAssumption
     DEF ConsoleInit, ConsoleInv, ConsoleTypeOK, ExchangeHasToken, ParkedIsAnswered, FreeAsk, FreeExchange, Steps, NoLogin

\* A tab has no exchange any more, and none of its requests waits for one.
LEMMA TabInv ==
  ASSUME ConsoleInv, NEW t \in Tabs, NEW asks \in [Asks -> AskType],
         \A a \in Asks : asks[a].at # "parked",
         ask' = [ask EXCEPT ![t] = asks],
         exchange' = [exchange EXCEPT ![t] = FreeExchange],
         refreshing' = [refreshing EXCEPT ![t] = FALSE],
         page' \in [Tabs -> {"login", "dashboard"}], stored' \in 0 .. pairs, UNCHANGED <<pairs, expired, spent>>
  PROVE  ConsoleInv'
<1> FreeExchange \in ExchangeType /\ FreeExchange.at = "idle"
  BY FreeType DEF FreeExchange, ConsoleInv, ConsoleTypeOK
<1>1. ConsoleTypeOK'
  BY DEF ConsoleInv, ConsoleTypeOK, AskType, ExchangeType
<1>2. ExchangeHasToken' /\ ParkedIsAnswered'
  BY DEF ConsoleInv, ConsoleTypeOK, ExchangeHasToken, ParkedIsAnswered
<1> QED
  BY <1>1, <1>2 DEF ConsoleInv

\* So it is when the tab goes to the login page.
LEMMA GoToLoginInv ==
  ASSUME ConsoleInv, NEW t \in Tabs, GoToLogin(t), stored' \in 0 .. pairs, UNCHANGED <<pairs, expired, spent>>
  PROVE  ConsoleInv'
<1> DEFINE asks == [a \in Asks |-> FreeAsk]
<1>1. asks \in [Asks -> AskType] /\ \A a \in Asks : asks[a].at # "parked"
  BY FreeType DEF ConsoleInv, ConsoleTypeOK, FreeAsk
<1>2. page' \in [Tabs -> {"login", "dashboard"}]
  BY DEF GoToLogin, ConsoleInv, ConsoleTypeOK
<1> HIDE DEF asks
<1> QED
  BY <1>1, <1>2, TabInv DEF GoToLogin, asks

\* One request moves and nothing else does; it does not begin to wait where no exchange is
\* under way.
LEMMA AskInv ==
  ASSUME ConsoleInv, NEW t \in Tabs, NEW a \in Asks, NEW q \in AskType,
         q.at = "parked" => refreshing[t],
         ask' = [ask EXCEPT ![t][a] = q],
         UNCHANGED <<pairs, expired, spent, stored, page, refreshing, exchange>>
  PROVE  ConsoleInv'
  BY DEF ConsoleInv, ConsoleTypeOK, ExchangeHasToken, ParkedIsAnswered, AskType

\* No step of a tab, of the server or of time breaks the invariant.
LEMMA ConsoleStepInv == ConsoleInv /\ [ConsoleNext]_console => ConsoleInv'
<1> SUFFICES ASSUME ConsoleInv, [ConsoleNext]_console PROVE ConsoleInv'
  OBVIOUS
<1> USE ConsoleAssumption
<1>1. ASSUME NEW n \in Logins, Expire(n) PROVE ConsoleInv'
  BY <1>1 DEF ConsoleInv, ConsoleTypeOK, ExchangeHasToken, ParkedIsAnswered, Expire
<1>2. ASSUME NEW t \in Tabs, ExchangeServed(t) PROVE ConsoleInv'
  <2>1. CASE exchange[t].at = "sent" /\ exchange' = [exchange EXCEPT ![t].at = "found"] /\ UNCHANGED <<pairs, spent>>
    BY <1>2, <2>1 DEF ConsoleInv, ConsoleTypeOK, ExchangeHasToken, ParkedIsAnswered, ExchangeServed
  <2>2. CASE /\ exchange[t].at = "found" /\ Issue
             /\ spent' = spent \cup {exchange[t].with}
             /\ exchange' = [exchange EXCEPT ![t] = [at |-> "done", with |-> pairs + 1]]
    <3>1. pairs' = pairs + 1 /\ pairs' \in 0 .. MaxLogins
      BY <2>2 DEF Issue, ConsoleInv, ConsoleTypeOK
    <3>2. exchange[t].with \in 1 .. pairs
      BY <2>2 DEF ConsoleInv, ConsoleTypeOK, ExchangeHasToken, NoLogin
    <3>3. ConsoleTypeOK'
      <4>1. ask' \in [Tabs -> [Asks -> AskType']]
        BY <1>2, <3>1 DEF ConsoleInv, ConsoleTypeOK, ExchangeServed, AskType
      <4>2. exchange' \in [Tabs -> ExchangeType']
        BY <2>2, <3>1 DEF ConsoleInv, ConsoleTypeOK, ExchangeType
      <4> QED
        BY <1>2, <2>2, <3>1, <3>2, <4>1, <4>2 DEF ConsoleInv, ConsoleTypeOK, ExchangeServed, AskType, ExchangeType
    <3>4. ExchangeHasToken' /\ ParkedIsAnswered'
      BY <1>2, <2>2, <3>1 DEF ConsoleInv, ConsoleTypeOK, ExchangeHasToken, ParkedIsAnswered, ExchangeServed, NoLogin
    <3> QED
      BY <3>3, <3>4 DEF ConsoleInv
  <2> QED
    BY <1>2, <2>1, <2>2 DEF ExchangeServed
<1>3. ASSUME NEW t \in Tabs, SignIn(t) PROVE ConsoleInv'
  <2>1. pairs' = pairs + 1 /\ pairs' \in 0 .. MaxLogins
    BY <1>3 DEF SignIn, Issue, ConsoleInv, ConsoleTypeOK
  <2> QED
    BY <1>3, <2>1 DEF ConsoleInv, ConsoleTypeOK, ExchangeHasToken, ParkedIsAnswered, SignIn
<1>4. ASSUME NEW t \in Tabs, SignOut(t) PROVE ConsoleInv'
  BY <1>4, GoToLoginInv DEF SignOut, ConsoleInv, ConsoleTypeOK, NoLogin
<1>5. ASSUME NEW t \in Tabs, Open(t) PROVE ConsoleInv'
  <2>1. PICK a \in Asks :
          ask' = [ask EXCEPT ![t] = [b \in Asks |->
                    IF b = a /\ stored \in expired THEN [FreeAsk EXCEPT !.at = "sent", !.with = stored] ELSE FreeAsk]]
    BY <1>5 DEF Open
  <2> DEFINE asks == [b \in Asks |->
                IF b = a /\ stored \in expired THEN [FreeAsk EXCEPT !.at = "sent", !.with = stored] ELSE FreeAsk]
  <2>2. asks \in [Asks -> AskType] /\ \A b \in Asks : asks[b].at # "parked"
    <3>0. pairs \in Nat /\ stored \in 0 .. pairs
      BY DEF ConsoleInv, ConsoleTypeOK
    <3>1. FreeAsk \in AskType /\ FreeAsk.at = "idle" /\ [FreeAsk EXCEPT !.at = "sent", !.with = stored] \in AskType
      <4>1. FreeAsk \in AskType /\ FreeAsk.at = "idle"
        BY <3>0, FreeType DEF FreeAsk
      <4> QED
        BY <3>0, <4>1 DEF AskType, Steps
    <3>2. [FreeAsk EXCEPT !.at = "sent", !.with = stored].at = "sent"
      BY DEF FreeAsk
    <3> QED
      BY <3>1, <3>2
  <2>3. page' \in [Tabs -> {"login", "dashboard"}]
    BY <1>5 DEF Open, ConsoleInv, ConsoleTypeOK
  <2>4. ask' = [ask EXCEPT ![t] = asks]
    BY <2>1
  <2> HIDE DEF asks
  <2> QED
    BY <1>5, <2>2, <2>3, <2>4, TabInv DEF Open, ConsoleInv, ConsoleTypeOK
<1>6. ASSUME NEW t \in Tabs, Refreshed(t) PROVE ConsoleInv'
  <2> DEFINE asks == [a \in Asks |->
                IF ask[t][a].at = "parked" THEN [ask[t][a] EXCEPT !.at = "sent", !.with = exchange[t].with] ELSE ask[t][a]]
  <2>1. ask[t] \in [Asks -> AskType] /\ exchange[t].with \in 0 .. pairs
    BY DEF ConsoleInv, ConsoleTypeOK, AskType
  <2>2. asks \in [Asks -> AskType] /\ \A a \in Asks : asks[a].at # "parked"
    BY <2>1 DEF AskType, Steps
  <2>3. ask' = [ask EXCEPT ![t] = asks]
    BY <1>6 DEF Refreshed, ConsoleInv, ConsoleTypeOK
  <2> HIDE DEF asks
  <2> QED
    BY <1>6, <2>1, <2>2, <2>3, TabInv DEF Refreshed, ConsoleInv, ConsoleTypeOK
<1>7. ASSUME NEW t \in Tabs, RefreshFailed(t) PROVE ConsoleInv'
  BY <1>7, GoToLoginInv DEF RefreshFailed, ConsoleInv, ConsoleTypeOK, NoLogin
<1>8. ASSUME NEW t \in Tabs, NEW a \in Asks,
             Send(t, a) \/ Lost(t, a) \/ Served(t, a) \/ Drop(t, a) \/ Park(t, a) \/ Refresh(t, a) \/ NothingToRefresh(t, a)
      PROVE  ConsoleInv'
  <2> ask[t][a] \in AskType /\ stored \in 0 .. pairs /\ FreeAsk \in AskType
    BY FreeType DEF ConsoleInv, ConsoleTypeOK, AskType
  <2>1. CASE Send(t, a)
    <3>1. Again(FreeAsk) \in AskType /\ Again(FreeAsk).at = "sent"
      BY DEF Again, Bearer, FreeAsk, AskType, Steps, NoLogin
    <3> QED
      BY <2>1, <3>1, AskInv DEF Send
  <2>2. CASE Lost(t, a)
    <3>1. Again(ask[t][a]) \in AskType /\ Again(ask[t][a]).at = "sent" /\ Again(ask[t][a]).resends = ask[t][a].resends
      BY DEF Again, Bearer, AskType, Steps, NoLogin
    <3>2. Resent(ask[t][a]) \in AskType /\ Resent(ask[t][a]).at # "parked"
      BY <3>1 DEF Resent, FreeAsk, AskType
    <3> QED
      BY <2>2, <3>2, AskInv DEF Lost
  <2>3. CASE Served(t, a)
    <3> DEFINE q == IF ask[t][a].with = NoLogin \/ ask[t][a].with \in expired THEN [ask[t][a] EXCEPT !.at = "refused"] ELSE FreeAsk
    <3>1. q \in AskType /\ q.at # "parked"
      BY DEF FreeAsk, AskType, Steps
    <3>2. ask' = [ask EXCEPT ![t][a] = q]
      BY <2>3 DEF Served, ConsoleInv, ConsoleTypeOK
    <3> QED
      BY <2>3, <3>1, <3>2, AskInv DEF Served
  <2>4. CASE Drop(t, a)
    BY <2>4, AskInv DEF Drop, FreeAsk
  <2>5. CASE Park(t, a)
    <3> DEFINE q == [ask[t][a] EXCEPT !.at = "parked"]
    <3>1. q \in AskType
      BY DEF AskType, Steps
    <3>2. ask' = [ask EXCEPT ![t][a] = q]
      BY <2>5 DEF Park, ConsoleInv, ConsoleTypeOK
    <3> QED
      BY <2>5, <3>1, <3>2, AskInv DEF Park
  <2>6. CASE Refresh(t, a)
    BY <2>6 DEF Refresh, ConsoleInv, ConsoleTypeOK, ExchangeHasToken, ParkedIsAnswered, AskType, Steps, NoLogin
  <2>7. CASE NothingToRefresh(t, a)
    BY <2>7, GoToLoginInv DEF NothingToRefresh, ConsoleInv, ConsoleTypeOK
  <2> QED
    BY <1>8, <2>1, <2>2, <2>3, <2>4, <2>5, <2>6, <2>7
<1>9. CASE UNCHANGED console
  BY <1>9 DEF console, ConsoleInv, ConsoleTypeOK, ExchangeHasToken, ParkedIsAnswered
<1> QED
  BY <1>1, <1>2, <1>3, <1>4, <1>5, <1>6, <1>7, <1>8, <1>9 DEF ConsoleNext

\* The tokens, requests and exchanges of all tabs always have their types, and every exchange
\* has a token: api-client.ts, auth.store.ts.
THEOREM ConsoleInvariant == ConsoleSpec => []ConsoleInv
  BY ConsoleInitInv, ConsoleStepInv, PTL DEF ConsoleSpec

\* Every request that waits for new tokens waits for an exchange under way in its own tab,
\* however many tabs share the tokens and whatever answers are late or lost.
THEOREM ParkedIsAnsweredCorrect == ConsoleSpec => []ParkedIsAnswered
<1>1. ConsoleInv => ParkedIsAnswered
  BY DEF ConsoleInv
<1> QED
  BY <1>1, ConsoleInvariant, PTL

-----------------------------------------------------------------------------
(* UserDirectory: the role a user is listed under.                         *)

\* The list shows a role the user has, if the user has any.
Listed == granted # {} => entry.role \in granted

\* While no request has crossed another: nobody works before the user's row is written, and
\* then one at a time, with the row as it was loaded; a change of roles may leave the row
\* behind between its first request and the last write of its second.
OneAtATime ==
  /\ standing = "none" => welcome["cache"] = "none"
  /\ ~crossed =>
       /\ welcome["cache"] # "done" => granted \subseteq {"user"} /\ Working = {}
       /\ welcome["cache"] = "done" => entry.role \in RoleNames
       /\ \A p, q \in Working : p = q
       /\ \A p \in Working :
            /\ entry.status # "deleted"
            /\ desk[p].at \in {"put_assigned", "put_revoked", "put_status"} => desk[p].held = entry
            /\ desk[p].at \in {"assign", "answered", "put_status"} => Listed
       /\ Working = {} /\ welcome["cache"] = "done" /\ entry.status # "deleted" => Listed

\* The inductive invariant of the directory.
DirectoryInv == DirectoryTypeOK /\ OneAtATime

\* The initial state.
LEMMA DirectoryInitInv == DirectoryInit => DirectoryInv
<1> SUFFICES ASSUME DirectoryInit PROVE DirectoryInv
  OBVIOUS
<1>1. AtDesk \in DeskStates /\ DeskOK(AtDesk) /\ NoEntry \in Entries
  BY DEF AtDesk, DeskStates, DeskOK, NoEntry, Entries, RolePhases
<1>2. DirectoryTypeOK
  <2>1. desk \in [Pages -> DeskStates] /\ (\A p \in Pages : DeskOK(desk[p])) /\ entry \in Entries
    BY <1>1 DEF DirectoryInit
  <2>2. welcome \in [Consumers -> {"none", "sent", "done"}] /\ changes \in 0 .. MaxChanges
    BY DirectoryAssumption DEF DirectoryInit
  <2>3. crossed \in BOOLEAN
    BY Zenon DEF DirectoryInit
  <2> QED
    BY <2>1, <2>2, <2>3 DEF DirectoryInit, DirectoryTypeOK
<1>3. Working = {}
  BY DEF DirectoryInit, Working, AtDesk
<1>4. OneAtATime
  BY <1>3 DEF DirectoryInit, OneAtATime, Consumers
<1> QED
  BY <1>2, <1>4 DEF DirectoryInv

\* The rows of a step have their types, and so has the one page that moves.
LEMMA DeskMoves ==
  ASSUME DirectoryTypeOK, NEW p \in Pages, NEW d, DeskOK(d), desk' = [desk EXCEPT ![p] = d],
         granted' \subseteq RoleNames, standing' \in {"none", "active", "suspended", "inactive"}, entry' \in Entries,
         changes' \in 0 .. MaxChanges, crossed' \in BOOLEAN, UNCHANGED <<mirror, welcome>>
  PROVE  DirectoryTypeOK'
  BY DEF DirectoryTypeOK, DeskOK

\* The types are kept by every step.
LEMMA DirectoryStepType == DirectoryTypeOK /\ [DirectoryNext]_directory => DirectoryTypeOK'
<1> SUFFICES ASSUME DirectoryTypeOK, [DirectoryNext]_directory PROVE DirectoryTypeOK'
  OBVIOUS
<1> USE DirectoryAssumption
<1>1. CASE RegisterUser \/ GrantDefault
  BY <1>1 DEF DirectoryTypeOK, RegisterUser, GrantDefault, RoleNames, Consumers
<1>2. ASSUME NEW q \in Consumers, Welcomed(q) \/ WelcomedUnmarked(q) PROVE DirectoryTypeOK'
  <2>1. [role |-> "user", status |-> "active"] \in Entries
    BY DEF Entries, RoleNames
  <2> QED
    BY <1>2, <2>1 DEF DirectoryTypeOK, Welcomed, WelcomedUnmarked
<1>3. ASSUME NEW p \in Pages,
             \/ Pick(p) \/ Close(p) \/ (\E new \in RoleNames : ChangeRole(p, new))
             \/ AssignRole(p) \/ LoadAssigned(p) \/ PutAssigned(p)
             \/ RevokeRole(p) \/ LoadRevoked(p) \/ PutRevoked(p) \/ RoleChanged(p) \/ ChangeFails(p) \/ CacheFails(p)
             \/ (\E status \in {"suspended", "active"} : SetAccount(p, status))
             \/ PutStatus(p) \/ DeleteUser(p) \/ PutDeleted(p)
      PROVE  DirectoryTypeOK'
  <2> DEFINE d == desk'[p]
  <2>1. DeskOK(desk[p]) /\ entry \in Entries /\ DeskOK(AtDesk) /\ granted \subseteq RoleNames /\ crossed \in BOOLEAN
    BY DEF DirectoryTypeOK, AtDesk, DeskStates, DeskOK, NoEntry, Entries, RolePhases, RoleNames
  <2>2. desk' = [desk EXCEPT ![p] = d]
    BY <1>3 DEF DirectoryTypeOK, Pick, Close, ChangeRole, AssignRole, LoadAssigned, PutAssigned, RevokeRole, LoadRevoked,
                PutRevoked, RoleChanged, ChangeFails, CacheFails, SetAccount, PutStatus, DeleteUser, PutDeleted, To, HoldEntry
  <2> HIDE DEF d
  <2>3. CASE Pick(p) \/ Close(p) \/ (\E new \in RoleNames : ChangeRole(p, new))
    <3>1. DeskOK(d)
      BY <2>1, <2>3 DEF d, DirectoryTypeOK, Pick, Close, ChangeRole, AtDesk, NoEntry, DeskOK, DeskStates, RolePhases, RoleNames, Entries
    <3>2. crossed' \in BOOLEAN
      <4>1. CASE Pick(p) \/ Close(p)
        BY <2>1, <4>1 DEF Pick, Close
      <4>2. CASE \E new \in RoleNames : ChangeRole(p, new)
        <5>1. PICK new \in RoleNames : ChangeRole(p, new)
          BY <4>2
        <5> QED
          BY <5>1 DEF ChangeRole, Crosses
      <4> QED
        BY <2>3, <4>1, <4>2
    <3>3. changes' \in 0 .. MaxChanges /\ UNCHANGED <<granted, standing, entry, mirror, welcome>>
      BY <2>3 DEF DirectoryTypeOK, Pick, Close, ChangeRole
    <3>4. granted \subseteq RoleNames /\ standing \in {"none", "active", "suspended", "inactive"} /\ entry \in Entries
      BY DEF DirectoryTypeOK
    <3> QED
      BY <2>2, <3>1, <3>2, <3>3, <3>4, DeskMoves
  <2>4. CASE AssignRole(p) \/ LoadAssigned(p) \/ RevokeRole(p) \/ LoadRevoked(p)
    <3>1. DeskOK(d)
      BY <2>1, <2>4 DEF d, DirectoryTypeOK, AssignRole, LoadAssigned, RevokeRole, LoadRevoked, To, HoldEntry, DeskOK, DeskStates, RolePhases, RoleNames, Entries
    <3>2. granted' \subseteq RoleNames
      BY <2>1, <2>4 DEF AssignRole, LoadAssigned, RevokeRole, LoadRevoked, DeskOK, RolePhases
    <3> QED
      BY <2>2, <2>4, <3>1, <3>2, DeskMoves DEF DirectoryTypeOK, AssignRole, LoadAssigned, RevokeRole, LoadRevoked
  <2>5. CASE PutAssigned(p) \/ PutRevoked(p)
    <3>1. DeskOK(d)
      BY <2>1, <2>5 DEF d, DirectoryTypeOK, PutAssigned, PutRevoked, To, DeskOK, DeskStates, RolePhases, RoleNames, Entries
    <3>2. entry' \in Entries
      BY <2>1, <2>5 DEF PutAssigned, PutRevoked, PutEntry, Remaining, DeskOK, DeskStates, RolePhases, RoleNames, Entries
    <3> QED
      BY <2>2, <2>5, <3>1, <3>2, DeskMoves DEF DirectoryTypeOK, PutAssigned, PutRevoked
  <2>6. CASE RoleChanged(p) \/ ChangeFails(p) \/ CacheFails(p)
    <3>1. DeskOK(d)
      BY <2>1, <2>6 DEF d, DirectoryTypeOK, RoleChanged, ChangeFails, CacheFails, To, AtDesk, NoEntry, DeskOK, DeskStates, RolePhases, RoleNames, Entries
    <3>2. crossed' \in BOOLEAN
      <4>1. CASE RoleChanged(p)
        BY <2>1, <4>1 DEF RoleChanged
      <4>2. CASE ChangeFails(p)
        BY <4>2, Zenon DEF ChangeFails
      <4>3. CASE CacheFails(p)
        BY <4>3, Zenon DEF CacheFails
      <4> QED
        BY <2>6, <4>1, <4>2, <4>3
    <3> QED
      BY <2>2, <2>6, <3>1, <3>2, DeskMoves DEF DirectoryTypeOK, RoleChanged, ChangeFails, CacheFails
  <2>7. CASE (\E status \in {"suspended", "active"} : SetAccount(p, status)) \/ DeleteUser(p)
    <3>1. DeskOK(d)
      BY <2>1, <2>7 DEF d, DirectoryTypeOK, SetAccount, DeleteUser, To, DeskOK, DeskStates, RolePhases, RoleNames, Entries
    <3>2. crossed' \in BOOLEAN
      BY <2>7, Zenon DEF SetAccount, DeleteUser, Crosses
    <3> QED
      BY <2>2, <2>7, <3>1, <3>2, DeskMoves DEF DirectoryTypeOK, SetAccount, DeleteUser, Crosses
  <2>8. CASE PutStatus(p) \/ PutDeleted(p)
    <3>1. DeskOK(d)
      BY <2>1, <2>8 DEF d, DirectoryTypeOK, PutStatus, PutDeleted, AtDesk, NoEntry, DeskOK, DeskStates, RolePhases, RoleNames, Entries
    <3>2. entry' \in Entries
      BY <2>1, <2>8 DEF PutStatus, PutDeleted, PutEntry, GoneEntry, DeskOK, DeskStates, RolePhases, RoleNames, Entries
    <3> QED
      BY <2>2, <2>8, <3>1, <3>2, DeskMoves DEF DirectoryTypeOK, PutStatus, PutDeleted
  <2> QED
    BY <1>3, <2>3, <2>4, <2>5, <2>6, <2>7, <2>8
<1>4. CASE UNCHANGED directory
  BY <1>4 DEF directory, DirectoryTypeOK
<1> QED
  BY <1>1, <1>2, <1>3, <1>4 DEF DirectoryNext

\* What a page that works knows of the row, while no request has crossed another.
WorkOK(p) ==
  /\ entry.status # "deleted"
  /\ desk[p].at \in {"put_assigned", "put_revoked", "put_status"} => desk[p].held = entry
  /\ desk[p].at \in {"assign", "answered", "put_status"} => Listed

\* A page whose request has not been crossed is the only one at work.
LEMMA OnlyWorker ==
  ASSUME DirectoryInv, NEW p \in Pages, desk[p].at # "idle", ~crossed
  PROVE  Working = {p} /\ welcome["cache"] = "done" /\ entry.role \in RoleNames /\ WorkOK(p)
<1>1. p \in Working
  BY DEF Working
<1> QED
  BY <1>1 DEF DirectoryInv, OneAtATime, WorkOK

\* The order is kept when the only page at work goes on, or ends.
LEMMA WorkGoesOn ==
  ASSUME DirectoryInv, NEW p \in Pages, UNCHANGED welcome, standing' = "none" => standing = "none", crossed => crossed',
         \A r \in Pages : r # p => desk'[r] = desk[r],
         ~crossed' =>
           /\ Working \subseteq {p} /\ welcome["cache"] = "done" /\ entry'.role \in RoleNames
           /\ desk'[p].at # "idle" => WorkOK(p)'
           /\ desk'[p].at = "idle" /\ entry'.status # "deleted" => Listed'
  PROVE  OneAtATime'
<1>1. ~crossed' => Working' = IF desk'[p].at # "idle" THEN {p} ELSE {}
  BY DEF Working
<1> QED
  BY <1>1 DEF DirectoryInv, OneAtATime, WorkOK

\* The order of requests is kept by every step.
LEMMA DirectoryStepOrder == DirectoryInv /\ [DirectoryNext]_directory => OneAtATime'
<1> SUFFICES ASSUME DirectoryInv, [DirectoryNext]_directory PROVE OneAtATime'
  OBVIOUS
<1> USE DEF DirectoryInv
<1>1. CASE RegisterUser
  <2>1. Working' = Working /\ Listed' = Listed
    BY <1>1 DEF RegisterUser, Working, Listed
  <2> QED
    BY <1>1, <2>1 DEF RegisterUser, OneAtATime, DirectoryTypeOK, Consumers
<1>2. CASE GrantDefault
  <2>1. Working' = Working
    BY <1>2 DEF GrantDefault, Working
  <2> QED
    BY <1>2, <2>1 DEF GrantDefault, OneAtATime, DirectoryTypeOK, Listed
<1>3. ASSUME NEW q \in Consumers, Welcomed(q) \/ WelcomedUnmarked(q) PROVE OneAtATime'
  <2>1. Working' = Working
    BY <1>3 DEF Welcomed, WelcomedUnmarked, Working
  <2>2. CASE q = "cache"
    <3>1. welcome["cache"] = "sent" /\ entry' = [role |-> "user", status |-> "active"] /\ UNCHANGED <<granted, standing, crossed>>
      BY <1>3, <2>2 DEF Welcomed, WelcomedUnmarked
    <3>2. standing # "none" /\ (~crossed => granted \subseteq {"user"} /\ Working = {})
      BY <3>1 DEF OneAtATime
    <3>3. ~crossed' => Listed' /\ entry'.role \in RoleNames
      BY <3>1, <3>2 DEF Listed, RoleNames
    <3> QED
      BY <2>1, <3>1, <3>2, <3>3 DEF OneAtATime
  <2>3. CASE q # "cache"
    <3>1. welcome'["cache"] = welcome["cache"] /\ Listed' = Listed
      BY <1>3, <2>3 DEF Welcomed, WelcomedUnmarked, DirectoryTypeOK, Consumers, Listed
    <3> QED
      BY <1>3, <2>1, <2>3, <3>1 DEF Welcomed, WelcomedUnmarked, OneAtATime
  <2> QED
    BY <2>2, <2>3
<1>4. ASSUME NEW p \in Pages, ChangeFails(p) \/ RoleChanged(p) \/ Close(p) \/ Pick(p) PROVE OneAtATime'
  <2>1. crossed => crossed'
    BY <1>4 DEF ChangeFails, RoleChanged, Close, Pick
  <2>2. UNCHANGED <<granted, standing, entry, welcome>>
    BY <1>4 DEF ChangeFails, RoleChanged, Close, Pick
  <2>3. Listed' = Listed
    BY <2>2 DEF Listed
  <2>4. desk'[p].at = "idle" /\ \A r \in Pages : r # p => desk'[r] = desk[r]
    BY <1>4 DEF ChangeFails, RoleChanged, Close, Pick, DirectoryTypeOK, DeskStates, AtDesk
  <2>6. Working' = Working \ {p}
    BY <2>4 DEF Working
  <2>7. \A r \in Working' : desk'[r] = desk[r]
    BY <2>4, <2>6 DEF Working
  <2>5. ~crossed' /\ Working' = {} /\ welcome["cache"] = "done" /\ entry.status # "deleted" => Listed
    <3> SUFFICES ASSUME ~crossed', Working' = {}, welcome["cache"] = "done", entry.status # "deleted" PROVE Listed
      OBVIOUS
    <3>1. CASE desk[p].at = "idle"
      <4>1. Working = {}
        BY <2>4, <3>1 DEF Working
      <4> QED
        BY <2>1, <4>1 DEF OneAtATime
    <3>2. CASE desk[p].at # "idle"
      <4>1. p \in Working /\ desk[p].at \in {"assign", "answered"}
        BY <1>4, <3>2 DEF Working, ChangeFails, RoleChanged, Close, Pick
      <4> QED
        BY <2>1, <4>1 DEF OneAtATime
    <3> QED
      BY <3>1, <3>2
  <2> QED
    BY <2>1, <2>2, <2>3, <2>5, <2>6, <2>7 DEF OneAtATime
<1>5. ASSUME NEW p \in Pages, NEW new \in RoleNames, ChangeRole(p, new) PROVE OneAtATime'
  <2>1. (crossed => crossed') /\ UNCHANGED <<granted, entry, standing, welcome>>
    BY <1>5 DEF ChangeRole, Crosses
  <2>2. desk'[p].at = "assign" /\ \A r \in Pages : r # p => desk'[r] = desk[r]
    BY <1>5 DEF ChangeRole, DirectoryTypeOK, DeskStates
  <2>3. ~crossed' => ~crossed /\ Working = {} /\ welcome["cache"] = "done" /\ entry.status # "deleted"
    BY <1>5 DEF ChangeRole, Crosses
  <2>4. ~crossed' => Listed /\ entry.role \in RoleNames
    BY <2>3 DEF OneAtATime
  <2>5. ~crossed' => WorkOK(p)'
    BY <2>1, <2>2, <2>3, <2>4 DEF WorkOK, Listed
  <2> QED
    BY <2>1, <2>2, <2>3, <2>4, <2>5, WorkGoesOn
<1>6. ASSUME NEW p \in Pages, NEW status \in {"suspended", "active"}, SetAccount(p, status) PROVE OneAtATime'
  <2>1. (crossed => crossed') /\ UNCHANGED <<granted, entry, welcome>> /\ standing # "none" /\ standing' # "none"
    BY <1>6 DEF SetAccount, Crosses
  <2>2. desk'[p].at = "put_status" /\ desk'[p].held = entry /\ \A r \in Pages : r # p => desk'[r] = desk[r]
    BY <1>6 DEF SetAccount, DirectoryTypeOK, DeskStates
  <2>3. ~crossed' => ~crossed /\ Working = {} /\ welcome["cache"] = "done" /\ entry.status # "deleted"
    BY <1>6 DEF SetAccount, Crosses
  <2>4. ~crossed' => Listed /\ entry.role \in RoleNames
    BY <2>3 DEF OneAtATime
  <2>5. ~crossed' => WorkOK(p)'
    BY <2>1, <2>2, <2>3, <2>4 DEF WorkOK, Listed
  <2> QED
    BY <2>1, <2>2, <2>3, <2>4, <2>5, WorkGoesOn
<1>7. ASSUME NEW p \in Pages, DeleteUser(p) PROVE OneAtATime'
  <2>1. (crossed => crossed') /\ UNCHANGED <<granted, entry, welcome>> /\ standing # "none" /\ standing' # "none"
    BY <1>7 DEF DeleteUser, Crosses
  <2>2. desk'[p].at = "put_deleted" /\ \A r \in Pages : r # p => desk'[r] = desk[r]
    BY <1>7 DEF DeleteUser, To, DirectoryTypeOK, DeskStates
  <2>3. ~crossed' => ~crossed /\ Working = {} /\ welcome["cache"] = "done" /\ entry.status # "deleted"
    BY <1>7 DEF DeleteUser, Crosses
  <2>4. ~crossed' => entry.role \in RoleNames
    BY <2>3 DEF OneAtATime
  <2>5. ~crossed' => WorkOK(p)'
    BY <2>1, <2>2, <2>3 DEF WorkOK
  <2> QED
    BY <2>1, <2>2, <2>3, <2>4, <2>5, WorkGoesOn
<1>8. ASSUME NEW p \in Pages, AssignRole(p) \/ RevokeRole(p) PROVE OneAtATime'
  <2>1. UNCHANGED <<standing, entry, welcome, crossed>>
    BY <1>8 DEF AssignRole, RevokeRole
  <2>2. desk'[p].at \in {"assigned", "revoked"} /\ \A r \in Pages : r # p => desk'[r] = desk[r]
    BY <1>8 DEF AssignRole, RevokeRole, To, DirectoryTypeOK, DeskStates
  <2>3. ~crossed => Working = {p} /\ welcome["cache"] = "done" /\ entry.role \in RoleNames /\ WorkOK(p)
    BY <1>8, OnlyWorker DEF AssignRole, RevokeRole
  <2>4. ~crossed => WorkOK(p)'
    BY <2>1, <2>2, <2>3 DEF WorkOK
  <2> QED
    BY <2>1, <2>2, <2>3, <2>4, WorkGoesOn
<1>9. ASSUME NEW p \in Pages, LoadAssigned(p) \/ LoadRevoked(p) PROVE OneAtATime'
  <2>1. UNCHANGED <<standing, entry, welcome, crossed>>
    BY <1>9 DEF LoadAssigned, LoadRevoked
  <2>2. \A r \in Pages : r # p => desk'[r] = desk[r]
    BY <1>9 DEF LoadAssigned, LoadRevoked, HoldEntry, DirectoryTypeOK
  <2>3. ~crossed => Working = {p} /\ welcome["cache"] = "done" /\ entry.role \in RoleNames /\ WorkOK(p)
    BY <1>9, OnlyWorker DEF LoadAssigned, LoadRevoked
  <2>4. ~crossed => desk'[p].at \in {"put_assigned", "put_revoked"} /\ desk'[p].held = entry
    BY <1>9, <2>3 DEF LoadAssigned, LoadRevoked, HoldEntry, DirectoryTypeOK, DeskStates, NoEntry, RoleNames
  <2>5. ~crossed => WorkOK(p)'
    BY <2>1, <2>3, <2>4 DEF WorkOK
  <2> QED
    BY <2>1, <2>2, <2>3, <2>4, <2>5, WorkGoesOn
<1>10. ASSUME NEW p \in Pages, PutAssigned(p) \/ PutRevoked(p) PROVE OneAtATime'
  <2>1. UNCHANGED <<granted, standing, welcome, crossed>>
    BY <1>10 DEF PutAssigned, PutRevoked
  <2>2. \A r \in Pages : r # p => desk'[r] = desk[r]
    BY <1>10 DEF PutAssigned, PutRevoked, To, DirectoryTypeOK
  <2>3. ~crossed => Working = {p} /\ welcome["cache"] = "done" /\ desk[p].held = entry /\ entry.status # "deleted"
    BY <1>10, OnlyWorker DEF PutAssigned, PutRevoked, WorkOK
  <2>4. desk[p].held \in Entries /\ granted \subseteq RoleNames
    BY DEF DirectoryTypeOK, DeskStates
  <2>5. CASE PutAssigned(p)
    <3>1. desk[p].new \in RoleNames
      BY <2>5 DEF PutAssigned, DirectoryTypeOK, DeskOK, RolePhases
    <3>2. desk'[p].at = "revoke" /\ ~crossed => entry'.role \in RoleNames /\ entry'.status # "deleted"
      BY <2>3, <2>4, <2>5, <3>1 DEF PutAssigned, PutEntry, Entries
    <3>3. desk'[p].at = "revoke"
      BY <2>5 DEF PutAssigned, To, DirectoryTypeOK, DeskStates
    <3> QED
      BY <2>1, <2>2, <2>3, <3>2, <3>3, WorkGoesOn DEF WorkOK
  <2>6. CASE PutRevoked(p)
    <3>1. PICK role \in Remaining(p) : entry' = [desk[p].held EXCEPT !.role = role]
      BY <2>6 DEF PutRevoked, PutEntry
    <3>2. entry'.role = role /\ entry'.status = desk[p].held.status
      BY <2>4, <3>1 DEF Entries
    <3>3. role \in RoleNames /\ (granted # {} => role \in granted)
      BY <2>4 DEF Remaining, RoleNames
    <3>4. Listed'
      BY <2>1, <3>2, <3>3 DEF Listed
    <3>5. desk'[p].at = "answered"
      BY <2>6 DEF PutRevoked, To, DirectoryTypeOK, DeskStates
    <3> QED
      BY <2>1, <2>2, <2>3, <3>2, <3>3, <3>4, <3>5, WorkGoesOn DEF WorkOK
  <2> QED
    BY <1>10, <2>5, <2>6
<1>11. ASSUME NEW p \in Pages, CacheFails(p) PROVE OneAtATime'
  <2>1. (crossed => crossed') /\ UNCHANGED <<granted, standing, entry, welcome>>
    BY <1>11 DEF CacheFails
  <2>2. \A r \in Pages : r # p => desk'[r] = desk[r]
    BY <1>11 DEF CacheFails, To, DirectoryTypeOK
  <2>3. ~crossed => Working = {p} /\ welcome["cache"] = "done" /\ entry.role \in RoleNames /\ WorkOK(p)
    BY <1>11, OnlyWorker DEF CacheFails
  <2>4. ~crossed' => desk'[p].at = "revoke"
    BY <1>11 DEF CacheFails, To, DirectoryTypeOK, DeskStates
  <2>5. ~crossed' => WorkOK(p)'
    BY <2>1, <2>3, <2>4 DEF WorkOK
  <2> QED
    BY <2>1, <2>2, <2>3, <2>4, <2>5, WorkGoesOn
<1>12. ASSUME NEW p \in Pages, PutStatus(p) \/ PutDeleted(p) PROVE OneAtATime'
  <2>1. UNCHANGED <<granted, standing, welcome, crossed>>
    BY <1>12 DEF PutStatus, PutDeleted
  <2>2. desk'[p].at = "idle" /\ \A r \in Pages : r # p => desk'[r] = desk[r]
    BY <1>12 DEF PutStatus, PutDeleted, DirectoryTypeOK, DeskStates, AtDesk
  <2>3. CASE PutStatus(p)
    <3>1. ~crossed => Working = {p} /\ welcome["cache"] = "done" /\ entry.role \in RoleNames /\ desk[p].held = entry /\ Listed
      BY <2>3, OnlyWorker DEF PutStatus, WorkOK
    <3>2. ~crossed => entry'.role = entry.role
      BY <2>3, <3>1 DEF PutStatus, PutEntry, DirectoryTypeOK, Entries
    <3> QED
      BY <2>1, <2>2, <3>1, <3>2, WorkGoesOn DEF Listed
  <2>4. CASE PutDeleted(p)
    <3>1. ~crossed => Working = {p} /\ welcome["cache"] = "done"
      BY <2>4, OnlyWorker DEF PutDeleted
    <3>2. entry'.role \in RoleNames /\ entry'.status = "deleted"
      BY <2>4 DEF PutDeleted, PutEntry, GoneEntry, RoleNames
    <3> QED
      BY <2>1, <2>2, <3>1, <3>2, WorkGoesOn
  <2> QED
    BY <1>12, <2>3, <2>4
<1>13. CASE UNCHANGED directory
  BY <1>13 DEF directory, OneAtATime, Working, Listed
<1> QED
  BY <1>1, <1>2, <1>3, <1>4, <1>5, <1>6, <1>7, <1>8, <1>9, <1>10, <1>11, <1>12, <1>13 DEF DirectoryNext

\* The invariant is kept by every step.
LEMMA DirectoryStepInv == DirectoryInv /\ [DirectoryNext]_directory => DirectoryInv'
  BY DirectoryStepType, DirectoryStepOrder DEF DirectoryInv

\* What a request of the users page holds is the row as it stands, and a change of roles leaves
\* the row right, as long as no request crossed another (users/page.tsx, RevokeRoleUseCase).
THEOREM DirectoryInvariant == DirectorySpec => []DirectoryInv
  BY DirectoryInitInv, DirectoryStepInv, PTL DEF DirectorySpec

\* The console lists a user who has a role under a role the user has, for any pages and changes.
THEOREM ListedRoleIsGrantedCorrect == DirectorySpec => []ListedRoleIsGranted
<1>1. DirectoryInv => ListedRoleIsGranted
  BY DEF DirectoryInv, OneAtATime, ListedRoleIsGranted, Listed
<1> QED
  BY <1>1, DirectoryInvariant, PTL

-----------------------------------------------------------------------------
(* Upkeep: the time an incident was resolved.                              *)

\* A resolved incident says since when.
Timed(row) == row.status = "resolved" => row.resolvedAt \in 0 .. hour

\* The inductive invariant of the upkeep: an update may save a row read long ago, so what it
\* read has its time as well.
UpkeepInv ==
  /\ UpkeepTypeOK
  /\ \A i \in Tickets : Timed(ticket[i])
  /\ \A c \in Crew : chore[c].kind = "ticket" => Timed(chore[c].row)

\* The initial state.
LEMMA UpkeepInitInv == UpkeepInit => UpkeepInv
<1> SUFFICES ASSUME UpkeepInit PROVE UpkeepInv
  OBVIOUS
<1>1. hour \in Hours
  BY UpkeepAssumption DEF UpkeepInit, Hours
<1>2. UpkeepTypeOK
  BY <1>1 DEF UpkeepInit, UpkeepTypeOK, TicketRow, OrderRow
<1> QED
  BY <1>2 DEF UpkeepInit, UpkeepInv, Timed, NoTicket, NoChore

\* The row that resolveIncident saves: it has its time even when the row it was made of was
\* not resolved, or had been resolved before.
LEMMA PatchedRow ==
  ASSUME hour \in Hours, NEW row \in TicketRow, row.post \in Posts, NEW status \in TicketStatuses, Timed(row)
  PROVE  Patched(row, status) \in TicketRow /\ Timed(Patched(row, status))
<1> DEFINE at == IF status = "resolved" THEN hour ELSE row.resolvedAt
<1>0. row = [post |-> row.post, status |-> row.status, resolvedAt |-> row.resolvedAt]
  BY DEF TicketRow, NoTicket
<1>1. Patched(row, status) = [row EXCEPT !.status = status, !.resolvedAt = at]
  BY DEF Patched
<1>2. at \in Hours \cup {Never}
  BY DEF TicketRow, NoTicket
<1>3. status = "resolved" => at \in 0 .. hour
  BY UpkeepAssumption DEF Hours
<1> HIDE DEF at
<1>4. Patched(row, status) = [post |-> row.post, status |-> status, resolvedAt |-> at]
  BY <1>0, <1>1
<1> QED
  BY <1>2, <1>3, <1>4 DEF TicketRow, Timed

\* The invariant is kept by every step.
LEMMA UpkeepStepInv == UpkeepInv /\ [UpkeepNext]_upkeep => UpkeepInv'
<1> SUFFICES ASSUME UpkeepInv, [UpkeepNext]_upkeep PROVE UpkeepInv'
  OBVIOUS
<1> USE UpkeepAssumption
<1>0. UpkeepTypeOK /\ (\A i \in Tickets : Timed(ticket[i])) /\ \A c \in Crew : chore[c].kind = "ticket" => Timed(chore[c].row)
  BY DEF UpkeepInv
<1>1. CASE PassHour
  <2>1. hour' \in Hours /\ \A h \in 0 .. hour : h \in 0 .. hour'
    BY <1>0, <1>1 DEF PassHour, UpkeepTypeOK, Hours
  <2> QED
    BY <1>0, <1>1, <2>1 DEF PassHour, UpkeepInv, UpkeepTypeOK, Timed
<1>2. ASSUME NEW c \in Crew, SaveTicket(c) PROVE UpkeepInv'
  <2>1. chore[c] \in TicketChores
    BY <1>0, <1>2 DEF SaveTicket, UpkeepTypeOK, NoChore, OrderChores
  <2> DEFINE row == Patched(chore[c].row, chore[c].status)
  <2>2. chore[c].row \in TicketRow /\ chore[c].row.post \in Posts /\ chore[c].status \in TicketStatuses /\ Timed(chore[c].row)
    BY <1>0, <1>2, <2>1 DEF SaveTicket, TicketChores
  <2>3. row \in TicketRow /\ Timed(row)
    BY <1>0, <2>2, PatchedRow DEF UpkeepTypeOK
  <2>4. ticket' = [ticket EXCEPT ![chore[c].of] = row] /\ chore' = [chore EXCEPT ![c] = NoChore] /\ UNCHANGED <<hour, order, sheet>>
    BY <1>2 DEF SaveTicket
  <2> HIDE DEF row
  <2>5. UpkeepTypeOK'
    BY <1>0, <2>3, <2>4 DEF UpkeepTypeOK
  <2>6. \A r : Timed(r)' <=> Timed(r)
    BY <2>4 DEF Timed
  <2>7. \A i \in Tickets : Timed(ticket'[i])
    BY <1>0, <2>3, <2>4 DEF UpkeepTypeOK
  <2>8. \A d \in Crew : chore'[d].kind = "ticket" => Timed(chore'[d].row)
    BY <1>0, <2>4 DEF UpkeepTypeOK, NoChore
  <2> QED
    BY <2>4, <2>5, <2>7, <2>8 DEF UpkeepInv, Timed
<1>3. ASSUME NEW c \in Crew, SaveOrder(c) PROVE UpkeepInv'
  <2>1. chore[c] \in OrderChores
    BY <1>0, <1>3 DEF SaveOrder, UpkeepTypeOK, NoChore, TicketChores
  <2> DEFINE row == chore[c].row
  <2>4. row \in OrderRow /\ row.post \in Posts /\ chore[c].end \in Hours /\ chore[c].of \in Orders
    BY <2>1 DEF OrderChores
  <2>5. row = [post |-> row.post, start |-> row.start, end |-> row.end] /\ (row \in [post : Posts, start : Hours, end : Hours] \/ row = NoOrder)
    BY <2>4 DEF OrderRow, NoOrder
  <2>2. [row EXCEPT !.end = chore[c].end] \in OrderRow
    BY <2>4, <2>5, NoPostAssumption DEF OrderRow, NoOrder
  <2>3. UpkeepTypeOK'
    BY <1>0, <1>3, <2>2 DEF SaveOrder, UpkeepTypeOK
  <2> QED
    BY <1>0, <1>3, <2>3 DEF SaveOrder, UpkeepInv, UpkeepTypeOK, Timed, NoChore
<1>4. ASSUME NEW c \in Crew, ReadSheet(c) PROVE UpkeepInv'
  <2>1. OpenTickets(c) \cup OpenOrders(c) \subseteq Tickets \cup Orders
    BY DEF OpenTickets, OpenOrders
  <2>2. UpkeepTypeOK'
    BY <1>0, <1>4, <2>1 DEF ReadSheet, UpkeepTypeOK
  <2> QED
    BY <1>0, <1>4, <2>2 DEF ReadSheet, UpkeepInv, Timed
<1>5. ASSUME NEW c \in Crew, NEW i \in Tickets, NEW p \in Posts, ReportIncident(c, i, p) PROVE UpkeepInv'
  <2>1. [post |-> p, status |-> "pending_confirmation", resolvedAt |-> Never] \in TicketRow
    BY DEF TicketRow, TicketStatuses
  <2>2. UpkeepTypeOK'
    BY <1>0, <1>5, <2>1 DEF ReportIncident, UpkeepTypeOK
  <2> QED
    BY <1>0, <1>5, <2>2 DEF ReportIncident, UpkeepInv, UpkeepTypeOK, Timed
<1>6. ASSUME NEW c \in Crew, NEW i \in Tickets, NEW status \in TicketStatuses, Resolve(c, i, status) PROVE UpkeepInv'
  <2> DEFINE new == [kind |-> "ticket", of |-> i, row |-> ticket[i], status |-> status]
  <2>1. ticket[i].post \in Posts /\ chore' = [chore EXCEPT ![c] = new] /\ UNCHANGED <<hour, ticket, order, sheet>>
    BY <1>6 DEF Resolve, LoadTicket
  <2>2. new \in TicketChores /\ new.row = ticket[i]
    BY <1>0, <2>1 DEF UpkeepTypeOK, TicketChores
  <2> HIDE DEF new
  <2>3. UpkeepTypeOK'
    BY <1>0, <2>1, <2>2 DEF UpkeepTypeOK
  <2> QED
    BY <1>0, <2>1, <2>2, <2>3 DEF UpkeepInv, UpkeepTypeOK, Timed
<1>7. ASSUME NEW c \in Crew, NEW m \in Orders, NEW p \in Posts, NEW from \in Hours, NEW to \in Hours,
             ScheduleMaintenance(c, m, p, from, to)
      PROVE  UpkeepInv'
  <2>1. UpkeepTypeOK'
    BY <1>0, <1>7 DEF ScheduleMaintenance, UpkeepTypeOK, OrderRow
  <2> QED
    BY <1>0, <1>7, <2>1 DEF ScheduleMaintenance, UpkeepInv, Timed
<1>8. ASSUME NEW c \in Crew, NEW m \in Orders, Complete(c, m) PROVE UpkeepInv'
  <2> DEFINE new == [kind |-> "order", of |-> m, row |-> order[m], end |-> hour]
  <2>1. order[m].post \in Posts /\ chore' = [chore EXCEPT ![c] = new] /\ UNCHANGED <<hour, ticket, order, sheet>>
    BY <1>8 DEF Complete, LoadOrder
  <2>2. new \in OrderChores /\ new.kind = "order"
    BY <1>0, <2>1 DEF UpkeepTypeOK, OrderChores
  <2> HIDE DEF new
  <2>3. UpkeepTypeOK'
    BY <1>0, <2>1, <2>2 DEF UpkeepTypeOK
  <2> QED
    BY <1>0, <2>1, <2>2, <2>3 DEF UpkeepInv, UpkeepTypeOK, Timed
<1>9. CASE UNCHANGED upkeep
  BY <1>0, <1>9 DEF upkeep, UpkeepInv, UpkeepTypeOK, Timed
<1> QED
  BY <1>1, <1>2, <1>3, <1>4, <1>5, <1>6, <1>7, <1>8, <1>9 DEF UpkeepNext

\* Rows, and the rows that updates have read, have their types and times (resolveIncident).
THEOREM UpkeepInvariant == UpkeepSpec => []UpkeepInv
  BY UpkeepInitInv, UpkeepStepInv, PTL DEF UpkeepSpec

\* An incident that is resolved says since when, however many updates of it cross.
THEOREM ResolvedHasItsTimeCorrect == UpkeepSpec => []ResolvedHasItsTime
<1>1. UpkeepInv => ResolvedHasItsTime
  BY DEF UpkeepInv, ResolvedHasItsTime, Timed
<1> QED
  BY <1>1, UpkeepInvariant, PTL

-----------------------------------------------------------------------------
(* StationCatalog: what the session service knows of a station.            *)

\* The events of a station, and those that have reached the read model.
Of(s) == {i \in DOMAIN told : told[i].of = s}
Reached(i) == told[i].at \in {"applied", "cancelling", "done"}

\* The row has the status that was told last.
RowTells(s) ==
  \/ Of(s) = {} /\ site[s].status = "active"
  \/ \E i \in Of(s) : (\A j \in Of(s) : j <= i) /\ site[s].status = told[i].status

\* An event that waits, or is looked up, has not been marked.
MarkedOnce(s) == \A i \in Of(s) : told[i].at \in {"sent", "new"} => i \notin noted

\* The read model has the status of the last event that reached it.
KnownTells(s) ==
  /\ (\A i \in Of(s) : ~Reached(i)) => known[s]
  /\ \A i \in Of(s) : Reached(i) /\ (\A j \in Of(s) : Reached(j) => j <= i) => (known[s] <=> told[i].status = "active")

\* Where no bookings are taken, a booking to come was late, or some handler will cancel it.
BookingsFollow(s) ==
  known[s] \/ \A b \in Upcoming(s) :
    visit[b].placed = "late" \/ \E i \in Of(s) : told[i].at = "applied" \/ (told[i].at = "cancelling" /\ b \in told[i].left)

\* The inductive invariant of the catalogue.
InOrder(s) == s \in torn \/ (MarkedOnce(s) /\ KnownTells(s) /\ BookingsFollow(s))
CatalogInv == CatalogTypeOK /\ \A s \in Seeded : RowTells(s) /\ InOrder(s)

\* The initial state.
LEMMA CatalogInitInv == CatalogInit => CatalogInv
<1> SUFFICES ASSUME CatalogInit PROVE CatalogInv
  OBVIOUS
<1>1. site \in [Stations -> SiteRow] /\ \A s \in Seeded : site[s].status = "active"
  BY SeededAssumption DEF CatalogInit
<1>2. Seeded \subseteq Existing
  BY <1>1, SeededAssumption DEF Existing, NoSite
<1>3. told = <<>> /\ told \in Seq(StatusEvents) /\ noted \subseteq DOMAIN told
  BY DEF CatalogInit
<1>4. CatalogTypeOK
  BY <1>1, <1>2, <1>3 DEF CatalogInit, CatalogTypeOK, FreePage, SiteRow, NoVisit, VisitStates
<1>5. \A s \in Seeded : Of(s) = {} /\ known[s] /\ Upcoming(s) = {}
  BY <1>3 DEF CatalogInit, Of, Upcoming, NoVisit
<1> QED
  BY <1>1, <1>4, <1>5 DEF CatalogInv, RowTells, InOrder, MarkedOnce, KnownTells, BookingsFollow

\* A row that is written is there, and the others stay.
LEMMA RowWritten ==
  ASSUME CatalogTypeOK, NEW o \in Stations, NEW row \in SiteRow \ {NoSite}, site' = [site EXCEPT ![o] = row]
  PROVE  /\ site' \in [Stations -> SiteRow] /\ site'[o] = row /\ \A s \in Stations \ {o} : site'[s] = site[s]
         /\ Existing \subseteq Existing' /\ o \in Existing'
  BY DEF CatalogTypeOK, Existing

\* Events are a function on their places.
LEMMA EventPlaces ==
  ASSUME CatalogTypeOK
  PROVE  Len(told) \in Nat /\ DOMAIN told = 1 .. Len(told) /\ told \in [1 .. Len(told) -> StatusEvents]
  BY DEF CatalogTypeOK

\* How far an event may have been handled.
Places == {"sent", "new", "noted", "applied", "cancelling", "done"}

\* One event is handled further.
Moved(i, x, y) ==
  /\ told' \in Seq(StatusEvents) /\ DOMAIN told' = DOMAIN told
  /\ told'[i].at = x /\ told'[i].left = y /\ told'[i].of = told[i].of /\ told'[i].status = told[i].status
  /\ \A j \in DOMAIN told : j # i => told'[j] = told[j]
  /\ \A s \in Stations : Of(s)' = Of(s)

LEMMA EventMoves ==
  ASSUME CatalogTypeOK, NEW i \in DOMAIN told, NEW x \in Places, NEW y \in SUBSET Visits,
         \/ told' = [told EXCEPT ![i].at = x, ![i].left = y]
         \/ y = told[i].left /\ told' = [told EXCEPT ![i].at = x]
         \/ x = told[i].at /\ told' = [told EXCEPT ![i].left = y]
  PROVE  Moved(i, x, y)
<1> DEFINE e == [of |-> told[i].of, status |-> told[i].status, left |-> y, at |-> x]
<1>1. told \in [1 .. Len(told) -> StatusEvents] /\ DOMAIN told = 1 .. Len(told) /\ Len(told) \in Nat
  BY EventPlaces
<1>2. told[i] = [of |-> told[i].of, status |-> told[i].status, left |-> told[i].left, at |-> told[i].at]
  BY <1>1 DEF StatusEvents
<1>3. told' = [told EXCEPT ![i] = e]
  BY <1>1, <1>2
<1>4. e \in StatusEvents /\ e.of = told[i].of /\ e.status = told[i].status /\ e.left = y /\ e.at = x
  BY <1>1 DEF StatusEvents, Places
<1> HIDE DEF e
<1>5. told' \in [1 .. Len(told) -> StatusEvents]
  BY <1>1, <1>3, <1>4
<1>6. told' \in Seq(StatusEvents)
  BY <1>1, <1>5
<1>7. DOMAIN told' = DOMAIN told /\ told'[i] = e /\ \A j \in DOMAIN told : j # i => told'[j] = told[j]
  BY <1>1, <1>3
<1>8. \A s : Of(s)' = Of(s)
  BY <1>4, <1>7 DEF Of
<1> QED
  BY <1>4, <1>6, <1>7, <1>8 DEF Moved

\* One event is told.
LEMMA EventTold ==
  ASSUME CatalogTypeOK, NEW o \in Stations, NEW status \in SiteStatuses, TellStatus(o, status)
  PROVE  /\ told' \in Seq(StatusEvents) /\ DOMAIN told' = DOMAIN told \cup {Len(told) + 1}
         /\ Len(told) + 1 \notin DOMAIN told /\ \A i \in DOMAIN told : told'[i] = told[i] /\ i <= Len(told) + 1
         /\ told'[Len(told) + 1] = [of |-> o, status |-> status, at |-> "sent", left |-> {}]
<1> DEFINE e == [of |-> o, status |-> status, at |-> "sent", left |-> {}]
<1>1. e \in StatusEvents
  BY DEF StatusEvents
<1>2. told' = Append(told, e)
  BY DEF TellStatus
<1> HIDE DEF e
<1>3. told \in Seq(StatusEvents) /\ Len(told) \in Nat /\ DOMAIN told = 1 .. Len(told)
  BY DEF CatalogTypeOK
<1>4. told' \in Seq(StatusEvents) /\ Len(told') = Len(told) + 1 /\ DOMAIN told' = 1 .. Len(told) + 1
  BY <1>1, <1>2, <1>3
<1>5. told'[Len(told) + 1] = e /\ \A i \in DOMAIN told : told'[i] = told[i]
  BY <1>1, <1>2, <1>3
<1> QED
  BY <1>3, <1>4, <1>5 DEF e

\* A page of its type.
PageStates ==
  {form \in [at : {"idle", "adding", "deleting"}, of : Stations \cup {NoStation}, copy : SiteRow, row : SiteRow] :
     (form.at # "idle" => form.row # NoSite) /\ (form.at = "deleting" => form.of # NoStation)}

\* The page that moves keeps its type, while no station is lost.
LEMMA PageMoves ==
  ASSUME CatalogTypeOK, NEW d \in MapPages, NEW form \in PageStates, mapPage' = [mapPage EXCEPT ![d] = form],
         Existing \subseteq Existing', form.of # NoStation => form.of \in Existing'
  PROVE  /\ mapPage' \in [MapPages -> [at : {"idle", "adding", "deleting"}, of : Stations \cup {NoStation},
                                      copy : SiteRow, row : SiteRow]]
         /\ \A m \in MapPages :
              /\ mapPage'[m].of # NoStation => mapPage'[m].of \in Existing'
              /\ mapPage'[m].at # "idle" => mapPage'[m].row # NoSite
              /\ mapPage'[m].at = "deleting" => mapPage'[m].of # NoStation
<1>1. \A m \in MapPages : mapPage[m] \in PageStates /\ (mapPage[m].of # NoStation => mapPage[m].of \in Existing)
  BY DEF CatalogTypeOK, PageStates
<1>2. mapPage' \in [MapPages -> PageStates] /\ \A m \in MapPages : mapPage'[m] = IF m = d THEN form ELSE mapPage[m]
  BY <1>1 DEF CatalogTypeOK
<1> QED
  BY <1>1, <1>2 DEF PageStates

\* What a step of a page does.
PageStep(d) ==
  \/ \E s \in Stations : Select(d, s) \/ InsertStation(d, s)
  \/ \E p \in Spots : CheckSpot(d, p)
  \/ \E row \in SiteRow : EditStation(d, row)
  \/ LoadDelete(d) \/ CommitDelete(d)

\* Of a seeded station, a page changes nothing, or writes a status and tells it.
LEMMA PageStepFacts ==
  ASSUME CatalogTypeOK, NEW d \in MapPages, PageStep(d)
  PROVE  /\ CatalogTypeOK'
         /\ UNCHANGED <<noted, known, visit, torn>>
         /\ \/ UNCHANGED told /\ \A s \in Seeded : site'[s] = site[s]
            \/ \E o \in Stations, status \in SiteStatuses :
                 TellStatus(o, status) /\ site'[o].status = status /\ \A s \in Seeded \ {o} : site'[s] = site[s]
<1> USE SeededAssumption
<1>0. UNCHANGED <<noted, known, visit, torn>>
  BY DEF PageStep, Select, InsertStation, CheckSpot, EditStation, LoadDelete, CommitDelete
<1>1. mapPage[d] \in PageStates /\ (mapPage[d].of # NoStation => mapPage[d].of \in Existing) /\ Existing \subseteq Stations
  BY DEF CatalogTypeOK, PageStates, Existing
<1>2. CASE (\E s \in Stations : Select(d, s)) \/ (\E p \in Spots : CheckSpot(d, p)) \/ LoadDelete(d)
  <2> DEFINE form == mapPage'[d]
  <2>1. UNCHANGED <<site, told>>
    BY <1>2 DEF Select, CheckSpot, LoadDelete
  <2>2. mapPage' = [mapPage EXCEPT ![d] = form]
    BY <1>2 DEF Select, CheckSpot, LoadDelete, CatalogTypeOK
  <2>3. Existing' = Existing
    BY <2>1 DEF Existing
  <2>4. form \in PageStates /\ (form.of # NoStation => form.of \in Existing)
    <3>1. CASE \E s \in Stations : Select(d, s)
      <4>1. PICK s \in Stations : Select(d, s)
        BY <3>1
      <4>2. s \in Existing /\ site[s] \in SiteRow
        BY <4>1 DEF Select, CatalogTypeOK
      <4>3. form = [mapPage[d] EXCEPT !.of = s, !.copy = site[s]]
        BY <4>1 DEF Select, CatalogTypeOK
      <4>4. mapPage[d].at = "idle" /\ s \in Stations
        BY <4>1 DEF Select
      <4> HIDE DEF form
      <4>5. form.at = "idle" /\ form.of = s /\ form.copy = site[s] /\ form.row = mapPage[d].row
        BY <1>1, <4>3, <4>4 DEF PageStates
      <4>6. form \in [at : {"idle", "adding", "deleting"}, of : Stations \cup {NoStation}, copy : SiteRow, row : SiteRow]
        BY <1>1, <4>2, <4>3, <4>4 DEF PageStates
      <4> QED
        BY <4>2, <4>5, <4>6 DEF PageStates
    <3>2. CASE \E p \in Spots : CheckSpot(d, p)
      <4>1. PICK p \in Spots : CheckSpot(d, p)
        BY <3>2
      <4>2. [status |-> "active", spot |-> p] \in SiteRow \ {NoSite}
        BY DEF SiteRow, SiteStatuses, NoSite
      <4> QED
        BY <1>1, <4>1, <4>2 DEF CheckSpot, CatalogTypeOK, PageStates
    <3>3. CASE LoadDelete(d)
      <4>1. site[mapPage[d].of] \in SiteRow \ {NoSite}
        BY <1>1, <3>3 DEF LoadDelete, CatalogTypeOK, Existing
      <4> QED
        BY <1>1, <3>3, <4>1 DEF LoadDelete, CatalogTypeOK, PageStates
    <3> QED
      BY <1>2, <3>1, <3>2, <3>3
  <2> HIDE DEF form
  <2>5. CatalogTypeOK'
    BY <1>0, <2>1, <2>2, <2>3, <2>4, PageMoves DEF CatalogTypeOK
  <2> QED
    BY <1>0, <2>1, <2>5
<1>3. ASSUME NEW s \in Stations, InsertStation(d, s)
      PROVE  CatalogTypeOK' /\ UNCHANGED told /\ \A z \in Seeded : site'[z] = site[z]
  <2> DEFINE form == [FreePage EXCEPT !.of = s, !.copy = mapPage[d].row]
  <2>1. mapPage[d].row \in SiteRow \ {NoSite} /\ site' = [site EXCEPT ![s] = mapPage[d].row]
        /\ mapPage' = [mapPage EXCEPT ![d] = form] /\ UNCHANGED told /\ s \notin Existing
    BY <1>1, <1>3 DEF InsertStation, PageStates
  <2>2. /\ site' \in [Stations -> SiteRow] /\ \A z \in Stations \ {s} : site'[z] = site[z]
        /\ Existing \subseteq Existing' /\ s \in Existing'
    BY <2>1, RowWritten
  <2>3. form \in PageStates /\ form.of = s
    BY <2>1 DEF PageStates, FreePage, SiteRow
  <2> HIDE DEF form
  <2>4. CatalogTypeOK'
    BY <1>0, <2>1, <2>2, <2>3, PageMoves DEF CatalogTypeOK
  <2>5. s \notin Seeded
    BY <2>1 DEF CatalogTypeOK
  <2> QED
    BY <2>1, <2>2, <2>4, <2>5
<1>4. ASSUME NEW o \in Stations, NEW row \in SiteRow \ {NoSite}, NEW form \in PageStates,
             site' = [site EXCEPT ![o] = row], TellStatus(o, row.status), mapPage' = [mapPage EXCEPT ![d] = form],
             form.of # NoStation => form.of \in Existing
      PROVE  /\ CatalogTypeOK'
             /\ \E a \in Stations, status \in SiteStatuses :
                  TellStatus(a, status) /\ site'[a].status = status /\ \A s \in Seeded \ {a} : site'[s] = site[s]
  <2>1. /\ site' \in [Stations -> SiteRow] /\ site'[o] = row /\ \A s \in Stations \ {o} : site'[s] = site[s]
        /\ Existing \subseteq Existing'
    BY <1>4, RowWritten
  <2>2. row.status \in SiteStatuses
    BY DEF SiteRow
  <2>3. told' \in Seq(StatusEvents) /\ DOMAIN told \subseteq DOMAIN told'
    BY <1>4, <2>2, EventTold
  <2>4. CatalogTypeOK'
    BY <1>0, <1>4, <2>1, <2>3, PageMoves DEF CatalogTypeOK
  <2> QED
    BY <1>4, <2>1, <2>2, <2>4
<1>5. CASE \E row \in SiteRow : EditStation(d, row)
  <2>1. PICK row \in SiteRow : EditStation(d, row)
    BY <1>5
  <2> DEFINE form == [mapPage[d] EXCEPT !.copy = row]
  <2>2. row \in SiteRow \ {NoSite} /\ mapPage[d].of \in Stations /\ site' = [site EXCEPT ![mapPage[d].of] = row]
        /\ TellStatus(mapPage[d].of, row.status) /\ mapPage' = [mapPage EXCEPT ![d] = form]
    BY <1>1, <2>1 DEF EditStation, CatalogTypeOK
  <2>3. form \in PageStates /\ form.of = mapPage[d].of
    BY <1>1 DEF PageStates
  <2> HIDE DEF form
  <2> QED
    BY <1>0, <1>1, <1>4, <2>2, <2>3
<1>6. CASE CommitDelete(d)
  <2> DEFINE row == [mapPage[d].row EXCEPT !.status = "inactive"]
  <2>1. mapPage[d].row \in SiteRow \ {NoSite} /\ mapPage[d].of \in Stations
    BY <1>1, <1>6 DEF CommitDelete, PageStates
  <2>2. row \in SiteRow \ {NoSite} /\ row.status = "inactive"
    BY <2>1 DEF SiteRow, SiteStatuses, NoSite
  <2>3. site' = [site EXCEPT ![mapPage[d].of] = row] /\ TellStatus(mapPage[d].of, row.status)
        /\ mapPage' = [mapPage EXCEPT ![d] = FreePage]
    BY <1>6, <2>2 DEF CommitDelete
  <2>4. FreePage \in PageStates /\ FreePage.of = NoStation
    BY DEF FreePage, PageStates, SiteRow
  <2> HIDE DEF row
  <2> QED
    BY <1>0, <1>4, <2>1, <2>2, <2>3, <2>4
<1> QED
  BY <1>0, <1>2, <1>3, <1>5, <1>6 DEF PageStep, Select, CheckSpot, LoadDelete

\* The invariant after an event has been handled further, station by station.
LEMMA EventHandled ==
  ASSUME CatalogInv, NEW i \in DOMAIN told,
         NEW x \in Places, NEW y \in SUBSET Visits, Moved(i, x, y),
         UNCHANGED <<site, mapPage>>, noted \subseteq noted', noted' \subseteq noted \cup {i}, torn \subseteq torn', torn' \subseteq Stations,
         known' \in [Seeded -> BOOLEAN],
         visit' \in [Visits -> VisitStates],
         x \in {"sent", "new"} /\ told[i].of \in Seeded \ torn' => i \notin noted',
         \A s \in Seeded \ torn' : CatalogTypeOK' => KnownTells(s)' /\ BookingsFollow(s)'
  PROVE  CatalogInv'
<1>0. CatalogTypeOK
  BY DEF CatalogInv
<1>1. /\ told' \in Seq(StatusEvents) /\ DOMAIN told' = DOMAIN told
      /\ told'[i].at = x /\ told'[i].left = y /\ told'[i].of = told[i].of /\ told'[i].status = told[i].status
      /\ \A j \in DOMAIN told : j # i => told'[j] = told[j]
      /\ \A s \in Seeded : Of(s)' = Of(s)
  BY SeededAssumption DEF Moved
<1>2. Existing' = Existing
  BY DEF Existing
<1>3. CatalogTypeOK'
  BY <1>0, <1>1, <1>2 DEF CatalogTypeOK
<1>4. ASSUME NEW s \in Seeded PROVE RowTells(s)'
  <2>1. RowTells(s) /\ \A j \in DOMAIN told : told'[j].status = told[j].status
    BY <1>1 DEF CatalogInv
  <2>2. Of(s)' = Of(s) /\ site' = site /\ Of(s) \subseteq DOMAIN told
    BY <1>1 DEF Of
  <2> QED
    BY <2>1, <2>2 DEF RowTells
<1>5. ASSUME NEW s \in Seeded \ torn' PROVE MarkedOnce(s)'
  <2>1. MarkedOnce(s)
    BY DEF CatalogInv, InOrder
  <2>2. ASSUME NEW j \in Of(s), told'[j].at \in {"sent", "new"} PROVE j \notin noted'
    <3>1. CASE j = i
      BY <1>1, <2>2, <3>1 DEF Of
    <3>2. CASE j # i
      BY <1>1, <2>1, <2>2, <3>2 DEF Of, MarkedOnce
    <3> QED
      BY <3>1, <3>2
  <2>3. Of(s)' = Of(s)
    BY <1>1
  <2> QED
    BY <2>2, <2>3 DEF MarkedOnce
<1> QED
  BY <1>3, <1>4, <1>5 DEF CatalogInv, InOrder

\* What the handler of one event does.
EventStep(i) ==
  \/ Take(i) \/ Note(i) \/ ApplyStatus(i) \/ Search(i) \/ Finish(i) \/ Die(i)
  \/ \E b \in Visits : SystemCancel(i, b)

\* The invariant is kept by the handlers.
LEMMA EventStepInv ==
  ASSUME CatalogInv, NEW i \in DOMAIN told, EventStep(i)
  PROVE  CatalogInv'
<1>0. /\ CatalogTypeOK /\ told[i] \in StatusEvents /\ told[i].left \in SUBSET Visits /\ told[i].of \in Stations
      /\ known \in [Seeded -> BOOLEAN] /\ noted \subseteq DOMAIN told /\ torn \subseteq Stations
      /\ visit \in [Visits -> VisitStates]
      /\ \A s \in Seeded \ torn : MarkedOnce(s) /\ KnownTells(s) /\ BookingsFollow(s)
      /\ \A s \in Seeded : Of(s) \subseteq DOMAIN told
  BY EventPlaces DEF CatalogInv, CatalogTypeOK, InOrder, StatusEvents, Of
<1>1. ASSUME NEW x \in Places, x \in {"done", "new", "noted"}, told' = [told EXCEPT ![i].at = x], told[i].at \in {"sent", "new"},
             UNCHANGED <<site, mapPage, known, visit, torn>>, noted \subseteq noted', noted' \subseteq noted \cup {i},
             x = "new" => i \notin noted', x = "done" => i \in noted
      PROVE  CatalogInv'
  <2>1. Moved(i, x, told[i].left)
    BY <1>0, <1>1, EventMoves
  <2>2. /\ DOMAIN told' = DOMAIN told
        /\ told'[i].at = x /\ told'[i].left = told[i].left /\ told'[i].of = told[i].of /\ told'[i].status = told[i].status
        /\ \A j \in DOMAIN told : j # i => told'[j] = told[j]
        /\ \A s \in Seeded : Of(s)' = Of(s)
    BY <2>1, SeededAssumption DEF Moved
  <2>3. ASSUME NEW s \in Seeded \ torn PROVE KnownTells(s)' /\ BookingsFollow(s)'
    <3>1. told[i].of = s => x # "done"
      BY <1>0, <1>1 DEF MarkedOnce, Of
    <3>2. \A j \in Of(s) : Reached(j)' <=> Reached(j)
      BY <1>0, <1>1, <2>2, <3>1 DEF Reached, Of
    <3>3. \A j \in Of(s) : told'[j].status = told[j].status
      BY <1>0, <2>2
    <3>4. KnownTells(s)'
      BY <1>0, <1>1, <2>2, <3>2, <3>3 DEF KnownTells
    <3>5. \A j \in Of(s) : told[j].at \in {"applied", "cancelling"} => told'[j] = told[j]
      BY <1>0, <1>1, <2>2
    <3>6. Upcoming(s)' = Upcoming(s)
      BY <1>1 DEF Upcoming
    <3>7. BookingsFollow(s)'
      BY <1>0, <1>1, <2>2, <3>5, <3>6 DEF BookingsFollow
    <3> QED
      BY <3>4, <3>7
  <2> QED
    BY <1>0, <1>1, <2>1, <2>3, EventHandled
<1>6. CASE Take(i)
  <2> DEFINE x == IF i \in noted THEN "done" ELSE "new"
  <2>1. told' = [told EXCEPT ![i].at = x] /\ UNCHANGED <<site, mapPage, noted, known, visit, torn>> /\ told[i].at = "sent"
    BY <1>6 DEF Take
  <2>2. x \in Places /\ x \in {"done", "new", "noted"} /\ (x = "new" => i \notin noted) /\ (x = "done" => i \in noted)
    BY DEF Places
  <2> HIDE DEF x
  <2> QED
    BY <1>1, <2>1, <2>2
<1>7. CASE Note(i)
  <2>1. told' = [told EXCEPT ![i].at = "noted"] /\ UNCHANGED <<site, mapPage, known, visit, torn>> /\ told[i].at = "new"
        /\ noted' = noted \cup {i} /\ "noted" \in Places
    BY <1>7 DEF Note, Places
  <2> QED
    BY <1>1, <2>1
<1>2. CASE ApplyStatus(i)
  <2> DEFINE x == IF told[i].status = "active" THEN "done" ELSE "applied"
  <2>1. /\ told' = [told EXCEPT ![i].at = x] /\ told[i].at = "noted" /\ UNCHANGED <<site, mapPage, noted, visit>>
        /\ known' = [s \in Seeded |-> IF s = told[i].of THEN told[i].status = "active" ELSE known[s]]
        /\ torn \subseteq torn' /\ torn' \subseteq Stations /\ (Overtaken(i) => told[i].of \in torn')
    BY <1>0, <1>2 DEF ApplyStatus
  <2>2. x \in {"applied", "done"} /\ (x = "done" <=> told[i].status = "active")
    OBVIOUS
  <2> HIDE DEF x
  <2>6. Moved(i, x, told[i].left) /\ x \in Places
    <3>1. x \in Places
      BY <2>2 DEF Places
    <3> QED
      BY <1>0, <2>1, <3>1, EventMoves
  <2>3. /\ DOMAIN told' = DOMAIN told
        /\ told'[i].at = x /\ told'[i].left = told[i].left /\ told'[i].of = told[i].of /\ told'[i].status = told[i].status
        /\ \A j \in DOMAIN told : j # i => told'[j] = told[j]
        /\ \A s \in Seeded : Of(s)' = Of(s)
    BY <2>6, SeededAssumption DEF Moved
  <2>4. known' \in [Seeded -> BOOLEAN]
    BY <1>0, <2>1, Zenon
  <2>5. ASSUME NEW s \in Seeded \ torn' PROVE KnownTells(s)' /\ BookingsFollow(s)'
    <3>0. Upcoming(s)' = Upcoming(s) /\ MarkedOnce(s) /\ KnownTells(s) /\ BookingsFollow(s) /\ Of(s)' = Of(s)
      BY <1>0, <2>1, <2>3 DEF Upcoming
    <3>1. CASE told[i].of = s
      <4>1. i \in Of(s) /\ (known'[s] <=> told[i].status = "active")
        BY <2>1, <3>1 DEF Of
      <4>2. \A j \in Of(s) : j # i /\ Reached(j) => j <= i
        <5>1. ~Overtaken(i)
          BY <2>1, <3>1
        <5>2. ASSUME NEW j \in Of(s), j # i, Reached(j), ~(j <= i) PROVE FALSE
          <6>1. DOMAIN told = 1 .. Len(told) /\ Len(told) \in Nat
            BY <1>0, EventPlaces
          <6>2. j \in (i + 1) .. Len(told) /\ told[j].of = told[i].of
            BY <3>1, <5>2, <6>1 DEF Of
          <6> QED
            BY <5>1, <5>2, <6>2 DEF Overtaken, Reached
        <5> QED
          BY <5>2
      <4>3. Reached(i)' /\ \A j \in Of(s) : j # i => (Reached(j)' <=> Reached(j))
        BY <1>0, <2>2, <2>3 DEF Reached
      <4>4. ASSUME NEW k \in Of(s), Reached(k)', \A j \in Of(s) : Reached(j)' => j <= k
            PROVE  k = i
        <5>1. k \in 1 .. Len(told) /\ i \in 1 .. Len(told) /\ Len(told) \in Nat
          BY <1>0, <4>1, EventPlaces
        <5>2. i <= k /\ (k # i => k <= i)
          BY <4>1, <4>2, <4>3, <4>4
        <5> QED
          BY <5>1, <5>2
      <4>5. KnownTells(s)'
        BY <2>3, <3>0, <4>1, <4>3, <4>4 DEF KnownTells
      <4>6. BookingsFollow(s)'
        BY <2>2, <2>3, <3>0, <4>1 DEF BookingsFollow
      <4> QED
        BY <4>5, <4>6
    <3>2. CASE told[i].of # s
      <4>1. \A j \in Of(s) : told'[j] = told[j]
        BY <1>0, <2>3, <3>2 DEF Of
      <4>2. known'[s] = known[s]
        BY <1>0, <2>1, <3>2
      <4>3. KnownTells(s)'
        BY <3>0, <4>1, <4>2 DEF KnownTells, Reached
      <4>4. BookingsFollow(s)'
        BY <2>1, <3>0, <4>1, <4>2 DEF BookingsFollow
      <4> QED
        BY <4>3, <4>4
    <3> QED
      BY <3>1, <3>2
  <2> QED
    BY <1>0, <2>1, <2>2, <2>4, <2>5, <2>6, EventHandled
<1>3. ASSUME NEW x \in Places, NEW y \in SUBSET Visits, Moved(i, x, y),
             \/ x = "cancelling" /\ y = Upcoming(told[i].of) /\ told[i].at = "applied"
             \/ x = "done" /\ y = told[i].left /\ told[i].at = "cancelling" /\ y = {},
             UNCHANGED <<site, mapPage, noted, known, visit, torn>>
      PROVE  CatalogInv'
  <2>3. /\ DOMAIN told' = DOMAIN told
        /\ told'[i].at = x /\ told'[i].left = y /\ told'[i].of = told[i].of /\ told'[i].status = told[i].status
        /\ \A j \in DOMAIN told : j # i => told'[j] = told[j]
        /\ \A s \in Seeded : Of(s)' = Of(s)
    BY <1>3, SeededAssumption DEF Moved
  <2>4. ASSUME NEW s \in Seeded \ torn PROVE KnownTells(s)' /\ BookingsFollow(s)'
    <3>0. Upcoming(s)' = Upcoming(s) /\ KnownTells(s) /\ BookingsFollow(s) /\ Of(s)' = Of(s) /\ known'[s] = known[s]
      BY <1>0, <1>3, <2>3 DEF Upcoming
    <3>1. \A j \in Of(s) : (Reached(j)' <=> Reached(j)) /\ told'[j].status = told[j].status
      BY <1>0, <1>3, <2>3 DEF Reached
    <3>2. KnownTells(s)'
      BY <3>0, <3>1 DEF KnownTells
    <3>3. ASSUME NEW b \in Upcoming(s), NEW j \in Of(s), told[j].at = "applied" \/ (told[j].at = "cancelling" /\ b \in told[j].left)
          PROVE  told'[j].at = "applied" \/ (told'[j].at = "cancelling" /\ b \in told'[j].left)
      <4>1. CASE j = i
        BY <1>3, <2>3, <3>3, <4>1 DEF Of
      <4>2. CASE j # i
        BY <1>0, <2>3, <3>3, <4>2
      <4> QED
        BY <4>1, <4>2
    <3>4. BookingsFollow(s)'
      BY <1>3, <3>0, <3>3 DEF BookingsFollow
    <3> QED
      BY <3>2, <3>4
  <2> QED
    BY <1>0, <1>3, <2>4, EventHandled
<1>8. CASE Search(i)
  <2>1. Upcoming(told[i].of) \in SUBSET Visits /\ "cancelling" \in Places
    BY DEF Upcoming, Places
  <2>2. Moved(i, "cancelling", Upcoming(told[i].of)) /\ told[i].at = "applied" /\ UNCHANGED <<site, mapPage, noted, known, visit, torn>>
    BY <1>0, <1>8, <2>1, EventMoves DEF Search
  <2> QED
    BY <1>3, <2>1, <2>2
<1>9. CASE Finish(i)
  <2>1. told[i].left \in SUBSET Visits /\ "done" \in Places
    BY <1>0 DEF Places
  <2>2. /\ Moved(i, "done", told[i].left) /\ told[i].at = "cancelling" /\ told[i].left = {}
        /\ UNCHANGED <<site, mapPage, noted, known, visit, torn>>
    BY <1>0, <1>9, <2>1, EventMoves DEF Finish
  <2> QED
    BY <1>3, <2>1, <2>2
<1>4. ASSUME NEW b \in Visits, SystemCancel(i, b) PROVE CatalogInv'
  <2> DEFINE y == told[i].left \ {b}
  <2>1. /\ told[i].at = "cancelling" /\ told' = [told EXCEPT ![i].left = y] /\ UNCHANGED <<site, mapPage, noted, known, torn>>
        /\ y \in SUBSET Visits
    BY <1>0, <1>4 DEF SystemCancel
  <2>2. visit' \in [Visits -> VisitStates]
    <3>1. PICK x \in {"cancelled", visit[b].at} : visit' = [visit EXCEPT ![b].at = x] /\ (x # visit[b].at => visit[b].at # "free")
      BY <1>4 DEF SystemCancel
    <3>2. [visit[b] EXCEPT !.at = x] \in VisitStates
      BY <1>0, <3>1 DEF VisitStates
    <3> QED
      BY <1>0, <3>1, <3>2
  <2>3. visit'[b].at \notin {"pending_payment", "confirmed"} /\ \A z \in Visits : z # b => visit'[z] = visit[z]
    BY <1>0, <1>4 DEF SystemCancel
  <2>4. \A z \in y : z # b
    OBVIOUS
  <2>5. \A z \in told[i].left : z # b => z \in y
    OBVIOUS
  <2> HIDE DEF y
  <2>8. Moved(i, told[i].at, y) /\ told[i].at \in Places
    <3>1. told[i].at \in Places
      BY <1>0 DEF StatusEvents, Places
    <3> QED
      BY <1>0, <2>1, <3>1, EventMoves
  <2>6. /\ DOMAIN told' = DOMAIN told
        /\ told'[i].at = told[i].at /\ told'[i].left = y /\ told'[i].of = told[i].of /\ told'[i].status = told[i].status
        /\ \A j \in DOMAIN told : j # i => told'[j] = told[j]
        /\ \A s \in Seeded : Of(s)' = Of(s)
    BY <2>8, SeededAssumption DEF Moved
  <2>7. ASSUME NEW s \in Seeded \ torn PROVE KnownTells(s)' /\ BookingsFollow(s)'
    <3>0. KnownTells(s) /\ BookingsFollow(s) /\ Of(s)' = Of(s) /\ known'[s] = known[s]
      BY <1>0, <2>1, <2>6
    <3>1. \A j \in Of(s) : told'[j].at = told[j].at /\ told'[j].status = told[j].status
      BY <1>0, <2>6
    <3>2. KnownTells(s)'
      BY <3>0, <3>1 DEF KnownTells, Reached
    <3>3. ASSUME NEW z \in Upcoming(s)' PROVE z \in Upcoming(s) /\ z # b /\ visit'[z] = visit[z]
      BY <2>3, <3>3 DEF Upcoming
    <3>4. ASSUME NEW z \in Upcoming(s)', NEW j \in Of(s), told[j].at = "applied" \/ (told[j].at = "cancelling" /\ z \in told[j].left)
          PROVE  told'[j].at = "applied" \/ (told'[j].at = "cancelling" /\ z \in told'[j].left)
      BY <1>0, <2>5, <2>6, <3>1, <3>3, <3>4
    <3>5. BookingsFollow(s)'
      BY <3>0, <3>3, <3>4 DEF BookingsFollow
    <3> QED
      BY <3>2, <3>5
  <2> QED
    BY <1>0, <2>1, <2>2, <2>7, <2>8, EventHandled
<1>5. ASSUME NEW x \in Places, x \in {"sent", "done"}, told' = [told EXCEPT ![i].at = x, ![i].left = {}],
             told[i].at = "new" => x = "sent", UNCHANGED <<site, mapPage, noted, known, visit>>,
             torn \subseteq torn', torn' \subseteq Stations, told[i].at # "new" => told[i].of \in torn'
      PROVE  CatalogInv'
  <2>1. Moved(i, x, {})
    BY <1>0, <1>5, EventMoves
  <2>2. /\ DOMAIN told' = DOMAIN told
        /\ told'[i].at = x /\ told'[i].left = {} /\ told'[i].of = told[i].of /\ told'[i].status = told[i].status
        /\ \A j \in DOMAIN told : j # i => told'[j] = told[j]
        /\ \A s \in Seeded : Of(s)' = Of(s)
    BY <2>1, SeededAssumption DEF Moved
  <2>3. ASSUME NEW s \in Seeded \ torn' PROVE KnownTells(s)' /\ BookingsFollow(s)'
    <3>0. Upcoming(s)' = Upcoming(s) /\ KnownTells(s) /\ BookingsFollow(s) /\ Of(s)' = Of(s) /\ known'[s] = known[s]
      BY <1>0, <1>5, <2>2 DEF Upcoming
    <3>1. i \in Of(s) => told[i].at = "new" /\ x = "sent"
      BY <1>5 DEF Of
    <3>2. \A j \in Of(s) : (Reached(j)' <=> Reached(j)) /\ told'[j].status = told[j].status
      BY <1>0, <2>2, <3>1 DEF Reached
    <3>3. \A j \in Of(s) : told[j].at \in {"applied", "cancelling"} => told'[j] = told[j]
      BY <1>0, <2>2, <3>1
    <3>4. KnownTells(s)'
      BY <3>0, <3>2 DEF KnownTells
    <3>6. ASSUME NEW b \in Upcoming(s), NEW j \in Of(s), told[j].at = "applied" \/ (told[j].at = "cancelling" /\ b \in told[j].left)
          PROVE  told'[j].at = "applied" \/ (told'[j].at = "cancelling" /\ b \in told'[j].left)
      BY <3>3, <3>6
    <3>7. visit' = visit
      BY <1>5
    <3>5. BookingsFollow(s)'
      BY <3>0, <3>6, <3>7 DEF BookingsFollow
    <3> QED
      BY <3>4, <3>5
  <2>4. x \in {"sent", "new"} /\ told[i].of \in Seeded \ torn' => i \notin noted'
    BY <1>0, <1>5 DEF MarkedOnce, Of
  <2> QED
    BY <1>0, <1>5, <2>1, <2>3, <2>4, EventHandled
<1>10. CASE Die(i)
  <2>1. torn \subseteq torn' /\ torn' \subseteq Stations /\ (told[i].at # "new" => told[i].of \in torn')
    BY <1>0, <1>10 DEF Die
  <2>2. UNCHANGED <<site, mapPage, noted, known, visit>> /\ "sent" \in Places /\ "done" \in Places
    BY <1>10 DEF Die, Places
  <2>3. \/ told' = [told EXCEPT ![i].at = "sent", ![i].left = {}]
        \/ told[i].at # "new" /\ told' = [told EXCEPT ![i].at = "done", ![i].left = {}]
    BY <1>10 DEF Die
  <2> QED
    BY <1>5, <2>1, <2>2, <2>3
<1> QED
  BY <1>2, <1>4, <1>6, <1>7, <1>8, <1>9, <1>10 DEF EventStep

\* The invariant is kept by the pages: a status that is told is that of the row.
LEMMA PageStepInv ==
  ASSUME CatalogInv, NEW d \in MapPages, PageStep(d)
  PROVE  CatalogInv'
<1>0. CatalogTypeOK /\ noted \subseteq DOMAIN told
  BY DEF CatalogInv, CatalogTypeOK
<1>1. CatalogTypeOK' /\ UNCHANGED <<noted, known, visit, torn>>
  BY <1>0, PageStepFacts
<1>2. \A s \in Seeded : Upcoming(s)' = Upcoming(s)
  BY <1>1 DEF Upcoming
<1>3. CASE UNCHANGED told /\ \A s \in Seeded : site'[s] = site[s]
  <2>1. \A s \in Seeded : Of(s)' = Of(s)
    BY <1>3 DEF Of
  <2> QED
    BY <1>1, <1>2, <1>3, <2>1 DEF CatalogInv, RowTells, InOrder, MarkedOnce, KnownTells, BookingsFollow, Reached
<1>4. ASSUME NEW o \in Stations, NEW status \in SiteStatuses,
             TellStatus(o, status), site'[o].status = status, \A s \in Seeded \ {o} : site'[s] = site[s]
      PROVE  CatalogInv'
  <2> DEFINE n == Len(told) + 1
  <2>1. /\ DOMAIN told' = DOMAIN told \cup {n} /\ n \notin DOMAIN told
        /\ \A i \in DOMAIN told : told'[i] = told[i] /\ i <= n
        /\ told'[n] = [of |-> o, status |-> status, at |-> "sent", left |-> {}]
    BY <1>0, <1>4, EventTold
  <2>2. n \in Nat
    BY <1>0, EventPlaces
  <2> HIDE DEF n
  <2>3. \A s \in Seeded : Of(s)' = IF s = o THEN Of(s) \cup {n} ELSE Of(s)
    BY <2>1 DEF Of
  <2>4. \A s \in Seeded : \A i \in Of(s) : told'[i] = told[i] /\ i <= n /\ i # n
    BY <2>1 DEF Of
  <2>5. ASSUME NEW s \in Seeded PROVE RowTells(s)'
    <3>1. CASE s = o
      <4>1. n \in Of(s)' /\ \A j \in Of(s)' : j <= n
        BY <2>2, <2>3, <2>4, <3>1
      <4>2. site'[s].status = told'[n].status
        BY <1>4, <2>1, <3>1
      <4> QED
        BY <4>1, <4>2 DEF RowTells
    <3>2. CASE s # o
      <4>1. Of(s)' = Of(s) /\ site'[s] = site[s] /\ RowTells(s)
        BY <1>4, <2>3, <3>2 DEF CatalogInv
      <4> QED
        BY <2>4, <4>1 DEF RowTells
    <3> QED
      BY <3>1, <3>2
  <2>6. ASSUME NEW s \in Seeded \ torn PROVE MarkedOnce(s)' /\ KnownTells(s)' /\ BookingsFollow(s)'
    <3>0. MarkedOnce(s) /\ KnownTells(s) /\ BookingsFollow(s) /\ known'[s] = known[s]
      BY <1>1 DEF CatalogInv, InOrder
    <3>1. \A i \in Of(s)' : i \in Of(s) \/ (i = n /\ told'[n].at = "sent")
      BY <2>1, <2>3
    <3>2. Of(s) \subseteq Of(s)'
      BY <2>3
    <3>3. MarkedOnce(s)'
      <4>1. n \notin noted'
        BY <1>0, <1>1, <2>1
      <4> QED
        BY <1>1, <2>4, <3>0, <3>1, <4>1 DEF MarkedOnce
    <3>4. \A i \in Of(s)' : Reached(i)' => i \in Of(s) /\ Reached(i)
      BY <2>4, <3>1 DEF Reached
    <3>5. \A i \in Of(s) : Reached(i)' <=> Reached(i)
      BY <2>4 DEF Reached
    <3>6. KnownTells(s)'
      BY <2>4, <3>0, <3>2, <3>4, <3>5 DEF KnownTells
    <3>7. BookingsFollow(s)'
      BY <1>1, <1>2, <2>4, <3>0, <3>2 DEF BookingsFollow
    <3> QED
      BY <3>3, <3>6, <3>7
  <2> QED
    BY <1>1, <2>5, <2>6 DEF CatalogInv, InOrder
<1> QED
  BY <1>0, <1>1, <1>3, <1>4, PageStepFacts

\* The invariant is kept by the customers: a booking that is placed where none are taken is late.
LEMMA VisitStepInv ==
  ASSUME CatalogInv, NEW b \in Visits,
         (\E s \in Seeded : AskBooking(b, s)) \/ PlaceBooking(b) \/ ConfirmBooking(b) \/ BeginTime(b)
  PROVE  CatalogInv'
<1>0. CatalogTypeOK /\ visit[b] \in VisitStates
  BY DEF CatalogInv, CatalogTypeOK
<1>1. UNCHANGED <<site, mapPage, told, noted, known, torn>>
  BY DEF AskBooking, PlaceBooking, ConfirmBooking, BeginTime
<1>2. /\ visit'[b] \in VisitStates
      /\ visit' = [visit EXCEPT ![b] = visit'[b]]
  <2>1. CASE \E s \in Seeded : AskBooking(b, s)
    <3>1. PICK s \in Seeded : AskBooking(b, s)
      BY <2>1
    <3> DEFINE v == [NoVisit EXCEPT !.at = "asked", !.of = s]
    <3>2. visit' = [visit EXCEPT ![b] = v]
      BY <3>1 DEF AskBooking
    <3>3. v \in VisitStates
      BY DEF VisitStates, NoVisit
    <3> HIDE DEF v
    <3> QED
      BY <1>0, <3>2, <3>3 DEF CatalogTypeOK
  <2>2. CASE PlaceBooking(b)
    <3> DEFINE when == IF known[visit[b].of] THEN "timely" ELSE "late"
               v == [visit[b] EXCEPT !.at = "pending_payment", !.placed = when]
    <3>1. visit[b].of \in Seeded /\ visit \in [Visits -> VisitStates]
      BY <1>0, <2>2 DEF PlaceBooking, VisitStates, CatalogTypeOK
    <3>2. visit' = [visit EXCEPT ![b].at = "pending_payment", ![b].placed = when] /\ when \in {"timely", "late"}
      BY <2>2 DEF PlaceBooking
    <3> HIDE DEF when
    <3>3. v \in VisitStates
      BY <1>0, <3>1, <3>2 DEF VisitStates
    <3>4. visit' = [visit EXCEPT ![b] = v]
      BY <3>1, <3>2
    <3> HIDE DEF v
    <3> QED
      BY <3>1, <3>3, <3>4
  <2>3. CASE ConfirmBooking(b) \/ BeginTime(b)
    <3>1. PICK x \in {"confirmed", "begun"} : visit' = [visit EXCEPT ![b].at = x]
      BY <2>3 DEF ConfirmBooking, BeginTime
    <3>2. [visit[b] EXCEPT !.at = x] \in VisitStates
      <4>1. visit[b].of \in Seeded
        BY <1>0, <2>3 DEF ConfirmBooking, BeginTime, VisitStates
      <4> QED
        BY <1>0, <4>1 DEF VisitStates
    <3> QED
      BY <1>0, <3>1, <3>2 DEF CatalogTypeOK
  <2> QED
    BY <2>1, <2>2, <2>3
<1>3. visit' \in [Visits -> VisitStates]
      /\ \A z \in Visits : z # b => visit'[z] = visit[z]
  BY <1>0, <1>2 DEF CatalogTypeOK
<1>4. Existing' = Existing
  BY <1>1 DEF Existing
<1>5. CatalogTypeOK'
  BY <1>0, <1>1, <1>3, <1>4 DEF CatalogTypeOK
<1>6. ASSUME NEW s \in Seeded, ~known[s] PROVE \A z \in Upcoming(s)' : (z \in Upcoming(s) /\ visit'[z].placed = visit[z].placed) \/ visit'[z].placed = "late"
  <2>1. b \in Upcoming(s)' => (b \in Upcoming(s) /\ visit'[b].placed = visit[b].placed) \/ visit'[b].placed = "late"
    <3>1. CASE PlaceBooking(b)
      <4>1. visit'[b].placed = (IF known[visit[b].of] THEN "timely" ELSE "late") /\ visit'[b].of = visit[b].of
        BY <1>0, <3>1 DEF PlaceBooking, CatalogTypeOK, VisitStates
      <4> QED
        BY <1>6, <4>1 DEF Upcoming
    <3>2. CASE \E z \in Seeded : AskBooking(b, z)
      <4>1. PICK z \in Seeded : visit' = [visit EXCEPT ![b] = [NoVisit EXCEPT !.at = "asked", !.of = z]]
        BY <3>2 DEF AskBooking
      <4>2. [NoVisit EXCEPT !.at = "asked", !.of = z].at = "asked"
        BY DEF NoVisit
      <4>3. visit'[b].at = "asked"
        BY <1>0, <4>1, <4>2 DEF CatalogTypeOK
      <4> QED
        BY <4>3 DEF Upcoming
    <3>3. CASE ConfirmBooking(b) \/ BeginTime(b)
      BY <1>0, <3>3 DEF ConfirmBooking, BeginTime, CatalogTypeOK, VisitStates, Upcoming
    <3> QED
      BY <3>1, <3>2, <3>3
  <2>2. \A z \in Visits : z # b /\ z \in Upcoming(s)' => z \in Upcoming(s) /\ visit'[z].placed = visit[z].placed
    BY <1>3 DEF Upcoming
  <2> QED
    BY <2>1, <2>2 DEF Upcoming
<1>7. ASSUME NEW s \in Seeded PROVE RowTells(s)' /\ InOrder(s)'
  <2>1. RowTells(s) /\ InOrder(s) /\ Of(s)' = Of(s)
    BY <1>1 DEF CatalogInv, Of
  <2>2. BookingsFollow(s) => BookingsFollow(s)'
    BY <1>1, <1>6, <2>1 DEF BookingsFollow
  <2> QED
    BY <1>1, <2>1, <2>2 DEF RowTells, InOrder, MarkedOnce, KnownTells, Reached
<1> QED
  BY <1>5, <1>7 DEF CatalogInv

\* The invariant is kept by every step.
LEMMA CatalogStepInv == CatalogInv /\ [CatalogNext]_catalog => CatalogInv'
<1> SUFFICES ASSUME CatalogInv, [CatalogNext]_catalog PROVE CatalogInv'
  OBVIOUS
<1>1. CASE \E d \in MapPages : PageStep(d)
  BY <1>1, PageStepInv
<1>2. CASE \E i \in DOMAIN told : EventStep(i)
  BY <1>2, EventStepInv
<1>3. CASE \E b \in Visits : (\E s \in Seeded : AskBooking(b, s)) \/ PlaceBooking(b) \/ ConfirmBooking(b) \/ BeginTime(b)
  BY <1>3, VisitStepInv
<1>4. CASE UNCHANGED catalog
  <2>1. \A s \in Seeded : Of(s)' = Of(s) /\ Upcoming(s)' = Upcoming(s)
    BY <1>4 DEF catalog, Of, Upcoming
  <2>2. CatalogTypeOK'
    BY <1>4 DEF catalog, CatalogInv, CatalogTypeOK, Existing
  <2> QED
    BY <1>4, <2>1, <2>2 DEF catalog, CatalogInv, RowTells, InOrder, MarkedOnce, KnownTells, BookingsFollow, Reached
<1> QED
  BY <1>1, <1>2, <1>3, <1>4 DEF CatalogNext, PageStep, EventStep

\* The row of a station has the status told last, its chargers that of the last event that
\* reached them, and every booking to come at a station that takes none is late or about to be
\* cancelled, for any stations, pages, events and bookings (StationStatusChangedConsumer).
THEOREM CatalogInvariant == CatalogSpec => []CatalogInv
  BY CatalogInitInv, CatalogStepInv, PTL DEF CatalogSpec

\* Once all events of a station are handled in order, the session service follows its row.
THEOREM ModelFollowsStationCorrect == CatalogSpec => []ModelFollowsStation
<1>1. ASSUME CatalogInv, NEW s \in Seeded, Settled(s)
      PROVE  (known[s] <=> site[s].status = "active") /\ (known[s] \/ \A b \in Upcoming(s) : visit[b].placed = "late")
  <2>1. RowTells(s) /\ KnownTells(s) /\ BookingsFollow(s)
    BY <1>1 DEF CatalogInv, InOrder, Settled
  <2>2. \A i \in Of(s) : told[i].at = "done" /\ Reached(i)
    BY <1>1 DEF Settled, Of, Reached
  <2>3. known[s] \in BOOLEAN
    BY <1>1 DEF CatalogInv, CatalogTypeOK
  <2>4. known[s] <=> site[s].status = "active"
    BY <2>1, <2>2, <2>3 DEF RowTells, KnownTells
  <2>5. known[s] \/ \A b \in Upcoming(s) : visit[b].placed = "late"
    BY <2>1, <2>2 DEF BookingsFollow
  <2> QED
    BY <2>4, <2>5
<1>2. CatalogInv => ModelFollowsStation
  BY <1>1 DEF ModelFollowsStation
<1> QED
  BY <1>2, CatalogInvariant, PTL

-----------------------------------------------------------------------------
(* The console's parts together, beside the bookings.                      *)

PagesInv == ConsoleInv /\ DirectoryInv /\ UpkeepInv /\ CatalogInv

THEOREM PagesInvariant == BookingAndConsole => []PagesInv
<1>1. PagesInit => PagesInv
  BY ConsoleInitInv, DirectoryInitInv, UpkeepInitInv, CatalogInitInv DEF PagesInit, PagesInv
<1>2. PagesInv /\ [PagesNext]_<<vars, console, directory, catalog, upkeep, part>> => PagesInv'
  <2> SUFFICES ASSUME PagesInv, [PagesNext]_<<vars, console, directory, catalog, upkeep, part>> PROVE PagesInv'
    OBVIOUS
  <2>1. [ConsoleNext]_console /\ [DirectoryNext]_directory /\ [UpkeepNext]_upkeep /\ [CatalogNext]_catalog
    BY DEF PagesNext
  <2> QED
    BY <2>1, ConsoleStepInv, DirectoryStepInv, UpkeepStepInv, CatalogStepInv DEF PagesInv
<1> QED
  BY <1>1, <1>2, PTL DEF BookingAndConsole

\* The tabs, the rows behind the console's pages and the copies of them have their types.
THEOREM ConsolePagesTypesCorrect == BookingAndConsole => []ConsolePagesTypeOK
<1>1. PagesInv => ConsolePagesTypeOK
  BY DEF PagesInv, ConsoleInv, DirectoryInv, UpkeepInv, CatalogInv, ConsolePagesTypeOK
<1> QED
  BY <1>1, PagesInvariant, PTL
=============================================================================
