--------------------------- MODULE SessionBilling ---------------------------
(***************************************************************************)
(* What happens to a charging session after it is stopped: its notice      *)
(* session.completed is billed by billing-service, whose notice            *)
(* payment.completed closes the session in session-service; meanwhile idle *)
(* fees are added, late meter values arrive, and a session that stays      *)
(* stopped is announced again.  Every consumer remembers a notice before   *)
(* it works on it.  How the wallet pays is in Payments, how the charger is *)
(* given back in ChargerSession.                                           *)
(***************************************************************************)
EXTENDS Integers, FiniteSets, Sequences

CONSTANTS
  Stays,      \* charging sessions
  Booked,     \* those of a booking, whose deposit was paid before
  Guests,     \* those of the kiosk's guest, or of a user without a wallet
  NoStay,
  Billers,    \* deliveries billing-service handles at once
  Closers,    \* deliveries of payment.completed session-service handles at once
  Readers,    \* deliveries of late telemetry it handles at once
  MaxForced,  \* bound: notices of StoppedSessionBillingJob
  MaxIdle,    \* bound: idle fees added
  MaxMeter    \* bound: meter values

ASSUME BillingAssumption ==
  /\ NoStay \notin Stays
  /\ IsFiniteSet(Billers) /\ IsFiniteSet(Closers)
  /\ {MaxForced, MaxIdle, MaxMeter} \subseteq Nat

VARIABLES
  stay,      \* charging_sessions: status
  meter,     \* end_meter_wh, 0 while it is null
  idle,      \* idle_fee_vnd
  notice,    \* notices of the session's end: what they say, and whether they wait
  billKeys,  \* processed_events of billing-service
  biller,
  bills,     \* the bills of every session
  receipts,  \* payment.completed of bills, waiting
  deposit,   \* payment.completed of deposits: waiting or gone
  closeKeys, \* processed_events of session-service, those of a deposit's transaction
  closer,
  reader,
  adjusted,  \* sessions for which an adjustment of the bill was published
  raced,     \* history: sessions of which two notices were checked before one was marked
  cutShort,  \* history: sessions of which a handler died after its mark, or read too early
  byDeposit  \* history: sessions closed by the payment of their deposit

billing == <<stay, meter, idle, notice, billKeys, biller, bills, receipts, deposit, closeKeys,
             closer, reader, adjusted, raced, cutShort, byDeposit>>

Notices == 0 .. MaxForced  \* that of the stop, and those of the job

\* A bill, and the idle fee its notice told.
Bills == [kwh : 0 .. MaxMeter, idle : 0 .. MaxIdle, told : 0 .. MaxIdle]

IsWaiting(s, n) == notice[s][n].at = "queued"

Unsent == [at |-> "none", kwh |-> 0, idle |-> 0]

FreeBiller == [at |-> "idle", stay |-> NoStay, n |-> 0]

FreeCloser == [at |-> "idle", stay |-> NoStay, of |-> "none"]

FreeReader == [stay |-> NoStay, meter |-> 0]

BillingInit ==
  /\ stay = [s \in Stays |-> "active"]
  /\ meter = [s \in Stays |-> 0]
  /\ idle = [s \in Stays |-> 0]
  /\ notice = [s \in Stays |-> [n \in Notices |-> Unsent]]
  /\ billKeys = {} /\ closeKeys = {}
  /\ biller = [w \in Billers |-> FreeBiller]
  /\ closer = [w \in Closers |-> FreeCloser]
  /\ reader = [w \in Readers |-> FreeReader]
  /\ bills = [s \in Stays |-> <<>>]
  /\ receipts = [s \in Stays |-> 0]
  /\ deposit = [s \in Stays |-> IF s \in Booked THEN "queued" ELSE "gone"]
  /\ adjusted = {} /\ raced = {} /\ cutShort = {} /\ byDeposit = {}

-----------------------------------------------------------------------------
(* session-service: the session ends                                       *)

\* A notice tells the meter and the idle fee of the moment.
Say(s, n, m) == notice' = [notice EXCEPT ![s][n] = [at |-> "queued", kwh |-> m, idle |-> idle[s]]]

Stop(s, m) ==
  /\ stay[s] = "active"
  /\ stay' = [stay EXCEPT ![s] = "stopped"]
  /\ meter' = [meter EXCEPT ![s] = m]
  /\ Say(s, 0, m)
  /\ UNCHANGED <<idle, billKeys, biller, bills, receipts, deposit, closeKeys, closer, reader, adjusted,
                 raced, cutShort, byDeposit>>

\* The charger is told to stop, or an operator ends what was stopped: no bill.
Interrupt(s) ==
  /\ stay[s] \in {"active", "stopped"}
  /\ stay' = [stay EXCEPT ![s] = "interrupted"]
  /\ UNCHANGED <<meter, idle, notice, billKeys, biller, bills, receipts, deposit, closeKeys, closer, reader,
                 adjusted, raced, cutShort, byDeposit>>

\* IdleFeeDetectionJob, a minute after the grace period.
AddIdleFee(s) ==
  /\ stay[s] = "stopped" /\ idle[s] < MaxIdle
  /\ idle' = [idle EXCEPT ![s] = @ + 1]
  /\ UNCHANGED <<stay, meter, notice, billKeys, biller, bills, receipts, deposit, closeKeys, closer, reader,
                 adjusted, raced, cutShort, byDeposit>>

\* StoppedSessionBillingJob: whoever is still stopped is announced once more.
ForceBill(s, n) ==
  /\ stay[s] = "stopped"
  /\ n > 0 /\ notice[s][n] = Unsent /\ notice[s][n - 1] # Unsent
  /\ Say(s, n, meter[s])
  /\ UNCHANGED <<stay, meter, idle, billKeys, biller, bills, receipts, deposit, closeKeys, closer, reader,
                 adjusted, raced, cutShort, byDeposit>>

\* The relay gives a notice up after its last retry.
LoseNotice(s, n) ==
  /\ IsWaiting(s, n) /\ \A w \in Billers : biller[w].stay # s \/ biller[w].n # n
  /\ notice' = [notice EXCEPT ![s][n].at = "gone"]
  /\ UNCHANGED <<stay, meter, idle, billKeys, biller, bills, receipts, deposit, closeKeys, closer, reader,
                 adjusted, raced, cutShort, byDeposit>>

-----------------------------------------------------------------------------
(* billing-service: the notice is billed                                   *)

\* Mutant of KeyOf: every notice has an id of its own.
KeyOfNotice(s, n) == <<s, n>>

\* The notice has no eventId: the session's id is its key.
KeyOf(s, n) == <<s, 0>>

\* What was billed before is acknowledged.
SkipNotice(s, n) ==
  /\ IsWaiting(s, n) /\ KeyOf(s, n) \in billKeys
  /\ \A w \in Billers : biller[w].stay # s \/ biller[w].n # n
  /\ notice' = [notice EXCEPT ![s][n].at = "gone"]
  /\ UNCHANGED <<stay, meter, idle, billKeys, biller, bills, receipts, deposit, closeKeys, closer, reader,
                 adjusted, raced, cutShort, byDeposit>>

CheckNotice(w, s, n) ==
  /\ biller[w] = FreeBiller
  /\ IsWaiting(s, n) /\ KeyOf(s, n) \notin billKeys
  /\ \A v \in Billers : biller[v].stay # s \/ biller[v].n # n
  /\ biller' = [biller EXCEPT ![w] = [at |-> "checked", stay |-> s, n |-> n]]
  /\ raced' = IF \E v \in Billers : biller[v].stay = s /\ biller[v].at = "checked" THEN raced \cup {s} ELSE raced
  /\ UNCHANGED <<stay, meter, idle, notice, billKeys, bills, receipts, deposit, closeKeys, closer, reader,
                 adjusted, cutShort, byDeposit>>

\* save() of a key that is there already changes nothing and does not fail.
MarkNotice(w) ==
  LET s == biller[w].stay n == biller[w].n IN
  /\ biller[w].at = "checked"
  /\ billKeys' = billKeys \cup {KeyOf(s, n)}
  /\ IF s \in Guests
     THEN /\ biller' = [biller EXCEPT ![w] = FreeBiller]
          /\ notice' = [notice EXCEPT ![s][n].at = "gone"]
     ELSE /\ biller' = [biller EXCEPT ![w].at = "marked"]
          /\ UNCHANGED notice
  /\ UNCHANGED <<stay, meter, idle, bills, receipts, deposit, closeKeys, closer, reader, adjusted,
                 raced, cutShort, byDeposit>>

\* Neither end of the pricing call has what the other wants: the notice has no
\* connectorType, startTime and idleMinutes, the call is refused, and the fee is that
\* of the energy alone.
Fee(said) == [kwh |-> said.kwh, idle |-> 0, told |-> said.idle]

\* The acknowledgement may be lost.
CommitBill(w) ==
  LET s == biller[w].stay n == biller[w].n IN
  /\ biller[w].at = "marked"
  /\ bills' = [bills EXCEPT ![s] = Append(@, Fee(notice[s][n]))]
  /\ receipts' = [receipts EXCEPT ![s] = @ + 1]
  /\ biller' = [biller EXCEPT ![w] = FreeBiller]
  /\ notice' \in {notice, [notice EXCEPT ![s][n].at = "gone"]}
  /\ UNCHANGED <<stay, meter, idle, billKeys, deposit, closeKeys, closer, reader, adjusted,
                 raced, cutShort, byDeposit>>

\* The process dies or the transaction fails; the notice is delivered again.
BillerDies(w) ==
  /\ biller[w] # FreeBiller
  /\ biller' = [biller EXCEPT ![w] = FreeBiller]
  /\ cutShort' = IF biller[w].at = "marked" THEN cutShort \cup {biller[w].stay} ELSE cutShort
  /\ UNCHANGED <<stay, meter, idle, notice, billKeys, bills, receipts, deposit, closeKeys, closer, reader,
                 adjusted, raced, byDeposit>>

-----------------------------------------------------------------------------
(* session-service: the payment closes the session                         *)

\* The bill of a booked session goes by the transaction of its deposit, any other
\* bill by an id of its own.
IsRemembered(s, of) == s \in Booked /\ s \in closeKeys

Acknowledged(s, of) ==
  IF of = "deposit"
  THEN deposit' = [deposit EXCEPT ![s] = "gone"] /\ UNCHANGED receipts
  ELSE receipts' = [receipts EXCEPT ![s] = @ - 1] /\ UNCHANGED deposit

\* Mutant of Held: a delivery that is not acknowledged yet is given to another worker too.
HeldNever(s, of) == 0

Held(s, of) == Cardinality({w \in Closers : closer[w].stay = s /\ closer[w].of = of})

Arrived(s, of) ==
  \/ of = "deposit" /\ deposit[s] = "queued" /\ Held(s, of) = 0
  \/ of = "bill" /\ receipts[s] > Held(s, of)

SkipPayment(s, of) ==
  /\ Arrived(s, of) /\ IsRemembered(s, of)
  /\ Acknowledged(s, of)
  /\ UNCHANGED <<stay, meter, idle, notice, billKeys, biller, bills, closeKeys, closer, reader, adjusted,
                 raced, cutShort, byDeposit>>

CheckPayment(w, s, of) ==
  /\ closer[w] = FreeCloser
  /\ Arrived(s, of) /\ ~IsRemembered(s, of)
  /\ closer' = [closer EXCEPT ![w] = [at |-> "checked", stay |-> s, of |-> of]]
  /\ UNCHANGED <<stay, meter, idle, notice, billKeys, biller, bills, receipts, deposit, closeKeys, reader,
                 adjusted, raced, cutShort, byDeposit>>

\* Mutant of IsPayable: the status before the stop.
IsPayableActive(s) == stay[s] = "active"

IsPayable(s) == stay[s] = "stopped"

\* Marked, and read: a session that is not stopped is left as it is.  A deposit finds
\* the session by its booking.
ReadSession(w) ==
  LET s == closer[w].stay of == closer[w].of IN
  /\ closer[w].at = "checked"
  /\ closeKeys' = IF s \in Booked THEN closeKeys \cup {s} ELSE closeKeys
  /\ IF IsPayable(s)
     THEN /\ closer' = [closer EXCEPT ![w].at = "read"]
          /\ UNCHANGED <<receipts, deposit>>
     ELSE /\ closer' = [closer EXCEPT ![w] = FreeCloser]
          /\ Acknowledged(s, of)
  /\ UNCHANGED <<stay, meter, idle, notice, billKeys, biller, bills, reader, adjusted,
                 raced, cutShort, byDeposit>>

\* bill() and completeSession(), saved together.
CloseSession(w) ==
  LET s == closer[w].stay of == closer[w].of IN
  /\ closer[w].at = "read"
  /\ stay' = [stay EXCEPT ![s] = "completed"]
  /\ byDeposit' = IF of = "deposit" THEN byDeposit \cup {s} ELSE byDeposit
  /\ closer' = [closer EXCEPT ![w] = FreeCloser]
  /\ Acknowledged(s, of)
  /\ UNCHANGED <<meter, idle, notice, billKeys, biller, bills, closeKeys, reader, adjusted,
                 raced, cutShort>>

CloserDies(w) ==
  /\ closer[w] # FreeCloser
  /\ closer' = [closer EXCEPT ![w] = FreeCloser]
  /\ cutShort' = IF closer[w].at = "read" THEN cutShort \cup {closer[w].stay} ELSE cutShort
  /\ UNCHANGED <<stay, meter, idle, notice, billKeys, biller, bills, receipts, deposit, closeKeys, reader,
                 adjusted, raced, byDeposit>>

-----------------------------------------------------------------------------
(* LateDeliveryReconciler                                                  *)

\* A meter value from before the charger was offline; only a higher one counts.
ReadLate(w, s, m) ==
  /\ reader[w] = FreeReader
  /\ m > meter[s]
  /\ reader' = [reader EXCEPT ![w] = [stay |-> s, meter |-> m]]
  /\ UNCHANGED <<stay, meter, idle, notice, billKeys, biller, bills, receipts, deposit, closeKeys, closer,
                 adjusted, raced, cutShort, byDeposit>>

\* An adjustment is published while the session is billed.
RaiseMeter(w) ==
  LET s == reader[w].stay IN
  /\ reader[w] # FreeReader
  /\ meter' = [meter EXCEPT ![s] = reader[w].meter]
  /\ adjusted' = IF stay[s] = "billed" THEN adjusted \cup {s} ELSE adjusted
  /\ reader' = [reader EXCEPT ![w] = FreeReader]
  /\ UNCHANGED <<stay, idle, notice, billKeys, biller, bills, receipts, deposit, closeKeys, closer,
                 raced, cutShort, byDeposit>>

BillingNext ==
  \/ \E s \in Stays :
       \/ \E m \in 1 .. MaxMeter : Stop(s, m)
       \/ Interrupt(s) \/ AddIdleFee(s)
       \/ \E n \in Notices : ForceBill(s, n) \/ LoseNotice(s, n) \/ SkipNotice(s, n)
       \/ \E n \in Notices, w \in Billers : CheckNotice(w, s, n)
       \/ \E of \in {"deposit", "bill"} : SkipPayment(s, of) \/ \E w \in Closers : CheckPayment(w, s, of)
       \/ \E w \in Readers, m \in 1 .. MaxMeter : ReadLate(w, s, m)
  \/ \E w \in Billers : MarkNotice(w) \/ CommitBill(w) \/ BillerDies(w)
  \/ \E w \in Closers : ReadSession(w) \/ CloseSession(w) \/ CloserDies(w)
  \/ \E w \in Readers : RaiseMeter(w)

BillingSpec == BillingInit /\ [][BillingNext]_billing

-----------------------------------------------------------------------------
(* Properties.                                                             *)

\* Sessions, notices and workers have their types.
BillingTypeOK ==
  /\ stay \in [Stays -> {"active", "stopped", "interrupted", "completed"}]
  /\ meter \in [Stays -> 0 .. MaxMeter] /\ idle \in [Stays -> 0 .. MaxIdle]
  /\ \A s \in Stays, n \in Notices : notice[s][n].at \in {"none", "queued", "gone"}
  /\ \A s \in Stays : bills[s] \in Seq(Bills)
  /\ receipts \in [Stays -> Nat]
  /\ \A w \in Billers : biller[w].at \in {"idle", "checked", "marked"}
  /\ \A w \in Closers : closer[w].at \in {"idle", "checked", "read"}
  /\ adjusted \cup raced \cup cutShort \cup byDeposit \subseteq Stays

\* A session is billed once, however often its end is announced, delivered and begun
\* again, unless two of its notices were looked up before either was marked; and a guest
\* is never billed.
BilledOnce ==
  \A s \in Stays : Len(bills[s]) <= IF s \in Guests THEN 0 ELSE IF s \in raced THEN Cardinality(Billers) ELSE 1

\* Who is billed is closed: once the bill's payment was consumed the session does not stay
\* stopped, unless a handler died after its mark or the deposit's payment, which has the
\* same key, was consumed before.  And who is closed was billed, or closed by his deposit.
BilledIsClosed ==
  \A s \in Stays :
    /\ /\ stay[s] = "stopped" /\ bills[s] # <<>>
       /\ receipts[s] = 0
       => s \in cutShort \/ s \in closeKeys
    /\ stay[s] = "completed" => bills[s] # <<>> \/ s \in byDeposit

\* A session is billed once, and a billed session is closed: session-events.consumer.ts and
\* the PaymentCompletedConsumer of session.use-cases.ts.
BilledOnceAndClosed == BilledOnce /\ BilledIsClosed
=============================================================================
