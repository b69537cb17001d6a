# Specifications of the EV charging platform

TLA+ specifications of `ev-charging-orchestration-platform`: its back end and
the clients that keep state of their own, the TLC configurations that check them
on small instances, and proofs, checked by TLAPS, of their safety properties for
every value of the constants.

Paths below are relative to the repository's root, which `PROJECT.json` calls
`src/`; `session:` abbreviates `src/backend/session-service/src/`, and
`billing:`, `iam:`, `infra:`, `ocpp:`, `telemetry:`, `notification:` and
`analytics:` the like of the other services; `admin:` is
`src/frontend/web-admin/src/`.

1. [The system](#1-the-system)
2. [Modules](#2-modules)
3. [Runs](#3-runs)
4. [Fairness](#4-fairness)
5. [Proofs](#5-proofs)
6. [Where code and documentation part](#6-where-code-and-documentation-part)
7. [What is not modelled](#7-what-is-not-modelled)
8. [Plan](#8-plan)

## 1. The system

A user books a charger for a time range, pays the deposit, charges, and is
billed. Eight NestJS services, each with a PostgreSQL database of its own, do
this together. They exchange events through RabbitMQ: a transaction writes its
events to the table `event_outbox` of its own database, a cron job publishes
them to the topic exchange `ev.charging`, and every consumer has a queue of its
own and looks an event up in its database's `processed_events`, before or after
it acts. A kiosk stands at each charger, administrators and staff work in a web
console, customers use an app.

| Component | State | Operations | Talks to others by |
|---|---|---|---|
| session-service: bookings | `bookings`, `booking_status_history`, `charger_read_models` | create, pay (confirm), cancel, complete, expire, no-show | consumes `payment.completed`, `payment.failed`, `session.started`; emits `booking.*`, `session.reserved` |
| session-service: charging sessions | `charging_sessions`, `charger_state`, `booking_read_models` | start, stop, interrupt, force stop, reserve and release the charger | consumes `booking.*`, `payment.completed`, `charger.status_changed`; emits `session.*`, `charger.status.changed` |
| session-service: settlement | `charging_sessions`, `processed_events` | idle fees, announcing unbilled sessions again, closing a paid session, late meter values | emits `session.completed`, consumes `payment.completed` |
| session-service: virtual queue | `queue_entries` and two heaps in memory | join, leave, notify the head, book for the head | is told of free chargers by bookings and sessions |
| session-service: suggestions | none | free slots, the knapsack over prices, the order of chargers | reads what the others write |
| outbox, broker, consumers | `event_outbox`, queues, `processed_events` | write, publish, retry, give up; deliver, look up, act, mark | is how all services talk |
| billing-service: payments and wallet | `transactions`, `wallets`, `wallet_ledger`, `invoices` | VNPay payment, top-up, callback, wallet payment, extra charge, refund, reconciliation | consumes `booking.cancelled`, `session.completed`; emits `payment.*` |
| billing-service: arrears | none of its own | announcing a debt and its clearing | flag and amount in iam-service and session-service |
| iam-service | `users`, `auth_sessions`, verification tokens, vehicles, roles, `users_cache`, staff | register, verify, login, MFA, refresh rotation, logout, password, status, garage, roster, roles | consumes arrears; emits `user.*` |
| ev-infrastructure-service | stations, chargers, pricing rules, incidents, maintenance, a Redis cache | status, prices, catalogue, upkeep | consumes `charger.status.changed`; emits `charger.status_changed`, `station.status_changed` |
| ocpp-gateway-service | open sockets, pending calls | connect, calls, commands | consumes commands, emits status and telemetry |
| telemetry-ingestion-service | two buffers, `telemetry_logs` | ingest, flush, archive | emits `telemetry.ingested` |
| notification-service | `notifications`, preferences, devices | consume, store, show, push | consumes events of all |
| analytics-service | `event_log`, metrics, tables by day and hour | log, aggregate, report, forecast | consumes events of all |
| kiosk, web console | screens, requests in flight, tokens | as their users and late answers move them | HTTP and sockets |

Requests, consumers and cron jobs of one service run at once, in one process or
in several instances. PostgreSQL runs them at READ COMMITTED. What makes the
behaviour hard is the same everywhere:

* **Unlocked load, change, save.** Most handlers read a row outside the
  transaction that writes it (`BookingRepository.findById` uses `this.repo`, not
  the transaction's manager), change the object in memory, and call TypeORM's
  `save()`. It reads the row back and writes the columns in which the object
  differs, so what another handler committed in between is written over or,
  worse, half of it is. Locks exist in two places only: the charger's row while
  a booking is created, the wallet's row while it is debited.
* **Jobs that list and then save.** Each cron job reads a list and saves the
  entries one by one; what happened to them meanwhile is not looked at. A cron
  does not wait for its previous run either.
* **At-least-once delivery with look-up and mark apart.** The publisher sends
  and then saves its row; a consumer looks an event up, acts and marks it in
  statements of their own, in either order. Crashes in between repeat or lose
  the effect.
* **Two tables that tell the same thing.** A booking, its read model, the
  charger's state and the session, the flag of a debt, a user's role and a
  station's status are kept by several services, through events that may come
  late or in another order.
* **State in memory.** Heaps, buffers, sockets and screens are lost, stale or
  changed by a transaction that is rolled back.
* **Time.** Payment holds, grace periods, validity of prices and forced stops
  race with late payments, late arrivals and late answers.

`PROJECT.json` lists these at their lines under "hazards", with the properties
that would catch each one going wrong.

What makes each component correct:

* bookings: no slot is sold twice; what other services are told is what the row
  says, and the end of a booking is told once; unpaid and missed slots become
  free;
* charging sessions: one session per charger and per booking; the charger is
  shown occupied exactly while one is active; an ended session stays as it is;
* settlement: a session is billed once and closed by its own payment; a debt is
  remembered alike wherever it is remembered;
* virtual queue and suggestions: who is served waited, is served once and in
  order; the slots suggested are the best the budget buys;
* delivery: nothing processed is lost; nothing is given up too early; a consumer
  repeats itself only for a known reason; everything is settled and handled;
* payments: a payment is announced once; money moved if and only if the
  transaction says so; the wallet is not overdrawn; nothing pends for ever;
* iam: a refresh token is exchanged once; no session outlives its password; one
  primary vehicle; nothing deleted or undone comes back;
* infrastructure: an hour has one price, and a ride the price it was quoted; the
  status shown is what the reports left; a charger is reached by its latest
  socket; bookings are taken where a station is open;
* observers: an event becomes one notice, one metric and one reading, and none
  is lost; reports over one table agree;
* clients: a waiting request is answered; a bill on the screen is of the session
  that was stopped there.

## 2. Modules

| Module | Models | Checked by | Proved in |
|---|---|---|---|
| `BookingLifecycle` | the bookings of session-service | `MCBookingLifecycle`, `MCBookingLiveness`, `MCBookingAndConsole` | `BookingAndConsole_proofs` |
| `Payments` | transactions and the wallet of one user | `MCPayments`, `MCPaymentsLiveness` | `Payments_proofs` |
| `AtLeastOnce` | abstract: what the outbox promises | as a property of `MCOutboxDelivery` | `OutboxDelivery_proofs` |
| `OutboxDelivery` | outbox, publisher, queues and consumers of any two services | `MCOutboxDelivery` | `OutboxDelivery_proofs` |
| `ChargerSession` | sessions, charger state and read model of one charger | `MCChargerSession` | `ChargerSession_proofs` |
| `Kiosk` | the kiosk at a charger | `MCChargerSession` | `ChargerSession_proofs` |
| `LoginSessions` | an account and its logins | `MCIam` | `Iam_proofs` |
| `Vehicles` | the vehicles of one owner | `MCIam` | `Iam_proofs` |
| `StaffRoster` | the profile and the attendance of one member of staff | `MCIam` | `Iam_proofs` |
| `PricingRules` | the price table of a station | `MCInfra` | `Infra_proofs` |
| `ChargerStatus` | the status of one charger, its row and its cache | `MCInfra` | `Infra_proofs` |
| `OcppGateway` | the connections of one charger | `MCInfra` | `Infra_proofs` |
| `Console` | the login that the console's tabs share | `MCBookingAndConsole` | `BookingAndConsole_proofs` |
| `UserDirectory` | a user's roles, `users_cache`, the copy in session-service | `MCBookingAndConsole` | `BookingAndConsole_proofs` |
| `StationCatalog` | stations, as edited on the map page, and their read model | `MCBookingAndConsole` | `BookingAndConsole_proofs` |
| `Upkeep` | incidents and maintenance | `MCBookingAndConsole` | `BookingAndConsole_proofs` |
| `SessionBilling` | a session after its stop | `MCSettlement` | `Settlement_proofs` |
| `Arrears` | one user's debt in three services | `MCSettlement` | `Settlement_proofs` |
| `VirtualQueue` | the queue's rows and heaps | `MCSettlement` | `Settlement_proofs` |
| `SuggestCharger` | slots, knapsack and order | `MCSettlement` | `Settlement_proofs` |
| `Listing` | what a sort or an ORDER BY returns, for the two above | `MCSettlement` | `Settlement_proofs` |
| `Notices` | notification-service | `MCObservers` | `Aftermath_proofs` |
| `UsageMetrics` | the event log and its aggregation | `MCObservers` | `Aftermath_proofs` |
| `Reports` | reports and forecasts over analytics' tables | `MCObservers` | `Aftermath_proofs` |
| `Telemetry` | a reading from the charger to both stores | `MCObservers` | `Aftermath_proofs` |

All have the same form. A *worker* (a request, a delivery, a run of a job; the
modules call it worker, hand, desk, clerk and so on) is in flight; each of its
reads and each of its writes that another worker can get in between is an
action, and an action of its own (`Abort`, `RunDies`, `CutOff`, `HandlerFails`
and the like) ends it anywhere: an error rolls the transaction back, or the
process dies. Each map entry in `PROJECT.json` names the lines a definition
stands for.

**Composition.** `MCIam`, `MCInfra`, `MCSettlement`, `MCObservers`,
`MCChargerSession` and `MCBookingAndConsole` extend several modules that share
no variable, since the tables share no row. A behaviour of theirs is one of one
of the parts; which one is chosen at the start (`part`). Taking interleavings of
parts that do not read each other would multiply states and show nothing.

**Histories.** In every module some variables are read by no action: they record
that a step happened that no lock or look-up of the code prevents. Since the
code leaves those races open, the strongest true safety property names them:
"two active bookings overlap only if one of them was saved while somebody else
held a copy of it" (`DoubleBookingOnlyIfRaced`). The property says that
everything else in the code works, that is, that the listed race is the *only*
way to break the promise.

### BookingLifecycle

| State | Code |
|---|---|
| `rows[b]` | the row of `bookings` (status, deposit transaction, creation time), "absent" before it is inserted |
| `tx[w]` | what a worker holds in memory: the rows it loaded, the method it will run, the columns `save()` found to differ, what is left of a job's list |
| `lock[c]` | `SELECT ... FOR UPDATE` on `charger_read_models` |
| `available[c]` | `charger_state.availability = 'available'`, read before the transaction |
| `outbox[b]` | the events of the booking in commit order |
| `now` | the clock |
| `raced` | history: bookings saved while another worker still held a copy |

`ValidateRequest`, `LockCharger` and `InsertBooking` are CreateBookingUseCase:
the look at the charger before the transaction, the lock with the overlap check
under it, the insert with its events. `AutoConfirmBooking`, `CancelBooking` and
`AutoCompleteBooking` load a booking and run the method of the aggregate, which
throws unless the status is in `AllowedFrom`; `AutoExpireBookings` and
`NoShowDetection` load the list that is due and `TakeNext` takes one. `Compare`
and `Commit` are `BookingRepository.save` with the events of the transaction:
two steps, since TypeORM reads the row back and only then writes the columns
that differ. This detail decides what is lost: a confirmation that overtakes a
cancellation writes the status or does not, depending on which side of the
comparison the other commits.

### Payments

| State | Code |
|---|---|
| `txns[t]` | `transactions.status` |
| `answer[t]` | what VNPay decided (external) |
| `seen` | `processed_events` |
| `invoices` | `invoices`, UNIQUE by transaction |
| `ledger`, `balance` | the rows of `wallet_ledger`, and the SUM the code computes over them |
| `announced[t]` | `payment.completed` or its like in `event_outbox` |
| `lock` | `SELECT ... FOR UPDATE` on the wallet |
| `mem[w]` | what a worker holds in memory |
| `raced`, `unlocked` | histories: rows saved while another worker held a copy; partial debits that met another debit |

The kind of a row says what may happen with it: VNPay payments and top-ups
(`CreatePayment`, `GatewayAnswers`, `ReceiveCallback`, `LoadTransaction`,
`LockWallet`, `CommitCallback`), wallet payments (`RequestWalletPay`,
`LockWallet`, `CheckDebit`, `CommitDebit`), settlement of a session
(`SessionCompleted`, `ReadBalance`, `RecordArrears`, `CreditSurplus`, and the
debit's steps), refunds (`ReceiveRefund`, `CreditRefund`), the administrator's
reversal (`RefundTransaction`) and TransactionReconciliationJob (`ListStuck`,
`SaveFailed`). A transaction here is saved in one step although `save()` reads
back first: one status column is all that differs, and then comparing and
writing is the same as writing. `SessionCompleted` marks its event at once;
copies of one event that meet are OutboxDelivery's subject.

### OutboxDelivery

| State | Code |
|---|---|
| `outbox[e]` | status and retry count of a row of `event_outbox` |
| `run[r]` | the rows a run of the publisher read, the one it saves, the columns it will write |
| `broker[q][e]`, `handler[h]` | copies that wait in a queue, and copies handed out and not acknowledged (external) |
| `marked` | `processed_events` of every database, by the key the consumers use |
| `effects[q][e]` | how often the consumer of a queue acted |
| `failures`, `met`, `halfway` | histories: failed calls of `publish()`; copies handled at once; consumers that died between marking and acting |

`StartRun`, `Publish`, `PublishFails`, `CompareRow`, `SaveRow` and `RunDies` are
`OutboxPublisher.publishPending`; several runs overlap. `PublishFails` may or
may not have reached the broker. `Deliver`, `CheckEvent`, `MarkEvent`, `Act`,
`HandlerDies` are a consumer with `existsBy`, `save` and its effect;
`MarksFirst` tells which queues mark first
(`session:application/use-cases/session.use-cases.ts:674`, the notification
consumers), and `DatabaseOf` which queues share one `processed_events`. Retry
counts are unbounded numbers: with enough overlapping runs `save()` mixes a row
of one run's status and another's count.

### ChargerSession

| State | Code |
|---|---|
| `session[s]` | status, booking and `scheduledStopAt` of a row of `charging_sessions` |
| `charger` | `availability` of the row of `charger_state` |
| `booking[b]` | the status of the booking, atomic here: its races are BookingLifecycle's |
| `readModel`, `synced`, `dropped` | `booking_read_models`, and which events about a booking have been consumed |
| `now` | the clock |
| `worker[w]` | what a worker is about to commit |
| `stale`, `raced`, `overwritten`, `late` | histories: workers whose reads another commit has overtaken; sessions they started; active sessions whose charger was given away; bookings synced after their end |

`LoadStart`/`CommitStart` are StartSessionUseCase with its window, its look-up
of an active session and the UNIQUE booking; `LoadStop`, `LoadForceStop` and
`LoadPayment` with their commits are StopSession, interrupt(), ForceStopJob and
the consumer of `payment.completed`; `LoadReservation`, `LoadConfirmed` and
`CommitReserve` reserve the charger; `NoShow` is what NoShowDetectionJob does to
booking and charger, `StatusChanged` what an operator's change of the status in
ev-infrastructure-service does to the charger; `Sync`, `LoadDrop`,
`CommitRelease` and `CommitDrop` are the consumers that keep the read model.

### AtLeastOnce

The promise of the outbox, with an event's `status`, its failed attempts up to
MAX_RETRIES, the queues that have a copy, what is noted in `processed_events`
and who has acted. `OutboxDelivery` defines each of these from its own state
(`DeliversAtLeastOnce` is an `INSTANCE` of `AtLeastOnce` under that mapping):
`noted` from `marked`, `waiting` from broker and handlers together, `failures`
cut off at the limit.

### Kiosk

`screen`, `shown`, `busy`, `summary`, `url` and `paidBy` are the states of the
hook `useSessionStateMachine.ts` and of `App.tsx`; `calls` are the requests and
timers in flight with what their closures captured; `wire`, `recent`, `online`
and `rooms` are the outbox rows that ChargingGateway broadcasts every few
seconds to the rooms a socket is in. The customer presses (`PressStart`,
`PressScan`, `Scan`, `PressStop`, ...), any call may be answered at any time
(`Answers`), and events may be lost (`Disconnect`) or come again (`Broadcast`
after `Forget`). The charger itself is three variables (`begun`, `charging`,
`settled`); ChargerSession has its detail.

### LoginSessions, Vehicles, StaffRoster

`account` is the row of `users` (password number, verified, MFA, codes, status),
`session` are `auth_sessions` with the session each was exchanged from, `token`
is the verification token. `worker[w].row` is the copy a request holds and
`worker[w].at` the statement that comes next: `Register`, `Login` and `Change`
are families of actions, one per statement of RegisterUseCase, LoginUseCase,
RefreshTokenUseCase, VerifyEmailUseCase, ChangePasswordUseCase, the MFA use
cases and the change of status. A password is the number of the change that set
it. Histories: `stale` copies, requests `cutOff` by a revocation of all sessions
and the sessions they saved (`survivor`), tokens two requests found usable
(`overlapped`), and whether a stale copy has put something back (`lost`) or a
revocation never came (`uncut`).

`vehicle[p]` is a row by plate, `request` what a use case is about to save:
`LoadAdd`, `LoadPrimary`, `UnsetPrimary` and `SaveVehicle` are the statements of
adding and choosing the primary vehicle, which no transaction joins. `profile`
and `attendance` are the rows of one user and day; `LookStaff`, `LookDay` and
their saves are StaffController's look-up and insert.

### PricingRules, ChargerStatus, OcppGateway

`rule` is `pricing_rules` of one station and connector: hours and validity.
`Upsert` saves a rule, `FindOverlaps` reads the others, `TrimRule` takes the
hours from one of them (which ends, keeps the first interval left, and gives the
others to new rules), `LoadDeactivate`, `ExpandHeir` and `EndRule` end a rule
and widen a neighbour. `Quote` and `Bill` are the look-ups of
EstimatePriceUseCase and CalculateSessionFeeUseCase. `behind` and `crossed` say
which request another has overtaken and whether such a one went on.

`row`, `station` and `cache` are the charger's row, its station and the copy in
Redis; `report` is the sequence of messages from platform, charger and fault
detection, each with how far its handler is (`ReadCharger`, `UpdateRow`,
`CacheStatus`, `MarkReport`, `HandlerFails`, ...); `clerk` and `reader` are the
requests of staff and of whoever asks for the availability. `Applied` and
`Replays` say what the reports leave when each is applied to what the last one
left.

`socket`, `conn`, `command` and `carried` are the gateway's sockets, the entry
of its map for the charger, the commands and how often each was sent. `Closed`
is the close event, which removes the charger's entry whatever socket is in it;
`Restart` forgets everything.

### Console, UserDirectory, StationCatalog, Upkeep

`stored` is localStorage, which all tabs share; `refreshing`, `ask` and
`exchange` are one tab's flag, requests and refresh. `granted`, `entry` and
`mirror` are `user_roles`, the row of `users_cache` and session-service's row of
the user; `desk[p]` is the users page with its request, whose steps
(`AssignRole`, `LoadAssigned`, `PutAssigned`, ...) are the statements of the two
requests that change a role. `site`, `told`, `known` and `visit` are stations,
their events, `charger_read_models.is_active` and the bookings to come;
`mapPage[d]` is a map page with its form. `ticket`, `order`, `sheet` and `chore`
are incidents, maintenance, the page that shows them and the update under way.

### SessionBilling, Arrears, VirtualQueue, SuggestCharger

`SessionBilling` follows a session from `Stop` over `CheckNotice`, `MarkNotice`,
`CommitBill` (billing-service) to `CheckPayment`, `ReadSession`, `CloseSession`
(session-service), with `AddIdleFee`, `ForceBill` (StoppedSessionBillingJob) and
late meter values beside it. `Arrears` has the amount and flag of two services
(`owed`, `flag`), iam-service's `user_arrears` (`rowOf`) and the consumers that
mark, read, add and write. `VirtualQueue` has the rows (`entry`) and the two
heaps (`heap["queue"]`, `heap["booking"]`) with the array algorithm of
PriorityQueueService. A loop of the code is a function of the rounds it has
made: `Rise` and `Sink` are one round of bubbleUp and of sinkDown, `BubbleUp`
and `SinkDown` the heap after as many rounds as the array has room for (a round
that has nothing to do changes nothing), `BuildHeap` runs the second for every
place that has a child. `SuggestCharger` has the knapsack in the same form, the
table row by row (`Table`) and the way back from its last row (`Taken`).
`Listing` says of the queries and sorts of both only that the result has every
row once and in the order asked for: of rows that compare equal either may be
first. What is chosen is checked against a definition by all subsets of slots.

### Notices, UsageMetrics, Reports, Telemetry

`mail`, `noted`, `hand` and `inbox` are deliveries, `processed_events`, handlers
and stored notices; `owner` and `signer` the phones and the requests that
register them. `factMail`, `keeper`, `logged` and `metric` are the same for
analytics. `Reports` turns the queries over `daily_station_metrics` and
`hourly_usage_stats` into operators (`DailyRevenue`, `ArePeaks`, forecasts by
ordinary least squares), with `SumOf` for the SUM of PostgreSQL, and lets the
days pass. `Telemetry` has the buffer by charger (`batch`), the buffer of the
archive (`hot`), both stores (`stored`, `cold`) and the consumer's handlers
(`taker`).

## 3. Runs

In this directory, `tlc -config <cfg> <module>` runs one. States are distinct
states; times are for two TLC workers with coverage.

| Run | Module, cfg | What it asks | Size |
|---|---|---|---|
| `bookings_and_console` | `MCBookingAndConsole` | is a double booking always a raced one, does the outbox tell the row, does a booking end once; is every waiting request of the console answered, is a listed role a granted one, does the read model follow the station, has a resolved incident its time | 1,164,866 states, 208 s |
| `booking_liveness` | `MCBookingLiveness` | do an unpaid hold and a no-show give their slot back | 10,656 states, 22 s |
| `double_booking` | `MCBookingLifecycle`, `MCDoubleBooking.cfg` | *violated*: are two overlapping bookings never both active | 3 s |
| `payments_safety` | `MCPayments` | is a payment announced once, does money move with the status, is the wallet overdrawn only by the debit without a lock | 737,654 states, 92 s |
| `payments_liveness` | `MCPaymentsLiveness` | does no payment or top-up pend for ever | 8,293 states, 21 s |
| `delivery_safety` | `MCOutboxDelivery` | is an effect repeated only for a known reason; is this an implementation of `AtLeastOnce` | 618,730 states, 114 s |
| `delivery_liveness` | `MCOutboxDelivery`, `MCOutboxLiveness.cfg` | is an event settled for good, and a copy marked | 10,797 states, 55 s |
| `sessions_and_kiosk` | `MCChargerSession` | are two active sessions always raced, is the charger occupied while one is active, does an ended session stay so; is the kiosk busy exactly while it acts, is its bill of one session | 1,529,011 states, 204 s |
| `iam` | `MCIam` | is a token exchanged once, does no session outlive its password, is the garage in order; can only stale copies bring something back | 647,804 states, 148 s |
| `infra` | `MCInfra` | has an hour one rule and a ride its price; does the row say what the reports left; is a charger reached by its latest socket | 1,044,076 states, 191 s |
| `settlement` | `MCSettlement` | is a session billed once and closed, is a debt remembered alike, is the queue sound, is the suggestion the best | 350,576 states, 147 s |
| `observers` | `MCObservers` | are notices, metrics and readings kept once, do reports of one table agree | 601,125 states, 192 s |

Where one name is given, the cfg has the module's name. Runs are grouped: a run
that extends several modules asks the questions of each, and its initial states
choose which module moves (section 2, Composition).

For every property of a passing run `PROJECT.json` names at least one mutant: a
definition of the model with the kind of bug the code could have (a guard
dropped, a lock not taken, a look-up left out, a `<` for a `<=`), with which the
property is violated in that same run. They show that each property depends on
the code it is about; where a property is a conjunction, several conjuncts have
one each. The mutants stand in the modules, each before the definition it
mutates, and no specification uses them.

**Bounds, and why they are enough.** Every bound is a CONSTANT of the cfg, or a
CONSTRAINT or a named operator of the MC module, which says what it keeps out.
The proofs need none of them.

* *Two workers* nearly everywhere (two publisher runs, two deliveries, two
  requests). The races of this code are between a reader and one writer, and
  every history variable is about a pair.
* *BookingLifecycle*: two requests for the same slot of one charger, the least
  in which a slot can be sold twice, with one payment each; the liveness run has
  one booking, since bookings meet only in the overlap check. `Hold = Grace = 1`
  and `MaxNow = 2`: every timer is before, at and after its limit. The safety
  run uses the symmetry of workers and of requests, and a view that forgets the
  events of raced bookings, which nothing in the run reads.
* *Console*: two requests under way, each sent again once, three logins.
  *UserDirectory*: two pages, two changes; roles change once session-service has
  heard of the user. *StationCatalog*: two events, one booking; an edit changes
  the status or the spot; announcements are followed while there is one station;
  the status "maintenance" is left out, which differs from "closed" in nothing
  that is read. *Upkeep*: one incident or one maintenance, three hours.
* *Payments*: one VNPay payment and two wallet payments of one booking, a
  top-up, a session whose fee is above its deposit and one below. The amounts
  are such that each debit may fit or not depending on what came before. Refund
  and reversal run in `payments_liveness`, where they can race with the callback
  and the job.
* *OutboxDelivery*: one event, as events meet nowhere but in a handler, and
  `Handlers` bounds those. Two queues, one consumer of each order. `MaxRetries`
  is 2 (5 in the code): enough for counts that two runs write over each other.
  `MaxCopies = 2` copies per queue bounds how often an event is published again;
  it keeps `Publish` from happening and never forces a step.
* *ChargerSession*: two sessions and one booking; a unit of the clock is fifteen
  minutes, the booking lasts from 1 to 2 and the clock ends at 3, so that each
  window is met before, in and after. With one booking the second disjunct of
  `HasConflict` (another booking before this one) is never true in the run; the
  proofs cover it. *Kiosk*: two sessions, two calls in flight, two events
  waiting, and a payment of the first session only, which is the one whose late
  payment can be taken for the other's.
* *LoginSessions*: a state in which a stale copy has put something back (`lost`)
  or a revocation never came (`uncut`) is not explored further, since nothing is
  promised there; a third session exists only under the first password and
  without MFA, and MFA and status change only under the first password.
  *Vehicles*: three plates where two are allowed. *StaffRoster*: two rows each
  for one user and one day, of which the second may be one too many.
* *PricingRules*: a day of four hours, with which a rule can be cut at the
  start, at the end, in the middle and away; a state in which an overtaken
  request went on (`crossed`) is not explored further; rides at one hour.
  *ChargerStatus*: a third report comes only after the first is done and while
  the station is open. *OcppGateway*: three sockets (one open, one closing late,
  one new), two commands, one restart.
* *SessionBilling*: three kinds of session (booked, walk-in, guest) and two
  deliveries at a time, of one session, since sessions do not meet. *Arrears*:
  what follows in iam-service is left out once the two services disagree.
  *VirtualQueue*: four entries at two chargers, of which one may be booked and
  one be leaving, and that only before the one restart; the heap of the
  bookings' module holds one entry at most. *SuggestCharger*: one charger with
  any prices, or up to three of equal price.
* *Notices*: one event announced at a time; preferences change only while a
  notice for that customer is being handled. *UsageMetrics*: two events that
  count. *Telemetry*: two readings, stored at most twice. *Reports*: two
  stations, two hours, four days, windows of two days, one peak and lists of
  one; rides arrive only while the tables are empty.

`CHECK_DEADLOCK FALSE` is in every cfg: clock, requests and rows are bounded,
and when all of them are used up the system may rightly rest. Symmetry is used
only in safety runs.

## 4. Fairness

Safety runs assume none. The liveness runs assume only what the scheduling of
the code gives:

* **Cron jobs** (`@Cron` every minute in session-service, every five seconds for
  the publishers, every thirty minutes for the reconciliation): strong fairness
  of "some worker starts the job". A cron starts again however often a run
  failed. The listing of the reconciliation job is fair for every row, because
  its query has no limit and returns each row that is old enough.
* **Saves of jobs and handlers**: strong fairness of `TakeNext`, `Compare`,
  `Commit`, `SaveFailed`, and, over all runs, of `CompareRow` and `SaveRow`. A
  transaction may be rolled back and a process may die at any point, any number
  of times, but not at the same point every time. Without it a database that is
  down for ever refutes everything.
* **Locks**: weak fairness of what is done while a lock is held, strong fairness
  of `LockWallet`: PostgreSQL grants a row lock in turn.
* **Delivery**: strong fairness of `Deliver` and of each step of a handler. A
  broker redelivers what was not acknowledged, and a consumer that is tried
  again and again does not throw every time.
* **Publish**: strong fairness of "published or failed", which does *not* assume
  that publishing succeeds.

Nothing is assumed of users, of VNPay, of the clock in ChargerSession, or of
which of two workers comes first.

## 5. Proofs

`tlapm <module>.tla` checks them. The theorems hold for any sets of bookings,
workers, transactions, events, sessions, requests, rules, sockets and so on, any
time limits and any amounts. Nothing is assumed but the named assumption each
module makes about its constants (`ConstantsAssumption`, `LoginAssumption`,
`PricingAssumption`, `QueueAssumption`, ...): constants have their types, the
"no such" values are no members of the sets, limits are natural numbers, and
sets that are counted are finite; in `Arrears` that a debt owes something, in
`Notices` that a customer may have no quiet hours, in `SuggestCharger` that a
slot costs something, and in `Reports` that dates and hours are counted without
gaps and that a row holds a natural number. TLC evaluates each of them in a run.

| Module | Theorems |
|---|---|
| `BookingAndConsole_proofs` | `TypeCorrect`, `CopiesInOrder`, `StateMachineKept`, `CheckedSlotFree`, `NoDoubleBookingUnlessRaced`, `OutboxFaithful`, `EndAnnouncedOnce`; `ConsolePagesTypesCorrect`, `ParkedIsAnsweredCorrect`, `ListedRoleIsGrantedCorrect`, `ModelFollowsStationCorrect`, `ResolvedHasItsTimeCorrect`, and the invariants `ConsoleInvariant`, `DirectoryInvariant`, `UpkeepInvariant`, `CatalogInvariant` |
| `Payments_proofs` | `TypeCorrect`, `AnnouncedOnceCorrect`, `MoneyMatchesStatusCorrect`, `WalletPaysOnceCorrect`, `OverdrawnOnlyIfUnlockedCorrect`, `TerminalIsFinalUnlessRacedCorrect` |
| `OutboxDelivery_proofs` | `DeliveryHolds`, `TypeCorrect`, `ProcessedIsNotLostCorrect`, `GivesUpAfterMaxRetriesCorrect`, `RepeatedOnlyIfCorrect`, `ArrivedIsHandledCorrect`, and `PromiseKept`: `OutboxDelivery` implements `AtLeastOnce` |
| `ChargerSession_proofs` | `ReadsHold`, `TypeCorrect`, `TwoActiveOnlyIfRacedCorrect`, `OccupiedIsChargingCorrect`, `ActiveIsOccupiedCorrect`, `BookingUsedOnceCorrect`, `TerminalIsFinalCorrect`, `DroppedBookingIsRefusedCorrect`; of the kiosk `KioskInvariant`, `KioskTypesCorrect`, `BusyWhileActingCorrect`, `BillIsOfOneSessionCorrect` |
| `Iam_proofs` | `IamInvariant`, `IamTypesCorrect`, `TokensAreSoundCorrect`, `GarageInOrderCorrect`, `OnlyStaleLooksHarmCorrect` |
| `Infra_proofs` | `InfraInvariant`, `InfraTypesCorrect`, `HourHasOneRuleCorrect`, `StatusIsToldCorrect`, `ChargerIsReachedCorrect`, `EndsAsBegunCorrect` |
| `Settlement_proofs` | `SettlementInvariant`, `SettlementTypesCorrect`, `BilledOnceAndClosedCorrect`, `DebtIsRememberedCorrect`, `QueueIsSoundCorrect`, `SuggestionIsBestCorrect` |
| `Aftermath_proofs` | `ObserversInvariant`, `ObserversTypesCorrect`, `NoticesAreKeptCorrect`, `MetricsAreSoundCorrect`, `ReadingsAreKeptCorrect` |

Each rests on an inductive invariant, a lemma that the initial states satisfy it
and one that every step keeps it; type correctness alone is inductive, none of
the properties is, because they say nothing of what a worker has in memory. The
larger invariants were model-checked before they were proved. The arguments:

**BookingLifecycle.** The invariant is about copies: the copy a worker holds of
a booking that is not raced *equals its row* (`CopiesOK`), because whoever
commits a booking of which another worker has a copy puts it into `raced`. Then
a commit of an unraced booking is as good as an atomic change of the row
(`CommitIsAtomic`), although it is a load, a comparison and a write of some
columns. The state machine follows; with the lock (`LocksHeld`) so do
`CheckedSlotStaysFree` and `DoubleBookingOnlyIfRaced` (`SlotInv`); and the
outbox properties follow with "a booking that is still open has not been
announced as ended" (`OutboxInv`).

**Payments.** `IInv` ties status, invoice, event, ledger and `processed_events`
of a row together by its kind (`RowsAgree`), says which combinations of step,
row and amount a worker can hold (`MemShape`), that a new id is used by one
worker only (`NewRows`), that the lock is held where the code believes it
(`LockKept`), and that a copy of an unraced row is of a pending row
(`CopiesPending`). The uniqueness of invoices carries `AnnouncedOnce`. Two
further invariants carry the wallet: a wallet payment past its check has no
completed rival (`CheckedUnpaid`), and, as long as no partial debit met another
debit, the balance covers whoever is about to debit it (`Covered`).

**OutboxDelivery.** A row that says processed, in the table *or in any run's
memory*, is safe: each queue has a copy or a mark (`RowsFit`, `Safe`); a retry
count is at most the number of failures, unless these have reached the limit, so
that rows mixed by `save()` fit as well (`SavedFits`). What a run read and has
not published is pending (`ReadIsPending`). For consumers: marking and acting
keep their order (`StepsInOrder`), where no copies met at most one is past its
look-up and none after the effect (`OneAtATime`), and a mark that only one
consumer can have set means that it acted or is about to (`MarkedIsHandled`).

*The refinement.* Under the mapping of section 2 every step of the relay and the
consumers is a `Write`, `Attempt`, `Conclude` or `Handle` of `AtLeastOnce`, or
leaves its state alone. Two facts carry it beside the invariant above: a run
only holds rows that were written (`WrittenFirst`), and the promise's `waiting`
is what broker and handlers hold together (`WaitingIsOnItsWay`), so that a
delivery, a requeue and a handler's death change nothing that the promise speaks
of.

**ChargerSession.** What a worker read that no commit has overtaken *is still
so* (`FreshReads`); so a start that is not stale finds no active session, and
the charger's row is what a fresh worker believes. `CrowdOverwritten` says who
of two active sessions is to blame, and `DroppedIsLate` that the read model has
an ended booking only if its confirmation was consumed after its end.

**Iam.** `TokensAreSound` needs four facts together: a copy of the account that
is not stale equals the row (`CopiesAreFresh`); a request past the look-up of a
token has revoked it, and unless two overlapped it is the only one and the first
(`ExchangeInv`); a password is not set before the address is verified
(`VerifiedFirst`); and, after a change of password, either a revocation is
pending, or never came, or every live session, and every one *about to be
inserted*, has the new password (`CutInv`). The sixty or so actions are sorted
into eight kinds by what they do to account and sessions (a request begins,
ends, writes, revokes, rotates, inserts, marks, lapses), and each part is proved
per kind. The garage needs what a request has looked up (`RequestShape`,
`RequestTimely`): a request that nobody overtook still counts right.
`OnlyStaleLooksHarm` is an action property over the same invariant.

**Infra.** *Prices*: two rules share an hour only while some request at work has
still to settle it. `SharedIsAnswered` says so: every hour that two active rules
share is answered for by a request whose list has the other rule. What a request
not overtaken read is the table (`Fresh`), and the rule a ride was quoted is
among the best unless a request wrote the table since (`QuoteHolds`). `TrimRule`
needs lemmas on sets of hours, which the module proves from a least element: the
first interval of a set is an interval, lies within it, and its hours and those
of the other intervals are the set. *Status*: the reports that came undisturbed
are handled up to some point and untouched after it, and the row is where a
replay of that many leaves it, or the one at work brings it there (`InOrder`); a
copy in the cache that is not late tells the row or is about to be renewed
(`CopyTells`). *Gateway*: a queued command was sent once for every earlier start
of the gateway (`SentPerStart`).

**Console and kiosk.** *Console*: the property is nearly inductive; what is
missing is that whoever exchanges has a token to exchange. *UserDirectory*: only
one request at a time changes roles where the property promises something
(`OneAtATime`), and what it read is still so. *StationCatalog*: per station
whose announcements are not torn, the read model and the bookings follow the
last event handled (`KnownTells`, `BookingsFollow`, `MarkedOnce`), and the last
event tells the row or is about to be written (`RowTells`). *Kiosk*: `busy`
holds exactly while one call that acts is in flight (`OneAction`), a screen that
has STOPPED has a stop under way, and an event "completed" is of a session that
is over; then the bill on the screen, the link and the summary are of one
session. The four console parts are one invariant (`PagesInv`) of
`BookingAndConsole`.

**Aftermath.** What is done once is counted together with what may still be
done. *Notices* and *UsageMetrics*: rows stored and handlers that may yet store
one are at most one, unless two looked the event up at once (`RowsToCome`,
`LogsToCome`); that holds because nobody is past the look-up of what is not
marked (`UnmarkedIsNew`, `UnmarkedIsUnlogged`), and no more copies are held than
were published (`CopiesWait`, `FactsWait`). That a registered phone stays its
customer's is inductive together with the types (`PhoneInv`). *Telemetry*: a
reading has one copy with one handler (`OneTaker`), whose session is the
reading's or was found late (`FoundItsSession`), and the places a reading can be
archived in sum up to one (`ArchivedOnce`).

*Reports* needs little of the state (`ReportsInv`: rows are numbers or none, and
the log tells of a ride in its order) and much of sums. `SumOf` chooses an order
of the rows; `SumFromAny` shows that the order does not matter, and from it
follow what larger sets, larger rows and linear combinations do to a sum
(`SumWithin`, `SumAtMost`, `SumIsLinear`). Totals then agree because each is the
sum of the same lines (`LinesAddUp`, `SystemIsTheSum`), or of lines of fewer
days (`TotalGrows`); a station's report stays within its line because rows
without a gap that are newest lie in the window of the line (`ReportIsWithin`,
which counts them with `CountUpTo`). The forecast divides by the spread of its
dates, and that is not zero: of any two or more dates the sum of squares, times
their number, is more than the square of their sum (`PointsAreSpread`, shown by
adding one date after the other). On a line the sums of the fit are linear in
each other, and what is left is algebra (`FitIsTheLine`, `LineGoesOn`).

**Settlement.** *SessionBilling*: bills made and billers at work are at most
one, as notices are (`BillsToCome`); only what has ended is announced or billed
(`AnnouncedHasEnded`); and each closer that has a bill's payment has one of
those that wait (`PaymentWaits`), so that a session that is billed and still
stopped has a payment to come, or a handler died, or its transaction was marked
before. *Arrears*: as long as a service is not torn one message at a time is
handled there, and the amount it has read is still the amount (`KnowsAmount`);
the rows of iam-service are a step ahead of the flag (`KnowsRows`); and a copy
of the user that is written back whole says what the row says, because nobody
was at work on it (`CopyIsFresh`).

*The loops.* A function of the rounds has the value of its last round by
induction over them. The provers do not instantiate the library's induction,
whose parameter is an operator; `EachRound` states it of a *set* of rounds, from
the well-foundedness of the natural numbers, and `LoopRuns` gives a loop its
run.

*VirtualQueue.* Between two rounds of bubbleUp the heap is in order but for the
item that moves, and what is above that item may stay above what is below it
(`MayRise`); between two rounds of sinkDown likewise, and where the item was put
it may have to rise (`MaySink`, which is why `TakeAt` may do both). So each
operation leaves a heap in order with the items it should have, each once
(`EnqueueIs`, `TakeAtIs`, `RemoveEntryIs`, `LoadedIsHeap`). The invariant ties
them to the rows: what a heap or the serving process has came in (`CameIn`); an
entry that this process may still book was booked by earlier processes only, and
what no longer waited when it started it cannot book (`BookedByEach`); the row a
notifying run goes by still waits unless it was read twice or cancelled under
the run (`ToldByOne`).

*SuggestCharger.* Row i of the table is, for each amount, the most slots that
the first i items give (`RowsAreBest`: the best plan takes the item or does
not), and the way back pays exactly for the slots it takes and takes as many as
the table says (`WalkPays`); so a plan is the best (`PlanIsBest`). That
`Listing`'s list exists for any total preorder is shown by adding one member at
a time (`CanBeListed`); then the answer is sorted by wait and metric
(`SortedByWait`).

A theorem speaks of the specification of one component (`Spec`, `ConsoleSpec`,
`KioskSpec`, `BillingSpec`, `ArrearsSpec`, `SuggestSpec`, ...) or of the
composition that a run checks (`IamSpec`, `InfraSpec`, `ObserversSpec`,
`SettlementSpec`). In a behaviour of a composition the parts that are not chosen
rest as they began, so that what holds of every part holds of it;
`SettlementInvariant` and its like show that too.

**Only model-checked.**

* The liveness properties (`UnpaidSlotIsReleased`, `NoShowSlotIsReleased`,
  `PendingIsSettled`, `EventGetsThrough`): the provers here do not reason about
  fairness with ENABLED.
* `NoDoubleBooking`, which the code violates.

## 6. Where code and documentation part

One run expects a violation. It checks, beside the strongest property that
holds, what a comment and a document say, and TLC prints the steps that break it
(`PROJECT.json`, "findings").

| Run | What is said | What happens |
|---|---|---|
| `double_booking` | overlap is excluded by the database (`session:infrastructure/persistence/typeorm/entities/booking.orm-entities.ts:7-9`) and by the check | no migration creates that constraint. A payment loads a pending booking, the booking expires, another user gets the slot, and the payment's save makes the first booking active again |

What follows came up while the models were written. It is in them, as the code
does it; no run of its own checks it.

*Bookings, payments, delivery, sessions*

* A transaction is said to be immutable after its terminal state
  (`billing:domain/aggregates/transaction.aggregate.ts:19-20`);
  TransactionReconciliationJob saves its copy as failed over a row that a
  callback completed meanwhile
  (`billing:application/use-cases/payment.use-cases.ts:658`).
* A booking is said to be charged once
  (`docs/system/03_business_functions.md:324`). Only the wallet looks for
  another completed payment (`payment.use-cases.ts:312`); a VNPay page opened
  before a wallet payment can still be paid (`:154`). Nothing refunds the
  second, nor a payment that arrives after the booking expired.
* Consumers are said to process an event exactly once
  (`docs/system/01_database_schema.md:1113`); two queues of session-service
  consume `booking.confirmed` and mark it under one key
  (`session:infrastructure/messaging/consumers/booking-sync.consumer.ts:58`,
  `session:application/use-cases/session.use-cases.ts:667`): whichever is second
  does nothing.
* A no-show is said to be a booking without active session
  (`session:application/use-cases/booking-jobs.use-case.ts:65`); the job looks
  at the booking alone.
* `booking.confirmed` does not carry the deposit's transaction
  (`session:domain/events/session.events.ts:36-50`), which its consumer stores:
  it is always null.
* `BookingCancelledConsumer` and `BookingNoShowConsumer` mark the event before
  the refund's transaction
  (`billing:infrastructure/messaging/consumers/session-events.consumer.ts:134`):
  a refund that fails is not tried again. `SessionReservedConsumer` (`:38-47`)
  is described as taking the deposit; it only marks the event.
* A walk-in start looks at active sessions and not at `charger_state`, so it may
  start on a charger that is reserved. The look-up lets a booking whose session
  was interrupted start again; the UNIQUE column `booking_id` then refuses the
  row.
* `charger.status_changed` of ev-infrastructure-service makes session-service's
  charger available without a look at its sessions. The read model keeps
  completed bookings for ever.

*Settlement and queue*

* The deposit of a booked session and its bill share the key
  `payment.completed:<depositTransactionId>`: the settlement's event is a
  duplicate, and booked sessions never close. A late deposit closes a stopped
  session unbilled. A guest's session stays stopped, is announced again and
  grows its idle fee for ever. The first idle fee is promised to be billed
  (`session:application/use-cases/idle-fee.use-case.ts:26-27`) and comes after
  the bill.
* `billed` never rests in LateDeliveryReconciler, so that the adjustment is
  never published. AutoCharge queries tables that `session_db` has not got.
* `wallet.arrears.cleared` is keyed by the time it was made, so that a
  redelivery repeats it; the flag is cleared although other debts are open
  (`session-events.consumer.ts:553`).
* BookingModule and QueueModule have a heap each; only QueueModule's is loaded
  at start. ProcessQueue never changes the row, so that a restart serves the
  same entry again; a join that is rolled back leaves its entry in the heap;
  NotifyQueueHead writes over a cancellation made meanwhile. `dequeueForCharger`
  takes the first of a charger in array order, not the best
  (`session:domain/services/priority-queue.service.ts:17`).
* The orchestrator asks for a balance before it asks for an existing payment,
  and its cached answer never finds the transaction; `createSubscription`
  activates without payment.

*iam and the console*

* Every use case saves a whole row: a stale copy brings back an old password, an
  old status, an unverified address (`OnlyStaleLooksHarm` says that nothing else
  does).
* A late `user.registered` makes a role 'user' again; a whole-row upsert of the
  cache brings back an old debt; deactivation is never announced; staff's tokens
  keep the stations they had.
* Two tabs that exchange one refresh token: the loser clears what the winner
  stored. A lost answer to a refresh ends at the login page. Logging out never
  tells the server.
* `charger.added` has no consumer, so that chargers created later have no row to
  lock. The console deletes a charger at an address that does not exist, shows
  edits it never sends, offers 'CCS2' where the enum has no such value, and an
  edit from an old form opens a deleted station again. An edit does not look at
  the spot, which no index guards.
* `resolvedAt` is never cleared; a maintenance completed before its start shows
  SCHEDULED while the server's filter says COMPLETED.

*Infrastructure and OCPP*

* `scheduleMaintenance` inserts a row and does not close the station
  (`docs/system/03_business_functions.md:183` says it does). Fault detection
  publishes without eventId, so that the look-up finds any row and the report is
  ignored
  (`infra:infrastructure/messaging/consumers/charger-status.consumer.ts:152`).
  'Finishing' after 'available' leaves the row in use.
* A price range open at one end counts as the whole day; trimming yields
  intervals past midnight that no hour matches (`database/seeds` has one,
  `05_pricing_rules.sql:14`); deactivating an ended rule widens its neighbour
  (`infra:application/use-cases/pricing.use-case.ts:492`).
* The late close of an old socket removes the new connection
  (`ocpp:ocpp/ocpp-gateway.service.ts:118`). Nobody publishes the remote
  commands the gateway waits for.

*Observers and kiosk*

* billing-service's notices of a debt have neither eventId nor transactionId:
  all share one key, and the template throws after the mark, so that nobody is
  told. Fault detection names no affected user.
* The hourly indicators count starts only; a report of N days takes N + 1 dates
  in one place and N rows in another; a forecast of a single row is 0. What the
  comments call a weighted average is least squares.
* A reading carries a random transaction number; an archive batch is lost when
  its insert fails.
* A kiosk's confirmation of a notice does nothing, as a start requires INIT; a
  late `charging_started` shows a finished session again; a retry of a stop
  whose answer was lost ends in ERROR and hides the bill. An administrator's
  forced stop gives a reason that is not the one StopSession looks for
  (`session:application/use-cases/session.use-cases.ts:367`), and the session
  ends unbilled.

## 7. What is not modelled

Within the modelled parts:

* **Amounts that no property needs**: deposits, penalties, fees, meters,
  invoices' sums. `Payments` and `Arrears` have amounts, `SuggestCharger` has
  prices, because something is decided by them.
* `booking_status_history` and the administrator's deletion of ended bookings
  (`session:modules/booking/booking.controller.ts:309`) and sessions: rows that
  no handler acts on any more.
* The checks on arrears and on the user's other bookings when a booking is
  created; they refuse requests and read other services' data.
* The automatic stop by telemetry and sessions in error; AutoCharge, which fails
  against `session_db`.
* PayArrears, PaymentOrchestrator and subscriptions: no code but the seeds
  writes the unpaid invoices the first settles, and no service emits the events
  the second waits for.
* Reports by month and by user; staff's leave; avatars; the lists of the console
  (sessions, bookings, billing, staff, dashboard), which show what they read.
* In OutboxDelivery the order of rows and the size of a batch: a publisher may
  take any pending row, which includes every order.

Between the modules, each abstracts what another one is about:

* `ChargerSession` moves a booking in one step; its races are
  BookingLifecycle's.
* `BookingLifecycle` toggles the charger's availability at will; who does it is
  ChargerSession's subject.
* All but `OutboxDelivery` take an event that may come late, and where their
  properties are about it, twice or never; how that comes about is
  OutboxDelivery's.
* `Kiosk` knows of the charger only which sessions began, charge and are
  settled.
* VNPay (it answers at most once per transaction, when it likes), RabbitMQ (a
  queue keeps copies until they are acknowledged and hands them out in any
  order), Redis, FCM, ClickHouse and the charger's firmware are external: they
  are modelled as the code uses them, and `PROJECT.json` marks them so.

Without a module: the customers' app (its requests are the actions of the
services), `backend/shared`, deployment, seeds and docs.

## 8. Plan

1. **Done**: the services and clients of section 2, checked; every invariant and
   every action property of the runs proved; delivery shown to implement its
   promise.
2. **Refinement**: `SlotAllocation` (a slot belongs to at most one booking),
   implemented by BookingLifecycle as long as nothing is raced; a ledger
   implemented by Payments.
3. **Composition** of booking and payment over `AtLeastOnce`: every completed
   payment confirms its booking or finds it ended.
4. **Refunds**: a history of what was refunded, for the two hazards that have no
   property yet.
