------------------------------ MODULE Telemetry ------------------------------
(***************************************************************************)
(* A charger's readings: over HTTP they pass telemetry-ingestion-service,  *)
(* which buffers, publishes and archives them, and name their session; by  *)
(* OCPP the gateway publishes them with a transaction number no session    *)
(* has.  TelemetryConsumer of session-service stores a reading under the   *)
(* session it finds, tells it on, and marks the event last.                *)
(*                                                                         *)
(* Measured values, their clamping and the fault analysis are left out.    *)
(***************************************************************************)
EXTENDS Integers, FiniteSets, Sequences

CONSTANTS
  Runs,        \* charging sessions, of one charger
  NoRun,
  Readings,    \* readings
  NoReading,
  RunOf,       \* the session a reading was measured in
  Named,       \* readings sent over HTTP, by their session's id
  Takers,      \* deliveries TelemetryConsumer handles at once
  BatchSize,   \* BATCH_SIZE of TelemetryBuffer
  ArchiveSize  \* MAX_BATCH of ClickHouseTelemetryService

ASSUME TelemetryAssumption ==
  /\ RunOf \in [Readings -> Runs] /\ Named \subseteq Readings
  /\ NoReading \notin Readings
  /\ IsFiniteSet(Takers)

VARIABLES
  run,       \* charging_sessions: none, active or over
  sent,      \* readings that left the charger
  line,      \* copies waiting in session-svc.telemetry.ingested
  batch,     \* TelemetryBuffer of the charger
  publishing, \* readings buffered and not archived yet: their publication is awaited
  hot,       \* BATCH_BUFFER of ClickHouseTelemetryService
  inserting, \* batches being inserted
  cold,      \* telemetry_logs
  dropped,   \* history: readings lost to the archive
  seenIds,   \* processed_events
  taker,     \* handlers of TelemetryConsumer
  stored,    \* telemetry_readings: the sessions a reading was stored under
  told,      \* session.telemetry events of a reading
  late,      \* history: readings whose session was over when it was looked for
  again      \* history: readings stored by a handler that died before the mark

telemetry == <<run, sent, line, batch, publishing, hot, inserting, cold, dropped, seenIds, taker, stored, told,
               late, again>>

FreeTaker == [at |-> "idle", reading |-> NoReading, run |-> NoRun]

TelemetryInit ==
  /\ run = [s \in Runs |-> "none"]
  /\ sent = {}
  /\ line = [r \in Readings |-> 0]
  /\ batch = <<>> /\ publishing = {}
  /\ hot = <<>> /\ inserting = {} /\ cold = [r \in Readings |-> 0] /\ dropped = {}
  /\ seenIds = {}
  /\ taker = [w \in Takers |-> FreeTaker]
  /\ stored = [r \in Readings |-> <<>>] /\ told = [r \in Readings |-> 0]
  /\ late = {} /\ again = {}

ActiveRuns == {s \in Runs : run[s] = "active"}

StartRun(s) ==
  /\ run[s] = "none" /\ ActiveRuns = {}
  /\ run' = [run EXCEPT ![s] = "active"]
  /\ UNCHANGED <<sent, line, batch, publishing, hot, inserting, cold, dropped, seenIds, taker, stored, told, late, again>>

EndRun(s) ==
  /\ run[s] = "active"
  /\ run' = [run EXCEPT ![s] = "over"]
  /\ UNCHANGED <<sent, line, batch, publishing, hot, inserting, cold, dropped, seenIds, taker, stored, told, late, again>>

-----------------------------------------------------------------------------
(* telemetry-ingestion-service and the gateway                             *)

\* A charger that was offline sends later what it measured.
IsMeasured(r) == r \notin sent /\ run[RunOf[r]] # "none"

\* The gateway publishes a meter value; a failed call loses it.
MeterValues(r) ==
  /\ IsMeasured(r) /\ r \notin Named
  /\ sent' = sent \cup {r}
  /\ line' \in {line, [line EXCEPT ![r] = 1]}
  /\ UNCHANGED <<run, batch, publishing, hot, inserting, cold, dropped, seenIds, taker, stored, told, late, again>>

Elements(s) == {s[i] : i \in 1 .. Len(s)}

\* Buffered, published alone, and published again with its batch once that is full: no
\* queue is bound to telemetry.batch.  A failed publication is logged and forgotten.
Ingest(r) ==
  /\ IsMeasured(r) /\ r \in Named
  /\ sent' = sent \cup {r}
  /\ line' \in {line, [line EXCEPT ![r] = 1]}
  /\ LET full == Append(batch, r) IN
     batch' = IF Len(full) >= BatchSize THEN <<>> ELSE full
  /\ publishing' = publishing \cup {r}
  /\ UNCHANGED <<run, hot, inserting, cold, dropped, seenIds, taker, stored, told, late, again>>

\* Then it goes to the archive's buffer, which is flushed when it is full.
Archive(r) ==
  /\ r \in publishing
  /\ publishing' = publishing \ {r}
  /\ LET full == Append(hot, r) IN
     IF Len(full) >= ArchiveSize
     THEN hot' = <<>> /\ inserting' = inserting \cup {full}
     ELSE hot' = full /\ UNCHANGED inserting
  /\ UNCHANGED <<run, sent, line, batch, cold, dropped, seenIds, taker, stored, told, late, again>>

\* BufferFlushScheduler.
FlushBatch ==
  /\ batch # <<>>
  /\ batch' = <<>>
  /\ UNCHANGED <<run, sent, line, publishing, hot, inserting, cold, dropped, seenIds, taker, stored, told, late, again>>

\* Mutant of FlushHot: the buffer is emptied only when the insert has returned.
FlushHotKept ==
  /\ hot # <<>>
  /\ inserting' = inserting \cup {hot}
  /\ UNCHANGED <<run, sent, line, batch, publishing, hot, cold, dropped, seenIds, taker, stored, told, late, again>>

\* The timer takes what is buffered.
FlushHot ==
  /\ hot # <<>>
  /\ hot' = <<>> /\ inserting' = inserting \cup {hot}
  /\ UNCHANGED <<run, sent, line, batch, publishing, cold, dropped, seenIds, taker, stored, told, late, again>>

\* What the archive refuses is not tried again.
EndInsert(rows, fails) ==
  /\ rows \in inserting
  /\ inserting' = inserting \ {rows}
  /\ IF fails
     THEN dropped' = dropped \cup Elements(rows) /\ UNCHANGED cold
     ELSE /\ cold' = [r \in Readings |-> IF r \in Elements(rows) THEN cold[r] + 1 ELSE cold[r]]
          /\ UNCHANGED dropped
  /\ UNCHANGED <<run, sent, line, batch, publishing, hot, seenIds, taker, stored, told, late, again>>

\* The process of telemetry-ingestion-service dies with its buffers.
IngestionDies ==
  /\ batch # <<>> \/ publishing # {} \/ hot # <<>>
  /\ batch' = <<>> /\ publishing' = {} /\ hot' = <<>>
  /\ dropped' = dropped \cup publishing \cup Elements(hot)
  /\ UNCHANGED <<run, sent, line, inserting, cold, seenIds, taker, stored, told, late, again>>

-----------------------------------------------------------------------------
(* TelemetryConsumer                                                       *)

ReadingIsDelivered(r) == line[r] > Cardinality({w \in Takers : taker[w].reading = r})

TakeReading(w, r) ==
  /\ taker[w] = FreeTaker /\ ReadingIsDelivered(r)
  /\ r \notin seenIds
  /\ taker' = [taker EXCEPT ![w].at = "checked", ![w].reading = r]
  /\ UNCHANGED <<run, sent, line, batch, publishing, hot, inserting, cold, dropped, seenIds, stored, told, late, again>>

SkipReading(r) ==
  /\ ReadingIsDelivered(r) /\ r \in seenIds
  /\ line' = [line EXCEPT ![r] = @ - 1]
  /\ UNCHANGED <<run, sent, batch, publishing, hot, inserting, cold, dropped, seenIds, taker, stored, told, late, again>>

\* Mutant of Found: the charger's active session, whatever id the reading has.
FoundActive(r) == ActiveRuns

\* The session of that id, whatever its status; else the charger's active one.
Found(r) == IF r \in Named THEN {RunOf[r]} ELSE ActiveRuns

\* Without a session the reading is marked and dropped.
Resolve(w) ==
  LET r == taker[w].reading IN
  /\ taker[w].at = "checked"
  /\ late' = IF run[RunOf[r]] = "over" THEN late \cup {r} ELSE late
  /\ \/ /\ Found(r) = {}
        /\ seenIds' = seenIds \cup {r}
        /\ line' = [line EXCEPT ![r] = @ - 1]
        /\ taker' = [taker EXCEPT ![w] = FreeTaker]
     \/ /\ \E s \in Found(r) : taker' = [taker EXCEPT ![w].at = "found", ![w].run = s]
        /\ UNCHANGED <<seenIds, line>>
  /\ UNCHANGED <<run, sent, batch, publishing, hot, inserting, cold, dropped, stored, told, again>>

\* Mutant of StoreReading: the copy is acknowledged before the reading is told.
StoreReadingAcked(w) ==
  LET r == taker[w].reading IN
  /\ taker[w].at = "found"
  /\ stored' = [stored EXCEPT ![r] = Append(@, taker[w].run)]
  /\ line' = [line EXCEPT ![r] = @ - 1]
  /\ taker' = [taker EXCEPT ![w].at = "stored"]
  /\ UNCHANGED <<run, sent, batch, publishing, hot, inserting, cold, dropped, seenIds, told, late, again>>

StoreReading(w) ==
  LET r == taker[w].reading IN
  /\ taker[w].at = "found"
  /\ stored' = [stored EXCEPT ![r] = Append(@, taker[w].run)]
  /\ taker' = [taker EXCEPT ![w].at = "stored"]
  /\ UNCHANGED <<run, sent, line, batch, publishing, hot, inserting, cold, dropped, seenIds, told, late, again>>

\* The outbox gets session.telemetry and the sockets get the values.
TellReading(w) ==
  LET r == taker[w].reading IN
  /\ taker[w].at = "stored"
  /\ told' = [told EXCEPT ![r] = @ + 1]
  /\ taker' = [taker EXCEPT ![w].at = "told"]
  /\ UNCHANGED <<run, sent, line, batch, publishing, hot, inserting, cold, dropped, seenIds, stored, late, again>>

\* The acknowledgement may be lost: the copy comes again.
MarkReading(w) ==
  LET r == taker[w].reading IN
  /\ taker[w].at = "told"
  /\ seenIds' = seenIds \cup {r}
  /\ line' \in {line, [line EXCEPT ![r] = @ - 1]}
  /\ taker' = [taker EXCEPT ![w] = FreeTaker]
  /\ UNCHANGED <<run, sent, batch, publishing, hot, inserting, cold, dropped, stored, told, late, again>>

\* The process dies or a statement fails; the copy comes again.
TakerDies(w) ==
  /\ taker[w] # FreeTaker
  /\ again' = IF taker[w].at \in {"stored", "told"} THEN again \cup {taker[w].reading} ELSE again
  /\ taker' = [taker EXCEPT ![w] = FreeTaker]
  /\ UNCHANGED <<run, sent, line, batch, publishing, hot, inserting, cold, dropped, seenIds, stored, told, late>>

TelemetryNext ==
  \/ \E s \in Runs : StartRun(s) \/ EndRun(s)
  \/ \E r \in Readings : MeterValues(r) \/ Ingest(r) \/ Archive(r) \/ SkipReading(r) \/ \E w \in Takers : TakeReading(w, r)
  \/ FlushBatch \/ FlushHot \/ IngestionDies
  \/ \E rows \in inserting, fails \in BOOLEAN : EndInsert(rows, fails)
  \/ \E w \in Takers : Resolve(w) \/ StoreReading(w) \/ TellReading(w) \/ MarkReading(w) \/ TakerDies(w)

-----------------------------------------------------------------------------
(* Properties.                                                             *)

\* Sessions, buffers and handlers have their types.
TelemetryTypeOK ==
  /\ run \in [Runs -> {"none", "active", "over"}]
  /\ sent \cup seenIds \cup dropped \cup publishing \cup late \cup again \subseteq Readings
  /\ line \in [Readings -> 0 .. 1]
  /\ Elements(batch) \cup Elements(hot) \subseteq Readings
  /\ \A r \in Readings : Elements(stored[r]) \subseteq Runs /\ told[r] \in Nat /\ cold[r] \in Nat
  /\ \A w \in Takers : taker[w].at \in {"idle", "checked", "found", "stored", "told"}

\* A reading is a reading of its own session: only one that came by OCPP and was looked
\* at when that session was over is stored under the charger's next session.
ReadingHasItsSession ==
  \A r \in Readings, s \in Runs :
    s \in Elements(stored[r]) /\ s # RunOf[r] => r \in late \ Named

\* A reading is stored and told once, unless the handler died after it was stored, and
\* archived once: the two ways a batch is begun, by its size and by the timer, share no
\* row, and what was neither archived nor lost is still in a buffer.
ReadingIsKeptOnce ==
  \A r \in Readings :
    /\ r \notin again => Len(stored[r]) <= 1 /\ told[r] <= 1
    /\ r \in seenIds /\ stored[r] = <<>> => told[r] = 0 /\ r \notin Named
    /\ r \in sent \cap Named =>
         1 = (IF r \in publishing \cup Elements(hot) THEN 1 ELSE 0) + Cardinality({b \in inserting : r \in Elements(b)})
               + cold[r] + (IF r \in dropped THEN 1 ELSE 0)
=============================================================================
