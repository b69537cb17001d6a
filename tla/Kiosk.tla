-------------------------------- MODULE Kiosk --------------------------------
(***************************************************************************)
(* The kiosk at a charger.  Its screen is moved by the customer, by the    *)
(* answers of the requests it has in flight, and by the events that        *)
(* ChargingGateway of session-service broadcasts; none of the three waits  *)
(* for the others, and a request goes on when its screen is gone.          *)
(*                                                                         *)
(* Prices, telemetry, the camera, texts and animation are left out, and so *)
(* is a page reload.  Sessions of the charger are numbered as they begin.  *)
(***************************************************************************)
EXTENDS Integers, FiniteSets, Sequences

CONSTANTS
  MaxCharges,  \* bound: sessions that begin
  MaxTries,    \* MAX_RETRIES of apiSessionClient
  MaxWire      \* bound: events waiting to be broadcast when a job writes one

ASSUME KioskAssumption == MaxCharges \in Nat

VARIABLES
  begun,    \* sessions begun
  charging, \* the last of them is active
  settled,  \* sessions whose payment completed
  wire,     \* outbox rows ChargingGateway has not broadcast, in order
  recent,   \* the row it broadcast last
  online,   \* the kiosk's socket is connected
  rooms,    \* session rooms the socket is in; it is always in its charger's
  calls,    \* requests and timers in flight; two that look the same are one
  screen,   \* status
  shown,    \* activeSession
  busy,     \* actionInProgressRef
  summary,  \* sessionSummary: the session it is of
  url,      \* vnpayUrl: the session it pays
  paidBy    \* isPaid: the session whose payment set it

backend == <<begun, charging, settled, wire, recent, online>>
face == <<screen, shown, busy, summary, url, paidBy, rooms>>
kiosk == <<backend, face, calls>>

None == 0
EventRow(what, s) == [what |-> what, of |-> s]
NoEvent == EventRow("none", None)
Charges == 1 .. MaxCharges

Call(kind, at, s) == [kind |-> kind, at |-> at, of |-> s, pays |-> s, tries |-> 0]
InitCall == Call("init", "asked", None)

\* Calls made under actionInProgressRef.
Actions == {c \in calls : c.kind \in {"start", "booked", "stop", "completed"}}

KioskInit ==
  /\ begun = 0 /\ charging = FALSE /\ settled = {} /\ wire = <<>> /\ recent = NoEvent /\ online = FALSE
  /\ screen = "INIT" /\ shown = None /\ busy = FALSE /\ summary = None /\ url = None /\ paidBy = None
  /\ rooms = {} /\ calls = {InitCall}

-----------------------------------------------------------------------------
(* session-service                                                         *)

IsOver(s) == s < begun \/ (s = begun /\ ~charging)

Begin ==
  /\ ~charging /\ begun < MaxCharges
  /\ begun' = begun + 1 /\ charging' = TRUE
  /\ wire' = Append(wire, EventRow("started", begun + 1))
  /\ UNCHANGED <<settled, recent, online>>

\* The row's two events are written in one transaction; the kiosk has no handler for
\* charging_interrupted.
End(how) ==
  /\ charging
  /\ charging' = FALSE
  /\ wire' = wire \o <<EventRow(how, begun), EventRow("available", None)>>
  /\ UNCHANGED <<begun, settled, recent, online>>

\* A customer starts or stops from the app, or staff force-stop.
AppStart == Begin /\ UNCHANGED <<face, calls>>
AppStop == \E how \in {"completed", "interrupted"} : End(how) /\ UNCHANGED <<face, calls>>

\* The jobs reserve the charger for a booking, and let it go again.
Report(what) ==
  /\ Len(wire) < MaxWire
  /\ wire' = Append(wire, EventRow(what, None))
  /\ UNCHANGED <<begun, charging, settled, recent, online, face, calls>>

-----------------------------------------------------------------------------
(* The screen                                                              *)

\* The effect of useSessionStateMachine asks for the active session whenever the
\* screen becomes INIT.
CallsAt(to, cs) == IF to = "INIT" /\ screen # "INIT" THEN cs \cup {InitCall} ELSE cs

Go(to, cs) == screen' = to /\ calls' = CallsAt(to, cs)

\* A shown session's room is joined when the socket is connected.
Show(s) == shown' = s /\ rooms' = IF online /\ s # None THEN rooms \cup {s} ELSE rooms

ShowOnly == UNCHANGED <<summary, url, paidBy>>

\* The answers of initializeKiosk: the active session is shown, its telemetry asked for,
\* and then the screen turns ACTIVE, whatever it has become.  A failed call is null.
InitRead(c) ==
  /\ c.kind = "init" /\ c.at = "asked"
  /\ \E s \in {None} \cup (IF charging THEN {begun} ELSE {}) :
       calls' = (calls \ {c}) \cup (IF s = None THEN {} ELSE {Call("init", "read", s)})
  /\ UNCHANGED <<backend, face>>

InitShow(c) ==
  /\ c.kind = "init" /\ c.at = "read"
  /\ Show(c.of)
  /\ calls' = (calls \ {c}) \cup {[c EXCEPT !.at = "readings"]}
  /\ UNCHANGED <<backend, screen, busy>> /\ ShowOnly

InitActive(c) ==
  /\ c.kind = "init" /\ c.at = "readings"
  /\ Go("ACTIVE", calls \ {c})
  /\ UNCHANGED <<backend, shown, rooms, busy>> /\ ShowOnly

\* WelcomeScreen, once it has its station: a charger that cannot be used now.
StationRead(to) ==
  /\ screen = "INIT" /\ to \in {"MAINTENANCE", "OFFLINE", "RESERVED"}
  /\ Go(to, calls)
  /\ UNCHANGED <<backend, shown, rooms, busy>> /\ ShowOnly

\* handleStart asks for the charger's bookings first.
PressStart ==
  /\ screen = "INIT"
  /\ calls' = calls \cup {Call("slots", "asked", None)}
  /\ UNCHANGED <<backend, face>>

\* startSession as the screen `from' holds it, and startBookingSession.
Starts(kind, from, cs) ==
  IF busy \/ from \notin (IF kind = "start" THEN {"INIT"} ELSE {"SCAN_QR", "RESERVED"})
  THEN calls' = cs /\ UNCHANGED busy
  ELSE calls' = cs \cup {Call(kind, "sent", None)} /\ busy' = TRUE

\* A booking within ten minutes, within two hours, or none: handleStart still holds the
\* startSession of the INIT screen it was pressed on.
SlotsAnswered(c) ==
  /\ c.kind = "slots"
  /\ \/ \E to \in {"RESERVED", "NOTICE"} : Go(to, calls \ {c}) /\ UNCHANGED busy
     \/ Starts("start", "INIT", calls \ {c}) /\ UNCHANGED screen
  /\ UNCHANGED <<backend, shown, rooms>> /\ ShowOnly

\* InterimNoticeScreen calls the startSession of its own screen.
ConfirmNotice ==
  /\ screen = "NOTICE"
  /\ Starts("start", screen, calls)
  /\ UNCHANGED <<backend, screen, shown, rooms, summary, url, paidBy>>

PressScan ==
  /\ screen = "INIT"
  /\ Go("SCAN_QR", calls)
  /\ UNCHANGED <<backend, shown, rooms, busy>> /\ ShowOnly

\* QrScannerScreen waits 1.2 s, and calls what its last render gave it, gone or not.
Scan ==
  /\ screen = "SCAN_QR"
  /\ calls' = calls \cup {Call("scanned", "asked", None)}
  /\ UNCHANGED <<backend, face>>

ScanFires(c) ==
  /\ c.kind = "scanned"
  /\ Starts("booked", "SCAN_QR", calls \ {c})
  /\ UNCHANGED <<backend, screen, shown, rooms>> /\ ShowOnly

ScanReserved ==
  /\ screen = "RESERVED"
  /\ Starts("booked", screen, calls)
  /\ UNCHANGED <<backend, screen, shown, rooms>> /\ ShowOnly

\* resetSession, behind a button, the RESERVED countdown, and the countdown of a paid bill.
Reset ==
  /\ screen \in {"SCAN_QR", "RESERVED", "NOTICE", "OFFLINE", "BILLED", "ERROR"}
  /\ Go("INIT", calls)
  /\ Show(None) /\ summary' = None /\ url' = None /\ paidBy' = None
  /\ UNCHANGED <<backend, busy>>
-----------------------------------------------------------------------------
(* Starting, stopping and billing                                          *)

StartServed(c) ==
  /\ c.kind \in {"start", "booked"} /\ c.at = "sent"
  /\ UNCHANGED face
  /\ \/ Begin /\ calls' = (calls \ {c}) \cup {[c EXCEPT !.at = "done", !.of = begun + 1]}
     \/ UNCHANGED backend /\ calls' = (calls \ {c}) \cup {[c EXCEPT !.at = "refused"]}

\* An answer that is lost is asked for again, under a new Idempotency-Key.
AnswerLost(c) ==
  /\ c.at = "done"
  /\ calls' = (calls \ {c}) \cup
       {IF c.tries < MaxTries THEN [c EXCEPT !.at = "sent", !.tries = c.tries + 1]
                              ELSE [c EXCEPT !.at = "refused"]}
  /\ UNCHANGED <<backend, face>>

StartAnswered(c) ==
  /\ c.kind \in {"start", "booked"} /\ c.at \in {"done", "refused"}
  /\ busy' = FALSE
  /\ IF c.at = "done" THEN Show(c.of) /\ Go("ACTIVE", calls \ {c})
                      ELSE Go("ERROR", calls \ {c}) /\ UNCHANGED <<shown, rooms>>
  /\ UNCHANGED backend /\ ShowOnly

PressStop ==
  /\ screen = "ACTIVE" /\ shown # None /\ ~busy
  /\ busy' = TRUE
  /\ Go("STOPPED", calls \cup {Call("stop", "sent", shown)})
  /\ UNCHANGED <<backend, shown, rooms>> /\ ShowOnly

\* Refused when the session is not active.
StopServed(c) ==
  /\ c.kind = "stop" /\ c.at = "sent"
  /\ UNCHANGED face
  /\ \/ c.of = begun /\ End("completed") /\ calls' = (calls \ {c}) \cup {[c EXCEPT !.at = "done"]}
     \/ UNCHANGED backend /\ calls' = (calls \ {c}) \cup {[c EXCEPT !.at = "refused"]}

\* Mutant of StopAnswered: the error screen forgets the action in progress.
StopAnsweredHeld(c) ==
  /\ c.kind = "stop" /\ c.at \in {"done", "refused"}
  /\ IF c.at = "done" THEN calls' = (calls \ {c}) \cup {[c EXCEPT !.at = "pay"]} /\ UNCHANGED screen
                      ELSE Go("ERROR", calls \ {c})
  /\ UNCHANGED <<backend, shown, rooms, busy>> /\ ShowOnly

StopAnswered(c) ==
  /\ c.kind = "stop" /\ c.at \in {"done", "refused"}
  /\ IF c.at = "done"
     THEN calls' = (calls \ {c}) \cup {[c EXCEPT !.at = "pay"]} /\ UNCHANGED <<screen, busy>>
     ELSE Go("ERROR", calls \ {c}) /\ busy' = FALSE
  /\ UNCHANGED <<backend, shown, rooms>> /\ ShowOnly

\* The link is of the session the handler holds; without one the bill is shown all the same.
PayAnswered(c) ==
  /\ c.at = "pay"
  /\ busy' = FALSE
  /\ summary' = c.of /\ url' \in {None, c.pays}
  /\ Go("BILLED", calls \ {c})
  /\ UNCHANGED <<backend, shown, rooms, paidBy>>

-----------------------------------------------------------------------------
(* The socket                                                              *)

\* Mutant of Concerns: an event of another session passes.
ConcernsAny(s) == shown # None

\* sessionIdRef, and the guard of handleSessionCompleted.
Concerns(s) == shown # None /\ s = shown

HearStarted(s) ==
  IF shown # None /\ s # shown THEN UNCHANGED <<face, calls>>
  ELSE /\ Show(s) /\ Go("ACTIVE", calls)
       /\ UNCHANGED busy /\ ShowOnly

\* handleSessionCompleted asks for a link of the session shown.
HearCompleted(s) ==
  IF screen # "ACTIVE" \/ ~Concerns(s) \/ busy THEN UNCHANGED <<face, calls>>
  ELSE /\ busy' = TRUE
       /\ calls' = calls \cup {[Call("completed", "pay", s) EXCEPT !.pays = shown]}
       /\ UNCHANGED <<screen, shown, rooms>> /\ ShowOnly

\* Its `offline' and `faulted' are never sent: session-service writes no such event.
HearCharger(what) ==
  LET to == IF what = "reserved" /\ screen \in {"INIT", "SCAN_QR"} THEN "RESERVED"
            ELSE IF what # "reserved" /\ screen \in {"RESERVED", "SCAN_QR", "MAINTENANCE", "OFFLINE"} THEN "INIT"
            ELSE screen IN
  Go(to, calls) /\ UNCHANGED <<shown, rooms, busy>> /\ ShowOnly

Hear(e) ==
  CASE e.what = "started"     -> HearStarted(e.of)
    [] e.what = "completed"   -> HearCompleted(e.of)
    [] e.what = "interrupted" -> UNCHANGED <<face, calls>>
    [] OTHER                  -> HearCharger(e.what)

\* pollAndBroadcast; what is broadcast while the kiosk is offline is lost to it.  An event that
\* reaches it through both of its rooms is heard twice in a row: the second time changes nothing.
Broadcast ==
  /\ wire # <<>>
  /\ recent' = Head(wire) /\ wire' = Tail(wire)
  /\ IF online THEN Hear(Head(wire)) ELSE UNCHANGED <<face, calls>>
  /\ UNCHANGED <<begun, charging, settled, online>>

\* broadcastedIds is in memory: a restart, or clearing it, broadcasts the rows of the last
\* 15 s again; the last row stands for them.
Forget ==
  /\ recent # NoEvent
  /\ wire' = <<recent>> \o wire /\ recent' = NoEvent
  /\ UNCHANGED <<begun, charging, settled, online, face, calls>>

\* The payment's event goes to the session's room alone.
Settle(s) ==
  /\ IsOver(s) /\ s \notin settled
  /\ settled' = settled \cup {s}
  /\ paidBy' = IF online /\ s \in rooms THEN s ELSE paidBy
  /\ UNCHANGED <<begun, charging, wire, recent, online, screen, shown, busy, summary, url, rooms, calls>>

Connect ==
  /\ ~online /\ online' = TRUE
  /\ rooms' = {shown} \ {None}
  /\ UNCHANGED <<begun, charging, settled, wire, recent, screen, shown, busy, summary, url, paidBy, calls>>

Disconnect ==
  /\ online /\ online' = FALSE
  /\ rooms' = {}
  /\ UNCHANGED <<begun, charging, settled, wire, recent, screen, shown, busy, summary, url, paidBy, calls>>

Answers(c) ==
  \/ InitRead(c) \/ InitShow(c) \/ InitActive(c) \/ SlotsAnswered(c) \/ ScanFires(c)
  \/ StartServed(c) \/ AnswerLost(c) \/ StartAnswered(c) \/ StopServed(c) \/ StopAnswered(c) \/ PayAnswered(c)

KioskNext ==
  \/ AppStart \/ AppStop \/ (\E what \in {"reserved", "available"} : Report(what))
  \/ (\E to \in {"MAINTENANCE", "OFFLINE", "RESERVED"} : StationRead(to))
  \/ PressStart \/ ConfirmNotice \/ PressScan \/ Scan \/ ScanReserved \/ Reset \/ PressStop
  \/ (\E c \in calls : Answers(c))
  \/ Broadcast \/ Forget \/ (\E s \in Charges : Settle(s)) \/ Connect \/ Disconnect

-----------------------------------------------------------------------------
Screens == {"INIT", "SCAN_QR", "RESERVED", "NOTICE", "MAINTENANCE", "OFFLINE", "ACTIVE", "STOPPED", "BILLED", "ERROR"}
MaybeCharge == {None} \cup Charges

\* The kiosk's state has its types: useSessionStateMachine.
KioskTypeOK ==
  /\ screen \in Screens /\ {shown, summary, url, paidBy} \subseteq MaybeCharge
  /\ {busy, charging, online} \subseteq BOOLEAN
  /\ begun \in 0 .. MaxCharges /\ {settled, rooms} \subseteq SUBSET Charges
  /\ \A i \in 1 .. Len(wire) : wire[i].of \in MaybeCharge
  /\ \A c \in calls : c.of \in MaybeCharge /\ c.at \in {"asked", "read", "readings", "sent", "done", "refused", "pay"}

\* actionInProgressRef is set exactly while one start, stop or bill is under way, however
\* late answers, events and resets cross it: the kiosk never runs two of them at once, and
\* never keeps its buttons dead when none is left.  ProcessingScreen, which has no button,
\* is up only while a stop will still replace it.
BusyWhileActing ==
  /\ Cardinality(Actions) = IF busy THEN 1 ELSE 0
  /\ screen = "STOPPED" => \E c \in Actions : c.kind = "stop"

\* A bill at the kiosk is of one session, which is over, and its payment link pays that
\* session, in any order of answers; and a connected kiosk is in the room of the session it
\* shows, where it hears that the bill was paid, whichever of the connection and the session
\* came first: stopSession, handleSessionCompleted, resetSession, useWebSocket.
BillIsOfOneSession ==
  /\ screen = "BILLED" => summary # None
  /\ summary # None => IsOver(summary)
  /\ url \in {None, summary}
  /\ online /\ shown # None => shown \in rooms
==============================================================================
