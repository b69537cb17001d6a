-------------------------- MODULE MCChargerSession --------------------------
(***************************************************************************)
(* Two sessions, one booking and two workers.  One unit of the clock is    *)
(* fifteen minutes: the booking starts one unit from now and takes one, so *)
(* that a start with it can be early, in time and late, and a walk-in can  *)
(* have it ahead or not.  Or the kiosk, which has of the sessions only     *)
(* when they begin and end.                                                *)
(***************************************************************************)
EXTENDS ChargerSession, Kiosk, TLC

CONSTANTS b1

VARIABLE part

MCStartAt == [b \in Bookings |-> 1]

MCEndAt == [b \in Bookings |-> 2]

SessionInit == Init /\ KioskInit /\ part \in {"session", "kiosk"}

SessionNext ==
  /\ UNCHANGED part
  /\ \/ part = "session" /\ Next /\ UNCHANGED kiosk
     \/ part = "kiosk" /\ KioskNext /\ UNCHANGED vars

SessionSpec == SessionInit /\ [][SessionNext]_<<vars, kiosk, part>>

\* Left out: the histories of sessions that have ended, which no property and no action reads
\* as a session never becomes active again; and at the kiosk the payments and the mark they
\* set, which no property reads and no other action.
MCKioskView == <<begun, charging, wire, recent, online, screen, shown, busy, summary, url, rooms, calls>>
MCView == <<tables, now, worker, stale, raced \cap Active, overwritten \cap Active, MCKioskView, part>>

\* Sessions are alike, and so are the workers.
MCSymmetry == Permutations(Sessions) \cup Permutations(Workers)

\* The kiosk: two requests in flight, two events waiting, and only the first session paid.
MCBound == Cardinality(calls) <= 2 /\ Len(wire) <= 2 /\ settled \subseteq {1}
=============================================================================
