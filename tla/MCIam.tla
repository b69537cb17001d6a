------------------------------- MODULE MCIam --------------------------------
(* The account, the vehicles and the roster share no row: a behaviour is one  *)
(* of the account, of the vehicles or of the roster.                          *)
EXTENDS LoginSessions, Vehicles, StaffRoster, TLC

CONSTANTS s1, s2, s3, c1, p1, p2, p3, m1, q1, q2, a1, a2, w1, w2

VARIABLE part

IamInit == Init /\ GarageInit /\ RosterInit /\ part \in {"account", "garage", "roster"}

IamNext ==
  /\ UNCHANGED part
  /\ \/ part = "account" /\ Next /\ UNCHANGED <<garage, roster>>
     \/ part = "garage" /\ GarageNext /\ UNCHANGED <<vars, roster>>
     \/ part = "roster" /\ RosterNext /\ UNCHANGED <<vars, garage>>

IamSpec == IamInit /\ [][IamNext]_<<vars, garage, roster, part>>

\* The tables of all three have their types.
IamTypeOK == TypeOK /\ GarageTypeOK /\ RosterTypeOK

\* A refresh token is exchanged for one session, and no session is left of an earlier
\* password: RefreshTokenUseCase, ChangePasswordUseCase.
TokensAreSound == TokenIsExchangedOnce /\ OldPasswordHasNoSession

\* Whole-row writes undo something only from a copy that is older than the row: only then does
\* the account go back, a deleted vehicle return, or an attendance open a second day
\* (user.repository.ts, vehicle.repository.ts, staff.controller.ts).
OnlyStaleLooksHarm == RevertsOnlyFromStaleCopy /\ DeletedStaysUnlessBehind /\ SecondDayOnlyIfFooled

MCView == <<account, session, token, worker, issued, stale, cutOff, survivor \cap Live, overlapped, lost, uncut,
            garage, roster, part>>
MCSymmetry == Permutations(Sessions) \cup Permutations(Workers)

\* The second factor and the status are followed while the password is the first
\* one, a third session while there is no second factor either.
MCRows == {account} \cup {worker[w].row : w \in Workers}
MCPlain == \A row \in MCRows : row.mfa = "off" /\ row.status = "active"
MCThird == \A s \in Sessions : session[s] # NoRow
MCBound == ~lost /\ ~uncut /\ (issued = 2 \/ MCThird => MCPlain) /\ (MCThird => issued = 1)
=============================================================================
