--------------------------- MODULE LoginSessions ----------------------------
(***************************************************************************)
(* One account of iam-service: its row in users, its rows in auth_sessions *)
(* and in email_verification_tokens, and the requests that register, log   *)
(* in, refresh, log out, verify the address, change the password, set up   *)
(* the second factor or change the account's status.                       *)
(*                                                                         *)
(* No request locks the account.  Each loads the row, changes its copy and *)
(* writes the whole copy back with save(), sometimes in several            *)
(* statements: a request is a worker that holds its copy, and the label    *)
(* says which statement comes next.  A worker whose copy was read before   *)
(* the commit of another is stale.                                         *)
(*                                                                         *)
(* Hashes, secrets and tokens are left out: a password is the number of    *)
(* the change that set it.  The limit of attempts per address lets every   *)
(* request pass when Redis does not answer and is no guard.                *)
(***************************************************************************)
EXTENDS Integers, FiniteSets

CONSTANTS
  Sessions,    \* rows auth_sessions may get
  Codes,       \* backup codes of the second factor
  Workers,     \* requests at work at once
  NoSession,
  MaxPassword  \* bound: passwords the account may get

ASSUME LoginAssumption ==
  /\ NoSession \notin Sessions
  /\ MaxPassword \in Nat

VARIABLES
  account,   \* the row of users
  session,   \* auth_sessions
  token,     \* the account's row of email_verification_tokens, of several the last
  worker,    \* what every request is about to write
  issued,    \* history: passwords chosen so far
  stale,     \* history: workers whose copy another's commit has overtaken
  cutOff,    \* history: workers that were at work when all sessions were revoked,
             \* or that refresh a survivor
  survivor,  \* history: sessions saved by such a worker
  overlapped,\* history: sessions refreshed from a token that was revoked meanwhile
  lost,      \* history: a stale copy has put back a password or an unverified address
  uncut      \* history: a password was changed and the revocation never came

vars == <<account, session, token, worker, issued, stale, cutOff, survivor, overlapped, lost, uncut>>
records == <<issued, survivor, overlapped, lost, uncut>>

\* password 0: nobody has registered.
Account == [password : 0 .. MaxPassword, status : {"active", "suspended"}, verified : BOOLEAN,
            mfa : {"off", "pending", "on"}, codes : SUBSET Codes]

NoAccount == [password |-> 0, status |-> "active", verified |-> FALSE, mfa |-> "off", codes |-> {}]

NoRow == [state |-> "none", password |-> 0, from |-> NoSession]

Idle == [at |-> "idle", row |-> NoAccount, session |-> NoSession]

Init ==
  /\ account = NoAccount
  /\ session = [s \in Sessions |-> NoRow]
  /\ token = "none"
  /\ worker = [w \in Workers |-> Idle]
  /\ issued = 0
  /\ stale = {} /\ cutOff = {} /\ survivor = {} /\ overlapped = {}
  /\ lost = FALSE /\ uncut = FALSE

Live == {s \in Sessions : session[s].state = "live"}

At(w, label) == worker[w].at = label

\* Worker w has read the account and made a copy of it.
Load(w, label, row, s) ==
  /\ worker[w] = Idle
  /\ account.password # 0
  /\ worker' = [worker EXCEPT ![w] = [at |-> label, row |-> row, session |-> s]]
  /\ UNCHANGED <<account, session, token, stale, cutOff, records>>

GoTo(w, label) == worker' = [worker EXCEPT ![w].at = label]

\* The copy is not needed any more.
GoOn(w, label) == worker' = [worker EXCEPT ![w].at = label, ![w].row = NoAccount]

Finish(w) ==
  /\ worker' = [worker EXCEPT ![w] = Idle]
  /\ stale' = stale \ {w}
  /\ cutOff' = cutOff \ {w}

-----------------------------------------------------------------------------
(* The copy                                                                *)

\* The score is high for an unknown device at an address with many failures, and no
\* device is unknown to an account without sessions.
MayBeRisky == Live # {}

\* save(): all columns of the copy, whatever the row is by now.
Save(w, row) ==
  /\ account' = row
  /\ stale' = {v \in Workers \ {w} : worker[v] # Idle}
  /\ lost' = (lost \/ (w \in stale /\ <<row.password, row.verified>> # <<account.password, account.verified>>))

-----------------------------------------------------------------------------
(* register                                                                *)

LoadRegister(w) ==
  /\ worker[w] = Idle
  /\ ~account.verified
  /\ issued < MaxPassword
  /\ issued' = issued + 1
  /\ worker' = [worker EXCEPT ![w] = [at |-> IF account.password = 0 THEN "register" ELSE "overwrite",
                                      row |-> [account EXCEPT !.password = issued + 1],
                                      session |-> NoSession]]
  /\ UNCHANGED <<account, session, token, stale, cutOff, survivor, overlapped, lost, uncut>>

\* A second row with this address: the unique index refuses it.
CommitRegister(w) ==
  /\ At(w, "register")
  /\ IF account.password = 0
     THEN /\ Save(w, worker[w].row)
          /\ GoOn(w, "issue")
          /\ UNCHANGED cutOff
     ELSE Finish(w) /\ UNCHANGED <<account, lost>>
  /\ UNCHANGED <<session, token, issued, survivor, overlapped, uncut>>

\* The requests that had found the token that goes now.
Orphaned ==
  [w \in Workers |-> [worker[w] EXCEPT !.at = IF @ = "verify" THEN "verify_old" ELSE IF @ = "mark" THEN "mark_old" ELSE @]]

\* The tokens of the first registration go before its data are replaced.
CommitOverwrite(w) ==
  /\ At(w, "overwrite")
  /\ token' = "none"
  /\ Save(w, worker[w].row)
  /\ worker' = [Orphaned EXCEPT ![w].at = "issue", ![w].row = NoAccount]
  /\ UNCHANGED <<session, cutOff, issued, survivor, overlapped, uncut>>

\* deleteByUserId and create
IssueToken(w) ==
  /\ At(w, "issue")
  /\ token' = "fresh"
  /\ worker' = [Orphaned EXCEPT ![w] = Idle]
  /\ stale' = stale \ {w}
  /\ cutOff' = cutOff \ {w}
  /\ UNCHANGED <<account, session, records>>

Resend(w) ==
  /\ ~account.verified
  /\ Load(w, "issue", NoAccount, NoSession)

-----------------------------------------------------------------------------
(* login, refresh and verify-email                                         *)

MayLogIn == account.status = "active"

\* The password was that of the copy, or not.
LoginRight(w) ==
  /\ MayLogIn
  /\ \/ ~account.verified /\ Load(w, "issue", NoAccount, NoSession)
     \/ account.verified /\ MayBeRisky /\ Load(w, "save", account, NoSession)
     \/ account.verified /\ account.mfa # "on" /\ Load(w, "login", account, NoSession)

LoginWrong(w) ==
  /\ MayLogIn
  /\ Load(w, "save", account, NoSession)

\* The second factor: a backup code is used up, the code of the device is not.
LoginCode(w) ==
  /\ MayLogIn /\ account.verified
  /\ account.mfa = "on"
  /\ \/ \E c \in account.codes : Load(w, "code", [account EXCEPT !.codes = @ \ {c}], NoSession)
     \/ Load(w, "login", account, NoSession)
     \/ Load(w, "save", account, NoSession)

\* Mutant of CommitCode: the login goes on with the copy as it was read.
CommitCodeAside(w) ==
  /\ At(w, "code")
  /\ Save(w, worker[w].row)
  /\ worker' = [worker EXCEPT ![w].at = "login", ![w].row.codes = account.codes]
  /\ UNCHANGED <<session, token, cutOff, issued, survivor, overlapped, uncut>>

CommitCode(w) ==
  /\ At(w, "code")
  /\ Save(w, worker[w].row)
  /\ GoTo(w, "login")
  /\ UNCHANGED <<session, token, cutOff, issued, survivor, overlapped, uncut>>

CommitLogin(w) ==
  /\ At(w, "login")
  /\ Save(w, worker[w].row)
  /\ worker' = [worker EXCEPT ![w].at = "insert", ![w].row = [NoAccount EXCEPT !.password = worker[w].row.password]]
  /\ UNCHANGED <<session, token, cutOff, issued, survivor, overlapped, uncut>>

\* A record that was verified before logs in again, also when it has expired.
LoadVerify(w) ==
  \/ token = "fresh" /\ Load(w, "verify", [account EXCEPT !.verified = TRUE], NoSession)
  \/ token = "used" /\ account.status = "active" /\ Load(w, "login", account, NoSession)

CommitVerify(w) ==
  /\ At(w, "verify") \/ At(w, "verify_old")
  /\ Save(w, worker[w].row)
  /\ GoTo(w, IF At(w, "verify") THEN "mark" ELSE "mark_old")
  /\ UNCHANGED <<session, token, cutOff, issued, survivor, overlapped, uncut>>

\* markVerified of the row that was found, then assertIsActive: an inactive account
\* is verified all the same.
MarkVerified(w) ==
  /\ At(w, "mark") \/ At(w, "mark_old")
  /\ token' = IF At(w, "mark") THEN "used" ELSE token
  /\ IF worker[w].row.status = "active"
     THEN GoTo(w, "login") /\ UNCHANGED <<stale, cutOff>>
     ELSE Finish(w)
  /\ UNCHANGED <<account, session, records>>

\* Mutant of Usable: a token that was revoked is refreshed.
UsableAlways(s) == session[s].state # "none"

\* assertIsUsable
Usable(s) == session[s].state = "live"

LoadRefresh(w, s) ==
  /\ Usable(s)
  /\ account.status = "active"
  /\ Load(w, "rotate", NoAccount, s)

\* Mutant of Revoked: nothing is revoked.
RevokedNone(S) == session

Revoked(S) == [s \in Sessions |-> IF s \in S /\ session[s].state = "live" THEN [session[s] EXCEPT !.state = "revoked"] ELSE session[s]]

\* revokeById does not look at the row it revokes.
Rotate(w) ==
  /\ At(w, "rotate")
  /\ session' = Revoked({worker[w].session})
  /\ GoTo(w, IF worker[w].session \in Live THEN "insert" ELSE "insert_again")
  /\ cutOff' = IF worker[w].session \in survivor THEN cutOff \cup {w} ELSE cutOff
  /\ UNCHANGED <<account, token, stale, records>>

\* A session that is refreshed goes back to the password of the first one.
InsertSession(w, s) ==
  LET from == worker[w].session
      password == IF from = NoSession THEN worker[w].row.password ELSE session[from].password
  IN
  /\ At(w, "insert") \/ At(w, "insert_again")
  /\ session[s] = NoRow
  /\ session' = [session EXCEPT ![s] = [state |-> "live", password |-> password, from |-> from]]
  /\ survivor' = IF w \in cutOff THEN survivor \cup {s} ELSE survivor
  /\ overlapped' = IF At(w, "insert_again") THEN overlapped \cup {s} ELSE overlapped
  /\ Finish(w)
  /\ UNCHANGED <<account, token, issued, lost, uncut>>

-----------------------------------------------------------------------------
(* logout and change-password                                              *)

Logout(s) ==
  /\ session[s].state = "live"
  /\ session' = Revoked({s})
  /\ UNCHANGED <<account, token, worker, stale, cutOff, records>>

RevokeAll ==
  /\ session' = Revoked(Sessions)
  /\ uncut' = FALSE

LogoutEverywhere ==
  /\ Live # {}
  /\ RevokeAll
  /\ cutOff' = {w \in Workers : worker[w] # Idle}
  /\ UNCHANGED <<account, token, worker, stale, issued, survivor, overlapped, lost>>

\* The current password was right; the new one is the next.
LoadPassword(w) ==
  /\ issued < MaxPassword
  /\ account.password # 0
  /\ worker[w] = Idle
  /\ issued' = issued + 1
  /\ worker' = [worker EXCEPT ![w] = [at |-> "password", row |-> [account EXCEPT !.password = issued + 1],
                                      session |-> NoSession]]
  /\ UNCHANGED <<account, session, token, stale, cutOff, survivor, overlapped, lost, uncut>>

CommitPassword(w) ==
  /\ At(w, "password")
  /\ Save(w, worker[w].row)
  /\ GoOn(w, "cut")
  /\ UNCHANGED <<session, token, cutOff, issued, survivor, overlapped, uncut>>

\* revokeAllByUserId, after the transaction.
CutSessions(w) ==
  /\ At(w, "cut")
  /\ RevokeAll
  /\ worker' = [worker EXCEPT ![w] = Idle]
  /\ stale' = stale \ {w}
  /\ cutOff' = {v \in Workers \ {w} : worker[v] # Idle}
  /\ UNCHANGED <<account, token, issued, survivor, overlapped, lost>>

-----------------------------------------------------------------------------
(* The second factor, the profile and the status                           *)

SetupMfa(w) == Load(w, "save", [account EXCEPT !.mfa = "pending", !.codes = {}], NoSession)

VerifyMfa(w) ==
  /\ account.mfa # "off"
  /\ Load(w, "enable", [account EXCEPT !.mfa = "on", !.codes = Codes], NoSession)

\* Mutant of Disabled: the backup codes stay.
DisabledKeepingCodes(row) == [row EXCEPT !.mfa = "off"]

Disabled(row) == [row EXCEPT !.mfa = "off", !.codes = {}]

DisableMfa(w) ==
  /\ account.mfa = "on"
  /\ Load(w, "save", Disabled(account), NoSession)

\* Phone and date of birth are not modelled, the copy is.
UpdateProfile(w) == Load(w, "save", account, NoSession)

\* No session is revoked.
SetStatus(w, status) ==
  /\ status # account.status
  /\ Load(w, "save", [account EXCEPT !.status = status], NoSession)

CommitSave(w) ==
  /\ At(w, "save") \/ At(w, "enable")
  /\ Save(w, worker[w].row)
  /\ worker' = [worker EXCEPT ![w] = Idle]
  /\ cutOff' = cutOff \ {w}
  /\ UNCHANGED <<session, token, issued, survivor, overlapped, uncut>>

-----------------------------------------------------------------------------
(* Time and failures                                                       *)

SessionExpires(s) ==
  /\ session[s].state = "live"
  /\ session' = [session EXCEPT ![s].state = "revoked"]
  /\ UNCHANGED <<account, token, worker, stale, cutOff, records>>

TokenExpires ==
  /\ token = "fresh"
  /\ token' = "expired"
  /\ UNCHANGED <<account, session, worker, stale, cutOff, records>>

\* The process dies, or the database refuses the statement.
Dies(w) ==
  /\ worker[w] # Idle
  /\ Finish(w)
  /\ uncut' = (uncut \/ At(w, "cut"))
  /\ UNCHANGED <<account, session, token, issued, survivor, overlapped, lost>>

Register(w) ==
  LoadRegister(w) \/ CommitRegister(w) \/ CommitOverwrite(w) \/ IssueToken(w) \/ Resend(w)

Login(w) ==
  \/ LoginRight(w) \/ LoginWrong(w) \/ LoginCode(w) \/ CommitCode(w) \/ CommitLogin(w)
  \/ LoadVerify(w) \/ CommitVerify(w) \/ MarkVerified(w)
  \/ \E s \in Sessions : LoadRefresh(w, s) \/ InsertSession(w, s)
  \/ Rotate(w)

Change(w) ==
  \/ LoadPassword(w) \/ CommitPassword(w) \/ CutSessions(w)
  \/ SetupMfa(w) \/ VerifyMfa(w) \/ DisableMfa(w) \/ UpdateProfile(w)
  \/ \E status \in {"active", "suspended"} : SetStatus(w, status)
  \/ CommitSave(w)

Next ==
  \/ \E w \in Workers : Register(w) \/ Login(w) \/ Change(w) \/ Dies(w)
  \/ \E s \in Sessions : Logout(s) \/ SessionExpires(s)
  \/ TokenExpires
  \/ LogoutEverywhere

Spec == Init /\ [][Next]_vars
-----------------------------------------------------------------------------
(* Properties.                                                             *)

Labels == {"idle", "register", "overwrite", "issue", "save", "enable", "code", "login", "verify",
           "verify_old", "mark", "mark_old", "rotate", "insert", "insert_again", "password", "cut"}

\* The tables have their types, an account nobody registered is empty, and there
\* are backup codes only for a second factor that is on.
TypeOK ==
  /\ account \in Account
  /\ account.password = 0 => account = NoAccount /\ Live = {}
  /\ account.mfa # "on" => account.codes = {}
  /\ session \in [Sessions -> [state : {"none", "live", "revoked"}, password : 0 .. MaxPassword,
                               from : Sessions \cup {NoSession}]]
  /\ token \in {"none", "fresh", "expired", "used"}
  /\ worker \in [Workers -> [at : Labels, row : Account, session : Sessions \cup {NoSession}]]
  /\ issued \in 0 .. MaxPassword
  /\ stale \subseteq Workers /\ cutOff \subseteq Workers
  /\ survivor \subseteq Sessions /\ overlapped \subseteq Sessions
  /\ lost \in BOOLEAN /\ uncut \in BOOLEAN
  /\ \A w \in Workers : worker[w].at \in {"rotate", "insert_again"} => worker[w].session \in Sessions

\* What RefreshTokenUseCase rotates for: a refresh token is exchanged for one
\* session, unless two requests had both found it usable.
TokenIsExchangedOnce ==
  \A s, t \in Sessions \ overlapped :
    s # t /\ session[s].from = session[t].from => session[s].from = NoSession

\* What ChangePasswordUseCase revokes for: no session goes on that goes back to
\* an earlier password, unless it was saved by a request that was at work when
\* the sessions were revoked, the revocation is still to come or was lost, or a
\* stale copy has put an earlier password back.
OldPasswordHasNoSession ==
  \/ lost \/ uncut
  \/ \E w \in Workers : At(w, "cut")
  \/ \A s \in Live \ survivor : session[s].password >= account.password

\* Nobody takes back what another request has written, except with a stale copy:
\* a password that was replaced, an address that was verified and a backup code
\* that was used stay so, until all codes are issued anew.
RevertsOnlyFromStaleCopy ==
  [][\/ account'.password < account.password
     \/ account.verified /\ ~account'.verified
     \/ account.mfa = "on" /\ account'.codes \ account.codes # {}
     => \E w \in Workers : worker[w] # worker'[w] /\ (w \in stale \/ At(w, "enable"))]_vars
=============================================================================
