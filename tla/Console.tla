------------------------------- MODULE Console -------------------------------
(***************************************************************************)
(* The web console's login: browser tabs that share localStorage, and the  *)
(* axios interceptors of services/api-client.ts, which answer a 401 by     *)
(* exchanging the refresh token once for all requests of the tab that wait *)
(* for it.  The server's side of the exchange is RefreshTokenUseCase, of   *)
(* which LoginSessions has the detail.                                     *)
(*                                                                         *)
(* A login is the pair of an access token and a refresh token issued       *)
(* together; logins are numbered as they are issued.  What is requested is *)
(* left out, and so is the cookie, a copy of the access token.             *)
(***************************************************************************)
EXTENDS Integers, FiniteSets

CONSTANTS
  Tabs,
  Asks,       \* requests a tab can have under way
  MaxLogins,  \* bound: pairs issued
  MaxResends  \* MAX_RETRIES

ASSUME ConsoleAssumption == MaxLogins \in Nat /\ MaxResends \in Nat

VARIABLES
  pairs,      \* logins issued so far
  expired,    \* those whose access token has expired
  spent,      \* those whose refresh token is revoked
  stored,     \* localStorage: the login whose tokens are kept, or NoLogin
  page,       \* page[t]: what the tab shows
  refreshing, \* isRefreshing of each tab
  ask,        \* ask[t][a]: a request of the tab
  exchange    \* exchange[t]: its POST /auth/refresh

console == <<pairs, expired, spent, stored, page, refreshing, ask, exchange>>

NoLogin == 0
Logins == 1 .. MaxLogins
Steps == {"idle", "sent", "refused", "parked"}
FreeAsk == [at |-> "idle", with |-> NoLogin, retried |-> FALSE, resends |-> 0]
FreeExchange == [at |-> "idle", with |-> NoLogin]

ConsoleInit ==
  /\ pairs = 0 /\ expired = {} /\ spent = {} /\ stored = NoLogin
  /\ page = [t \in Tabs |-> "login"] /\ refreshing = [t \in Tabs |-> FALSE]
  /\ ask = [t \in Tabs |-> [a \in Asks |-> FreeAsk]] /\ exchange = [t \in Tabs |-> FreeExchange]

-----------------------------------------------------------------------------
(* The server and time                                                     *)

Issue == pairs < MaxLogins /\ pairs' = pairs + 1

Expire(n) ==
  /\ n \in (1 .. pairs) \ expired
  /\ expired' = expired \cup {n}
  /\ UNCHANGED <<pairs, spent, stored, page, refreshing, ask, exchange>>

\* Two exchanges may both find the token usable, and both rotate it; of a token that is
\* revoked nothing comes but a refusal.
ExchangeServed(t) ==
  /\ \/ /\ exchange[t].at = "sent" /\ exchange[t].with \notin spent
        /\ exchange' = [exchange EXCEPT ![t].at = "found"] /\ UNCHANGED <<pairs, spent>>
     \/ /\ exchange[t].at = "found" /\ Issue
        /\ spent' = spent \cup {exchange[t].with}
        /\ exchange' = [exchange EXCEPT ![t] = [at |-> "done", with |-> pairs + 1]]
  /\ UNCHANGED <<expired, stored, page, refreshing, ask>>

-----------------------------------------------------------------------------
(* A tab                                                                   *)

\* The tab goes to the login page by a navigation: what it had under way is gone.
GoToLogin(t) ==
  /\ page' = [page EXCEPT ![t] = "login"]
  /\ ask' = [ask EXCEPT ![t] = [a \in Asks |-> FreeAsk]]
  /\ exchange' = [exchange EXCEPT ![t] = FreeExchange]
  /\ refreshing' = [refreshing EXCEPT ![t] = FALSE]

\* useAuthStore.login.
SignIn(t) ==
  /\ page[t] = "login" /\ Issue
  /\ stored' = pairs + 1 /\ page' = [page EXCEPT ![t] = "dashboard"]
  /\ UNCHANGED <<expired, spent, refreshing, ask, exchange>>

\* useAuthStore.logout tells the server nothing.
SignOut(t) ==
  /\ page[t] = "dashboard"
  /\ stored' = NoLogin /\ GoToLogin(t)
  /\ UNCHANGED <<pairs, expired, spent>>

\* A tab is opened or reloaded: fetchMe believes a token that has not expired, and else asks
\* the server, which is a request like any other.
Open(t) ==
  /\ stored # NoLogin
  /\ page' = [page EXCEPT ![t] = "dashboard"]
  /\ \E a \in Asks :
       ask' = [ask EXCEPT ![t] = [b \in Asks |->
                 IF b = a /\ stored \in expired THEN [FreeAsk EXCEPT !.at = "sent", !.with = stored] ELSE FreeAsk]]
  /\ exchange' = [exchange EXCEPT ![t] = FreeExchange] /\ refreshing' = [refreshing EXCEPT ![t] = FALSE]
  /\ UNCHANGED <<pairs, expired, spent, stored>>

\* The request interceptor sends the token that is stored now; without one, a request that is
\* sent again keeps the token it had.
Bearer(was) == IF stored # NoLogin THEN stored ELSE was

Again(q) == [q EXCEPT !.at = "sent", !.with = Bearer(q.with)]

Send(t, a) ==
  /\ page[t] = "dashboard" /\ ask[t][a].at = "idle"
  /\ ask' = [ask EXCEPT ![t][a] = Again(FreeAsk)]
  /\ UNCHANGED <<pairs, expired, spent, stored, page, refreshing, exchange>>

\* shouldRetry: a request that got no answer, or a 429 or 5xx, is sent again three times.
Resent(q) == IF q.resends < MaxResends THEN [Again(q) EXCEPT !.resends = q.resends + 1] ELSE FreeAsk

Lost(t, a) ==
  /\ ask[t][a].at = "sent"
  /\ ask' = [ask EXCEPT ![t][a] = Resent(@)]
  /\ UNCHANGED <<pairs, expired, spent, stored, page, refreshing, exchange>>

\* The guard of the other services looks at the access token alone.
Served(t, a) ==
  /\ ask[t][a].at = "sent"
  /\ ask' = [ask EXCEPT ![t][a] =
       IF @.with = NoLogin \/ @.with \in expired THEN [@ EXCEPT !.at = "refused"] ELSE FreeAsk]
  /\ UNCHANGED <<pairs, expired, spent, stored, page, refreshing, exchange>>

-----------------------------------------------------------------------------
(* The response interceptor on a 401                                       *)

\* A request that has been sent again already is given up.
Drop(t, a) ==
  /\ ask[t][a].at = "refused" /\ ask[t][a].retried
  /\ ask' = [ask EXCEPT ![t][a] = FreeAsk]
  /\ UNCHANGED <<pairs, expired, spent, stored, page, refreshing, exchange>>

\* Another request of the tab is refreshing: this one waits in failedQueue.
Park(t, a) ==
  /\ ask[t][a].at = "refused" /\ ~ask[t][a].retried /\ refreshing[t]
  /\ ask' = [ask EXCEPT ![t][a].at = "parked"]
  /\ UNCHANGED <<pairs, expired, spent, stored, page, refreshing, exchange>>

\* The first one refreshes, and waits for it like the others.
Refresh(t, a) ==
  /\ ask[t][a].at = "refused" /\ ~ask[t][a].retried /\ ~refreshing[t] /\ stored # NoLogin
  /\ refreshing' = [refreshing EXCEPT ![t] = TRUE]
  /\ ask' = [ask EXCEPT ![t][a] = [@ EXCEPT !.at = "parked", !.retried = TRUE]]
  /\ exchange' = [exchange EXCEPT ![t] = [at |-> "sent", with |-> stored]]
  /\ UNCHANGED <<pairs, expired, spent, stored, page>>

\* Nothing to refresh with.
NothingToRefresh(t, a) ==
  /\ ask[t][a].at = "refused" /\ ~ask[t][a].retried /\ ~refreshing[t] /\ stored = NoLogin
  /\ GoToLogin(t)
  /\ UNCHANGED <<pairs, expired, spent, stored>>

\* Mutant of Refreshed: only the request that refreshed is sent again.
RefreshedAlone(t) ==
  /\ exchange[t].at = "done"
  /\ stored' = exchange[t].with /\ exchange' = [exchange EXCEPT ![t] = FreeExchange]
  /\ refreshing' = [refreshing EXCEPT ![t] = FALSE]
  /\ ask' = [ask EXCEPT ![t] = [a \in Asks |->
       IF @[a].at = "parked" /\ @[a].retried THEN [@[a] EXCEPT !.at = "sent", !.with = exchange[t].with] ELSE @[a]]]
  /\ UNCHANGED <<pairs, expired, spent, page>>

\* The tokens are stored, the flag is cleared, and every request that waits is sent again.
Refreshed(t) ==
  /\ exchange[t].at = "done"
  /\ stored' = exchange[t].with /\ exchange' = [exchange EXCEPT ![t] = FreeExchange]
  /\ refreshing' = [refreshing EXCEPT ![t] = FALSE]
  /\ ask' = [ask EXCEPT ![t] = [a \in Asks |->
       IF @[a].at = "parked" THEN [@[a] EXCEPT !.at = "sent", !.with = exchange[t].with] ELSE @[a]]]
  /\ UNCHANGED <<pairs, expired, spent, page>>

\* The exchange is refused, its token expired, or its answer lost: it is not asked for again.  The tokens go,
\* whoever has stored them meanwhile.
RefreshFailed(t) ==
  /\ exchange[t].at # "idle"
  /\ stored' = NoLogin /\ GoToLogin(t)
  /\ UNCHANGED <<pairs, expired, spent>>

ConsoleNext ==
  \/ \E n \in Logins : Expire(n)
  \/ \E t \in Tabs :
       \/ ExchangeServed(t) \/ SignIn(t) \/ SignOut(t) \/ Open(t) \/ Refreshed(t) \/ RefreshFailed(t)
       \/ \E a \in Asks :
            \/ Send(t, a) \/ Lost(t, a) \/ Served(t, a)
            \/ Drop(t, a) \/ Park(t, a) \/ Refresh(t, a) \/ NothingToRefresh(t, a)

ConsoleSpec == ConsoleInit /\ [][ConsoleNext]_console

-----------------------------------------------------------------------------
\* The tabs' state has its types: api-client.ts, auth.store.ts.
ConsoleTypeOK ==
  /\ pairs \in 0 .. MaxLogins /\ expired \cup spent \subseteq 1 .. pairs /\ stored \in 0 .. pairs
  /\ page \in [Tabs -> {"login", "dashboard"}] /\ refreshing \in [Tabs -> BOOLEAN]
  /\ ask \in [Tabs -> [Asks -> [at : Steps, with : 0 .. pairs, retried : BOOLEAN, resends : 0 .. MaxResends]]]
  /\ exchange \in [Tabs -> [at : {"idle", "sent", "found", "done"}, with : 0 .. pairs]]

\* A request that waits for new tokens waits for an exchange that is under way in its own tab,
\* so it is always sent again or the tab left; the flag says exactly when one is: neither a
\* refusal that arrives late, nor another tab's exchange, logout or login strands it.
ParkedIsAnswered ==
  \A t \in Tabs :
    /\ refreshing[t] <=> exchange[t].at # "idle"
    /\ (\E a \in Asks : ask[t][a].at = "parked") => refreshing[t]
==============================================================================
