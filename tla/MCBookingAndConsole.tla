------------------------ MODULE MCBookingAndConsole -------------------------
(* The bookings of MCBookingLifecycle, and what administrators and the crew  *)
(* work on in the web console: the login its tabs share, the roles of a      *)
(* user, the catalogue of stations and their upkeep.  The five share no      *)
(* state: a behaviour is one of a single one of them.                        *)
EXTENDS MCBookingLifecycle, Console, UserDirectory, StationCatalog, Upkeep

CONSTANTS m1, m2, v1, c2, i1, o1

VARIABLE part

MCPostsOf == c1 :> {m1} @@ c2 :> {m1, m2}

\* The two spots are alike, and only bookings look at whether a charger is available.
PagesInit ==
  /\ Init /\ ConsoleInit /\ DirectoryInit /\ CatalogInit /\ UpkeepInit
  /\ part \in {"booking", "console", "directory", "catalog", "upkeep"}
  /\ part # "booking" => available = [c \in Chargers |-> TRUE]
  /\ site[m1].spot = "north"

PagesNext ==
  /\ UNCHANGED part
  /\ \/ part = "booking" /\ Next /\ UNCHANGED <<console, directory, catalog, upkeep>>
     \/ part = "console" /\ ConsoleNext /\ UNCHANGED <<vars, directory, catalog, upkeep>>
     \/ part = "directory" /\ DirectoryNext /\ UNCHANGED <<vars, console, catalog, upkeep>>
     \/ part = "catalog" /\ CatalogNext /\ UNCHANGED <<vars, console, directory, upkeep>>
     \/ part = "upkeep" /\ UpkeepNext /\ UNCHANGED <<vars, console, directory, catalog>>

BookingAndConsole == PagesInit /\ [][PagesNext]_<<vars, console, directory, catalog, upkeep, part>>

\* The tabs, the rows behind the console's pages and the copies of them have their types.
ConsolePagesTypeOK ==
  CASE part = "console"   -> ConsoleTypeOK
    [] part = "directory" -> DirectoryTypeOK
    [] part = "catalog"   -> CatalogTypeOK
    [] part = "upkeep"    -> UpkeepTypeOK
    [] OTHER              -> TRUE

\* The browsers have the names of the workers, and a tab's requests those of the bookings, so
\* that MCSymmetry says that they are alike too.
MCPartView == <<MCView, console, directory, catalog, upkeep, part>>

\* Console: two requests under way, and one request sent again.  Roles: they change once
\* session-service has heard of the user.  Catalogue: announcements are followed while there
\* is one station, and nothing is set to `maintenance', which differs from `closed' in name
\* alone.  Upkeep: an incident or a maintenance, of which each update touches one.
MCUnderWay == {q \in Tabs \X Asks : ask[q[1]][q[2]].at # "idle"}
MCResent == {q \in Tabs \X Asks : ask[q[1]][q[2]].resends > 0}

MCBound ==
  /\ Cardinality(MCUnderWay) <= 2 /\ Cardinality(MCResent) <= 1
  /\ changes > 0 => welcome["mirror"] = "done"
  /\ told = <<>> \/ (site[m2] = NoSite /\ \A d \in MapPages : mapPage[d].at # "adding")
  /\ \A k \in DOMAIN told : told[k].status # "maintenance"
  /\ ticket[i1] = NoTicket \/ order[o1] = NoOrder
=============================================================================
