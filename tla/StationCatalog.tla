---------------------------- MODULE StationCatalog ----------------------------
(***************************************************************************)
(* The catalogue of stations, which administrators edit on the console's   *)
(* map page, and what the session service knows of it: is_active of its    *)
(* charger read model, set by StationStatusChangedConsumer, which also     *)
(* cancels the bookings to come at a station that is no longer active.     *)
(*                                                                         *)
(* A request of the page that the server handles in one transaction over a *)
(* row it overwrites whole is one step; where the handler reads before its *)
(* transaction what it writes or relies on, it is two.  Events are handled *)
(* in any order and any number at once.  A booking is followed only as far *)
(* as the consumer looks at it: BookingLifecycle has its own interleavings.*)
(***************************************************************************)
EXTENDS Integers, FiniteSets, Sequences

CONSTANTS
  Stations,
  Seeded,     \* stations there are from the start: only their chargers are in the read model
  Spots,      \* pairs of latitude and longitude
  MapPages,   \* map pages that administrators have open
  Visits,
  MaxEvents   \* bound: status events

ASSUME SeededAssumption == Seeded \subseteq Stations

VARIABLES
  site,      \* stations of ev-infrastructure-service
  mapPage,   \* each page: its selected station, as it was read, and its request under way
  told,      \* station.status_changed events, in the order of their transactions, and their handling
  noted,     \* processed_events of the session service
  known,     \* charger_read_models.is_active of each seeded station's chargers
  visit,     \* bookings
  torn       \* history: stations one of whose events was overtaken, or whose handler died

catalog == <<site, mapPage, told, noted, known, visit, torn>>

SiteStatuses == {"active", "closed", "maintenance", "inactive"}
Nowhere == "nowhere"
NoSite == [status |-> "none", spot |-> Nowhere]
SiteRow == [status : SiteStatuses, spot : Spots] \cup {NoSite}
NoStation == "no station"
FreePage == [at |-> "idle", of |-> NoStation, copy |-> NoSite, row |-> NoSite]
NoVisit == [at |-> "free", of |-> NoStation, placed |-> "timely"]

Existing == {s \in Stations : site[s] # NoSite}

CatalogInit ==
  /\ site \in {f \in [Stations -> SiteRow] :
                 \A s \in Stations : IF s \in Seeded THEN f[s].status = "active" ELSE f[s] = NoSite}
  /\ \A s, z \in Seeded : s # z => site[s].spot # site[z].spot
  /\ mapPage = [d \in MapPages |-> FreePage] /\ told = <<>> /\ noted = {}
  /\ known = [s \in Seeded |-> TRUE]
  /\ visit = [b \in Visits |-> NoVisit] /\ torn = {}

-----------------------------------------------------------------------------
(* The map page and the station use cases                                  *)

\* Station.changeStatus, and the outbox row of the same transaction.
TellStatus(s, status) ==
  /\ Len(told) < MaxEvents
  /\ told' = Append(told, [of |-> s, status |-> status, at |-> "sent", left |-> {}])

\* What the page shows of a station stays as it was read until it is selected again.
Select(d, s) ==
  /\ mapPage[d].at = "idle" /\ s \in Existing
  /\ mapPage' = [mapPage EXCEPT ![d].of = s, ![d].copy = site[s]]
  /\ UNCHANGED <<site, told, noted, known, visit, torn>>

\* CreateStationUseCase looks for a station at the same spot before its transaction.
CheckSpot(d, p) ==
  /\ mapPage[d].at = "idle" /\ \A s \in Existing : site[s].spot # p
  /\ mapPage' = [mapPage EXCEPT ![d].at = "adding", ![d].row = [status |-> "active", spot |-> p]]
  /\ UNCHANGED <<site, told, noted, known, visit, torn>>

\* Its transaction: the table has an index on the spot, but no unique one.  The page then
\* shows the station it has added.
InsertStation(d, s) ==
  /\ mapPage[d].at = "adding" /\ s \notin Existing
  /\ site' = [site EXCEPT ![s] = mapPage[d].row]
  /\ mapPage' = [mapPage EXCEPT ![d] = [FreePage EXCEPT !.of = s, !.copy = mapPage[d].row]]
  /\ UNCHANGED <<told, noted, known, visit, torn>>

\* handleEditStation sends every field of the form, which starts as the page's copy of the
\* station; UpdateStationUseCase overwrites the row and announces the status, changed or not.
\* Bound: an edit changes one of the two.
EditStation(d, row) ==
  /\ mapPage[d].at = "idle" /\ mapPage[d].of # NoStation
  /\ row \in SiteRow \ {NoSite}
  /\ row.status = mapPage[d].copy.status \/ row.spot = mapPage[d].copy.spot
  /\ site' = [site EXCEPT ![mapPage[d].of] = row]
  /\ TellStatus(mapPage[d].of, row.status)
  /\ mapPage' = [mapPage EXCEPT ![d].copy = row]
  /\ UNCHANGED <<noted, known, visit, torn>>

\* DeleteStationUseCase reads the row ...
LoadDelete(d) ==
  /\ mapPage[d].at = "idle" /\ mapPage[d].of # NoStation
  /\ mapPage' = [mapPage EXCEPT ![d].at = "deleting", ![d].row = site[mapPage[d].of]]
  /\ UNCHANGED <<site, told, noted, known, visit, torn>>

\* ... and writes it whole, as inactive.
CommitDelete(d) ==
  /\ mapPage[d].at = "deleting"
  /\ site' = [site EXCEPT ![mapPage[d].of] = [mapPage[d].row EXCEPT !.status = "inactive"]]
  /\ TellStatus(mapPage[d].of, "inactive")
  /\ mapPage' = [mapPage EXCEPT ![d] = FreePage]
  /\ UNCHANGED <<noted, known, visit, torn>>

-----------------------------------------------------------------------------
(* StationStatusChangedConsumer                                            *)

\* Every event has an eventId of its own: its place.
Take(i) ==
  /\ told[i].at = "sent"
  /\ told' = [told EXCEPT ![i].at = IF i \in noted THEN "done" ELSE "new"]
  /\ UNCHANGED <<site, mapPage, noted, known, visit, torn>>

\* The event is marked before anything is done.
Note(i) ==
  /\ told[i].at = "new"
  /\ noted' = noted \cup {i}
  /\ told' = [told EXCEPT ![i].at = "noted"]
  /\ UNCHANGED <<site, mapPage, known, visit, torn>>

\* Has a later event of the station been applied already?
Overtaken(i) ==
  \E j \in (i + 1) .. Len(told) :
    told[j].of = told[i].of /\ told[j].at \in {"applied", "cancelling", "done"}

\* The chargers of a station added since have no row that the update could match.
ApplyStatus(i) ==
  /\ told[i].at = "noted"
  /\ known' = [s \in Seeded |-> IF s = told[i].of THEN told[i].status = "active" ELSE known[s]]
  /\ told' = [told EXCEPT ![i].at = IF told[i].status = "active" THEN "done" ELSE "applied"]
  /\ torn' = IF Overtaken(i) THEN torn \cup {told[i].of} ELSE torn
  /\ UNCHANGED <<site, mapPage, noted, visit>>

\* Mutant of Upcoming: bookings that wait for their deposit are not looked for.
UpcomingConfirmed(s) == {b \in Visits : visit[b].of = s /\ visit[b].at = "confirmed"}

\* findUpcomingByChargers: neither cancelled nor begun.
Upcoming(s) == {b \in Visits : visit[b].of = s /\ visit[b].at \in {"pending_payment", "confirmed"}}

Search(i) ==
  /\ told[i].at = "applied"
  /\ told' = [told EXCEPT ![i].at = "cancelling", ![i].left = Upcoming(told[i].of)]
  /\ UNCHANGED <<site, mapPage, noted, known, visit, torn>>

\* SystemCancelBookingUseCase, in a transaction of its own for each booking, reads it again
\* and leaves it alone when it can be cancelled no more.
SystemCancel(i, b) ==
  /\ told[i].at = "cancelling" /\ b \in told[i].left
  /\ visit' = [visit EXCEPT ![b].at = IF @ \in {"pending_payment", "confirmed"} THEN "cancelled" ELSE @]
  /\ told' = [told EXCEPT ![i].left = @ \ {b}]
  /\ UNCHANGED <<site, mapPage, noted, known, torn>>

Finish(i) ==
  /\ told[i].at = "cancelling" /\ told[i].left = {}
  /\ told' = [told EXCEPT ![i].at = "done"]
  /\ UNCHANGED <<site, mapPage, noted, known, visit, torn>>

\* The process dies, or a statement fails: the message comes again, and finds its mark if
\* there was time to set it.  What fails among the cancellations is only logged.
Die(i) ==
  /\ \/ told[i].at \in {"new", "noted", "applied", "cancelling"} /\ told' = [told EXCEPT ![i].at = "sent", ![i].left = {}]
     \/ told[i].at \in {"applied", "cancelling"} /\ told' = [told EXCEPT ![i].at = "done", ![i].left = {}]
  /\ torn' = IF told[i].at = "new" THEN torn ELSE torn \cup {told[i].of}
  /\ UNCHANGED <<site, mapPage, noted, known, visit>>

-----------------------------------------------------------------------------
(* Customers                                                               *)

\* GetNearbyStationsUseCase offers every station that is not inactive.
Nearby == {s \in Existing : site[s].status # "inactive"}

\* CreateBookingUseCase: is the charger in the read model, and not offline?
AskBooking(b, s) ==
  /\ visit[b].at = "free" /\ s \in Nearby \cap Seeded /\ known[s]
  /\ visit' = [visit EXCEPT ![b] = [NoVisit EXCEPT !.at = "asked", !.of = s]]
  /\ UNCHANGED <<site, mapPage, told, noted, known, torn>>

\* Its transaction, later, after the price has been asked for, does not look again.
PlaceBooking(b) ==
  /\ visit[b].at = "asked"
  /\ visit' = [visit EXCEPT ![b].at = "pending_payment",
                            ![b].placed = IF known[visit[b].of] THEN "timely" ELSE "late"]
  /\ UNCHANGED <<site, mapPage, told, noted, known, torn>>

ConfirmBooking(b) ==
  /\ visit[b].at = "pending_payment"
  /\ visit' = [visit EXCEPT ![b].at = "confirmed"]
  /\ UNCHANGED <<site, mapPage, told, noted, known, torn>>

\* start_time comes.
BeginTime(b) ==
  /\ visit[b].at \in {"pending_payment", "confirmed"}
  /\ visit' = [visit EXCEPT ![b].at = "begun"]
  /\ UNCHANGED <<site, mapPage, told, noted, known, torn>>

CatalogNext ==
  \/ \E d \in MapPages :
       \/ \E s \in Stations : Select(d, s) \/ InsertStation(d, s)
       \/ \E p \in Spots : CheckSpot(d, p)
       \/ \E row \in SiteRow : EditStation(d, row)
       \/ LoadDelete(d) \/ CommitDelete(d)
  \/ \E i \in DOMAIN told :
       \/ Take(i) \/ Note(i) \/ ApplyStatus(i) \/ Search(i) \/ Finish(i) \/ Die(i)
       \/ \E b \in Visits : SystemCancel(i, b)
  \/ \E b \in Visits :
       \/ \E s \in Seeded : AskBooking(b, s)
       \/ PlaceBooking(b) \/ ConfirmBooking(b) \/ BeginTime(b)

CatalogSpec == CatalogInit /\ [][CatalogNext]_catalog

-----------------------------------------------------------------------------
StatusEvents ==
  [of : Stations, status : SiteStatuses, left : SUBSET Visits,
   at : {"sent", "new", "noted", "applied", "cancelling", "done"}]

VisitStates ==
  {v \in [at : {"free", "asked", "pending_payment", "confirmed", "cancelled", "begun"},
          of : Seeded \cup {NoStation}, placed : {"timely", "late"}] : v.at # "free" => v.of \in Seeded}

\* The rows, pages and events have their types, and a page with a station selected or with a row
\* to write has one that exists: station.orm-entities.ts, map/page.tsx.
CatalogTypeOK ==
  /\ site \in [Stations -> SiteRow] /\ known \in [Seeded -> BOOLEAN] /\ torn \subseteq Stations
  /\ Seeded \subseteq Existing
  /\ mapPage \in [MapPages -> [at : {"idle", "adding", "deleting"}, of : Stations \cup {NoStation},
                             copy : SiteRow, row : SiteRow]]
  /\ \A d \in MapPages :
       /\ mapPage[d].of # NoStation => mapPage[d].of \in Existing
       /\ mapPage[d].at # "idle" => mapPage[d].row # NoSite
       /\ mapPage[d].at = "deleting" => mapPage[d].of # NoStation
  /\ told \in Seq(StatusEvents) /\ noted \subseteq DOMAIN told
  /\ visit \in [Visits -> VisitStates]

Settled(s) == s \notin torn /\ \A i \in DOMAIN told : told[i].of = s => told[i].at = "done"

\* Once every event of a station is handled, none of them out of order or by a handler that
\* died, the session service takes bookings there exactly if the station is active, whatever
\* administrators wrote over each other; and where it takes none, only bookings are left whose
\* availability check was made before and whose transaction came after:
\* station-status-sync.consumer.ts, UpdateStationUseCase.
ModelFollowsStation ==
  \A s \in Seeded : Settled(s) =>
    /\ known[s] <=> site[s].status = "active"
    /\ known[s] \/ \A b \in Upcoming(s) : visit[b].placed = "late"
==============================================================================
