------------------------------ MODULE Vehicles ------------------------------
(***************************************************************************)
(* The vehicles of one owner in iam-service, as the use cases of           *)
(* user.use-cases.ts keep them.  A use case reads the vehicle, changes the *)
(* aggregate and saves all of it; adding the first vehicle and choosing    *)
(* the primary one take two statements, the first of which takes the mark  *)
(* from every vehicle.  Nothing is locked, no transaction spans the two    *)
(* and nobody compares the version that every change counts up.            *)
(*                                                                         *)
(* A vehicle is its plate.  Model, colour, events and audit log are left   *)
(* out; a change of the colour still saves all of the aggregate.           *)
(***************************************************************************)
EXTENDS Integers, FiniteSets

CONSTANTS
  Plates,       \* vehicles the owner may add
  Macs,         \* addresses and numbers autocharge knows vehicles by
  NoMac,
  VWorkers,     \* requests at work at once
  NoPlate,
  MaxVehicles   \* MAX_VEHICLES_PER_USER

ASSUME GarageAssumption == MaxVehicles \in Nat

VARIABLES
  vehicle,  \* the rows
  request,  \* what every request is about to write
  behind,   \* history: requests that another's save has overtaken since they read
  exposed,  \* history: requests since whose last look a vehicle became the primary one
  raced     \* history: an exposed or overtaken request has saved

garage == <<vehicle, request, behind, exposed, raced>>

NoVehicle == [status |-> "none", primary |-> FALSE, mac |-> NoMac]
AtRest == [at |-> "idle", plate |-> NoPlate, row |-> NoVehicle]

GarageInit ==
  /\ vehicle = [p \in Plates |-> NoVehicle]
  /\ request = [w \in VWorkers |-> AtRest]
  /\ behind = {} /\ exposed = {}
  /\ raced = FALSE

ActiveVehicles == {p \in Plates : vehicle[p].status = "active"}

Primaries == {p \in ActiveVehicles : vehicle[p].primary}

\* Request w has read vehicle p and holds the row it will write.
Hold(w, label, p, row) ==
  /\ request[w] = AtRest
  /\ request' = [request EXCEPT ![w] = [at |-> label, plate |-> p, row |-> row]]
  /\ UNCHANGED <<vehicle, behind, exposed, raced>>

Done(w) == request' = [request EXCEPT ![w] = AtRest]

Busy(w) == {v \in VWorkers \ {w} : request[v] # AtRest}

\* Mutant of PlateIsFree: the plate of a vehicle that was deleted may be added again.
PlateIsUnused(p) == vehicle[p].status # "active"

\* The plate of a vehicle that was deleted stays taken.
PlateIsFree(p) == vehicle[p] = NoVehicle

MayAdd(p) == Cardinality(ActiveVehicles) < MaxVehicles /\ PlateIsFree(p)

\* The first vehicle becomes the primary one.
LoadAdd(w, p) ==
  LET isFirst == ActiveVehicles = {} IN
  /\ MayAdd(p)
  /\ Hold(w, IF isFirst THEN "unset_first" ELSE "insert", p, [NoVehicle EXCEPT !.status = "active", !.primary = isFirst])

\* updateColor
LoadColor(w, p) ==
  /\ vehicle[p] # NoVehicle
  /\ Hold(w, "save", p, vehicle[p])

\* softDelete
Deleted(row) == [row EXCEPT !.status = "deleted", !.primary = FALSE]

\* A vehicle that was deleted can be deleted again.
LoadDelete(w, p) ==
  /\ vehicle[p] # NoVehicle
  /\ Hold(w, "save", p, Deleted(vehicle[p]))

LoadAutocharge(w, p) ==
  /\ vehicle[p].status = "active"
  /\ \E mac \in Macs \cup {NoMac} : Hold(w, "save", p, [vehicle[p] EXCEPT !.mac = mac])

LoadPrimary(w, p) ==
  /\ vehicle[p].status = "active"
  /\ Hold(w, "unset", p, [vehicle[p] EXCEPT !.primary = TRUE])

\* Mutant of Unmarked: the former primary vehicle keeps its mark.
UnmarkedNone == vehicle

Unmarked == [p \in Plates |-> [vehicle[p] EXCEPT !.primary = FALSE]]

\* unsetPrimaryForUser
UnsetPrimary(w) ==
  /\ request[w].at \in {"unset", "unset_first"}
  /\ vehicle' = Unmarked
  /\ request' = [request EXCEPT ![w].at = IF @ = "unset" THEN "save" ELSE "insert"]
  /\ exposed' = exposed \ {w}
  /\ UNCHANGED <<behind, raced>>

\* The unique indexes on the plate and on what autocharge looks for, which hold
\* for deleted vehicles too.
Refused(p, row) ==
  \E q \in Plates \ {p} : row.mac # NoMac /\ vehicle[q].mac = row.mac

SaveVehicle(w) ==
  LET p == request[w].plate
      row == request[w].row
      isNew == request[w].at = "insert"
  IN
  /\ request[w].at \in {"save", "insert"}
  /\ isNew => PlateIsFree(p)
  /\ ~Refused(p, row)
  /\ vehicle' = [vehicle EXCEPT ![p] = row]
  /\ raced' = (raced \/ (isNew /\ w \in behind) \/ (row.primary /\ w \in exposed)
                     \/ (vehicle[p].status = "deleted" /\ row.status = "active"))
  /\ behind' = (behind \ {w}) \cup Busy(w)
  /\ exposed' = IF row.primary /\ row.status = "active" THEN (exposed \ {w}) \cup Busy(w) ELSE exposed \ {w}
  /\ Done(w)

\* The process dies, the plate was added meanwhile, or an index refuses the row.
GiveUp(w) ==
  /\ request[w] # AtRest
  /\ Done(w)
  /\ behind' = behind \ {w}
  /\ exposed' = exposed \ {w}
  /\ UNCHANGED <<vehicle, raced>>

GarageNext ==
  \E w \in VWorkers :
    \/ \E p \in Plates : LoadAdd(w, p) \/ LoadColor(w, p) \/ LoadDelete(w, p) \/ LoadAutocharge(w, p) \/ LoadPrimary(w, p)
    \/ UnsetPrimary(w) \/ SaveVehicle(w) \/ GiveUp(w)

-----------------------------------------------------------------------------
(* Properties.                                                             *)

\* Rows and requests have their types; autocharge knows no two vehicles by the same
\* address, and a vehicle that was deleted is not the primary one.
GarageTypeOK ==
  /\ vehicle \in [Plates -> [status : {"none", "active", "deleted"}, primary : BOOLEAN, mac : Macs \cup {NoMac}]]
  /\ request \in [VWorkers -> [at : {"idle", "unset", "unset_first", "save", "insert"}, plate : Plates \cup {NoPlate},
                               row : [status : {"none", "active", "deleted"}, primary : BOOLEAN, mac : Macs \cup {NoMac}]]]
  /\ behind \subseteq VWorkers /\ exposed \subseteq VWorkers /\ raced \in BOOLEAN
  /\ \A p, q \in Plates : p # q /\ vehicle[p].mac = vehicle[q].mac => vehicle[p].mac = NoMac
  /\ \A p \in Plates : vehicle[p].status = "deleted" => ~vehicle[p].primary

\* What AddVehicle and SetPrimaryVehicle keep, each looking first: the owner has
\* at most one primary vehicle and no more vehicles than allowed, unless a request
\* saved what it had decided before another request saved.
GarageInOrderUnlessRaced ==
  ~raced => Cardinality(Primaries) <= 1 /\ Cardinality(ActiveVehicles) <= MaxVehicles

\* A vehicle that was deleted comes back only when a request that had read it
\* before saves its copy.
DeletedStaysUnlessBehind ==
  [][\A p \in Plates : vehicle[p].status = "deleted" /\ vehicle'[p].status # "deleted"
       => \E w \in behind : request[w].plate = p /\ request'[w] = AtRest]_garage
=============================================================================
