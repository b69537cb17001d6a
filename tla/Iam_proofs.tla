----------------------------- MODULE Iam_proofs -----------------------------
(***************************************************************************)
(* What MCIam checks on an instance, for every value of the constants: the *)
(* account with its sessions, the vehicles of an owner and the roster.     *)
(***************************************************************************)
EXTENDS MCIam, TLAPS, FiniteSetTheorems

-----------------------------------------------------------------------------
(* Vehicles.                                                               *)

Rows == [status : {"none", "active", "deleted"}, primary : BOOLEAN, mac : Macs \cup {NoMac}]

\* What a request holds, once it has read: a row that is not the primary one without being
\* active; of a vehicle that was deleted, unless overtaken, a row that is deleted.
RequestShape(w) ==
  LET r == request[w] IN
  r.at # "idle" =>
    /\ r.plate \in Plates
    /\ r.row.status # "none"
    /\ r.row.primary => r.row.status = "active"
    /\ r.at \in {"unset", "save"} =>
         /\ vehicle[r.plate].status # "none"
         /\ w \notin behind /\ vehicle[r.plate].status = "deleted" => r.row.status = "deleted"

\* What it looked for and is still so, unless it was overtaken: there is room for a new vehicle,
\* and no other vehicle is the primary one.
RequestTimely(w) ==
  LET r == request[w] IN
  /\ r.at \in {"unset_first", "insert"} /\ w \notin behind => Cardinality(ActiveVehicles) < MaxVehicles
  /\ r.at \in {"save", "insert"} /\ r.row.primary /\ w \notin exposed => Primaries \subseteq {r.plate}

GarageBase ==
  /\ GarageTypeOK
  /\ IsFiniteSet(ActiveVehicles)
  /\ \A p \in Plates : vehicle[p].primary => vehicle[p].status = "active"
  /\ \A p \in Plates : vehicle[p].status = "none" => vehicle[p] = NoVehicle
  /\ \A w \in VWorkers : RequestShape(w)

GarageKept ==
  /\ Cardinality(ActiveVehicles) <= MaxVehicles
  /\ \A p, q \in Primaries : p = q
  /\ \A w \in VWorkers : RequestTimely(w)

\* The inductive invariant of the garage.
GarageInv == GarageBase /\ (~raced => GarageKept)

\* A request that reads, and holds a row of the vehicle it may write.
Reads(w) ==
  \E label \in {"unset", "unset_first", "save", "insert"}, p \in Plates, row \in Rows :
    /\ Hold(w, label, p, row)
    /\ row.status # "none" /\ (row.primary => row.status = "active")
    /\ label \in {"unset", "save"} =>
         vehicle[p].status # "none" /\ (vehicle[p].status = "deleted" => row.status = "deleted")
    /\ label \in {"unset_first", "insert"} => Cardinality(ActiveVehicles) < MaxVehicles
    /\ label = "insert" => ~row.primary
    /\ label = "save" /\ row.primary => vehicle[p].primary

\* Every handler of the vehicles reads so.
LEMMA LoadsRead ==
  ASSUME GarageBase, NEW w \in VWorkers, NEW p \in Plates,
         LoadAdd(w, p) \/ LoadColor(w, p) \/ LoadDelete(w, p) \/ LoadAutocharge(w, p) \/ LoadPrimary(w, p)
  PROVE  Reads(w)
<1>1. vehicle[p] \in Rows
  BY DEF GarageBase, GarageTypeOK, Rows
<1>2. /\ vehicle[p].primary => vehicle[p].status = "active"
      /\ vehicle[p].status = "none" => vehicle[p] = NoVehicle
  BY DEF GarageBase
<1>3. CASE LoadAdd(w, p)
  <2> DEFINE isFirst == ActiveVehicles = {}
             row == [NoVehicle EXCEPT !.status = "active", !.primary = isFirst]
             label == IF isFirst THEN "unset_first" ELSE "insert"
  <2>1. Hold(w, label, p, row) /\ Cardinality(ActiveVehicles) < MaxVehicles
    BY <1>3 DEF LoadAdd, MayAdd
  <2>2. isFirst \in BOOLEAN
    BY Zenon
  <2> HIDE DEF isFirst
  <2>3. row \in Rows /\ row.status = "active" /\ row.primary = isFirst
    BY <2>2 DEF Rows, NoVehicle
  <2>4. label = "insert" => ~isFirst
    BY DEF label
  <2>5. label \in {"unset_first", "insert"}
    BY DEF label
  <2> HIDE DEF row, label
  <2> QED
    BY <2>1, <2>2, <2>3, <2>4, <2>5 DEF Reads
<1>4. CASE LoadColor(w, p)
  <2>1. Hold(w, "save", p, vehicle[p]) /\ vehicle[p] # NoVehicle
    BY <1>4 DEF LoadColor
  <2> QED
    BY <1>1, <1>2, <2>1 DEF Reads
<1>5. CASE LoadDelete(w, p)
  <2> DEFINE row == Deleted(vehicle[p])
  <2>1. Hold(w, "save", p, row) /\ vehicle[p] # NoVehicle
    BY <1>5 DEF LoadDelete
  <2>2. row \in Rows /\ row.status = "deleted" /\ ~row.primary
    BY <1>1 DEF Rows, Deleted
  <2> HIDE DEF row
  <2> QED
    BY <1>2, <2>1, <2>2 DEF Reads
<1>6. CASE LoadAutocharge(w, p)
  <2>1. PICK mac \in Macs \cup {NoMac} : Hold(w, "save", p, [vehicle[p] EXCEPT !.mac = mac])
    BY <1>6 DEF LoadAutocharge
  <2> DEFINE row == [vehicle[p] EXCEPT !.mac = mac]
  <2>2. Hold(w, "save", p, row) /\ vehicle[p].status = "active"
    BY <1>6, <2>1 DEF LoadAutocharge
  <2>3. row \in Rows /\ row.status = vehicle[p].status /\ row.primary = vehicle[p].primary
    BY <1>1 DEF Rows
  <2> HIDE DEF row
  <2> QED
    BY <2>2, <2>3 DEF Reads
<1>7. CASE LoadPrimary(w, p)
  <2> DEFINE row == [vehicle[p] EXCEPT !.primary = TRUE]
  <2>1. Hold(w, "unset", p, row) /\ vehicle[p].status = "active"
    BY <1>7 DEF LoadPrimary
  <2>2. row \in Rows /\ row.status = vehicle[p].status
    BY <1>1 DEF Rows
  <2> HIDE DEF row
  <2> QED
    BY <2>1, <2>2 DEF Reads
<1> QED
  BY <1>3, <1>4, <1>5, <1>6, <1>7

LEMMA GarageBaseStep ==
  ASSUME GarageBase, [GarageNext]_garage
  PROVE  GarageBase'
<1> USE DEF GarageBase
<1>1. CASE UNCHANGED garage
  BY <1>1 DEF garage, GarageTypeOK, ActiveVehicles, RequestShape
<1>2. ASSUME NEW w \in VWorkers, Reads(w)
      PROVE  GarageBase'
  <2>1. PICK label \in {"unset", "unset_first", "save", "insert"}, p \in Plates, row \in Rows :
          /\ Hold(w, label, p, row)
          /\ row.status # "none" /\ (row.primary => row.status = "active")
          /\ label \in {"unset", "save"} =>
               vehicle[p].status # "none" /\ (vehicle[p].status = "deleted" => row.status = "deleted")
    BY <1>2 DEF Reads
  <2>2. UNCHANGED <<vehicle, behind, exposed, raced>>
    BY <2>1 DEF Hold
  <2>3. /\ request' \in [VWorkers -> [at : {"idle", "unset", "unset_first", "save", "insert"},
                                      plate : Plates \cup {NoPlate}, row : Rows]]
        /\ request'[w] = [at |-> label, plate |-> p, row |-> row]
        /\ \A v \in VWorkers \ {w} : request'[v] = request[v]
    BY <2>1 DEF Hold, GarageTypeOK, Rows
  <2>4. GarageTypeOK'
    BY <2>2, <2>3 DEF GarageTypeOK, Rows
  <2>5. \A v \in VWorkers : RequestShape(v)'
    BY <2>1, <2>2, <2>3 DEF RequestShape
  <2> QED
    BY <2>2, <2>4, <2>5 DEF ActiveVehicles
<1>3. ASSUME NEW w \in VWorkers, UnsetPrimary(w)
      PROVE  GarageBase'
  <2>1. /\ vehicle' \in [Plates -> Rows]
        /\ \A p \in Plates : vehicle'[p].status = vehicle[p].status /\ ~vehicle'[p].primary /\ vehicle'[p].mac = vehicle[p].mac
    <3> DEFINE r(p) == [vehicle[p] EXCEPT !.primary = FALSE]
    <3>1. vehicle' = [p \in Plates |-> r(p)]
      BY <1>3 DEF UnsetPrimary, Unmarked
    <3>2. \A p \in Plates :
             r(p) \in Rows /\ r(p).status = vehicle[p].status /\ ~r(p).primary /\ r(p).mac = vehicle[p].mac
      <4>1. vehicle \in [Plates -> Rows]
        BY DEF GarageTypeOK, Rows
      <4>2. \A row \in Rows : LET cut == [row EXCEPT !.primary = FALSE] IN
               cut \in Rows /\ cut.status = row.status /\ ~cut.primary /\ cut.mac = row.mac
        BY DEF Rows
      <4>3. \A p \in Plates : vehicle[p] \in Rows
        BY <4>1
      <4> QED
        BY <4>2, <4>3
    <3> HIDE DEF r
    <3> QED
      BY <3>1, <3>2
  <2>2. /\ request' \in [VWorkers -> [at : {"idle", "unset", "unset_first", "save", "insert"},
                                      plate : Plates \cup {NoPlate}, row : Rows]]
        /\ request'[w].plate = request[w].plate /\ request'[w].row = request[w].row
        /\ \/ request[w].at = "unset" /\ request'[w].at = "save"
           \/ request[w].at = "unset_first" /\ request'[w].at = "insert"
        /\ \A v \in VWorkers \ {w} : request'[v] = request[v]
    <3> DEFINE label == IF request[w].at = "unset" THEN "save" ELSE "insert"
    <3>1. request' = [request EXCEPT ![w] = [request[w] EXCEPT !.at = label]] /\ request[w].at \in {"unset", "unset_first"}
      BY <1>3 DEF UnsetPrimary
    <3>2. \/ request[w].at = "unset" /\ label = "save"
          \/ request[w].at = "unset_first" /\ label = "insert"
      BY <3>1
    <3> HIDE DEF label
    <3>3. request \in [VWorkers -> [at : {"idle", "unset", "unset_first", "save", "insert"},
                                    plate : Plates \cup {NoPlate}, row : Rows]]
      BY DEF GarageTypeOK, Rows
    <3> QED
      BY <3>1, <3>2, <3>3
  <2>3. behind' = behind /\ exposed' \subseteq VWorkers /\ raced' = raced
    BY <1>3 DEF UnsetPrimary, GarageTypeOK
  <2>4. GarageTypeOK'
    BY <2>1, <2>2, <2>3 DEF GarageTypeOK, Rows
  <2>5. \A v \in VWorkers : RequestShape(v)'
    BY <2>1, <2>2, <2>3 DEF RequestShape, GarageTypeOK
  <2>6. ActiveVehicles' = ActiveVehicles
    BY <2>1 DEF ActiveVehicles
  <2>7. \A p \in Plates : vehicle[p].status = "none" => vehicle'[p] = NoVehicle
    BY <1>3 DEF UnsetPrimary, Unmarked, GarageTypeOK, NoVehicle
  <2> QED
    BY <2>1, <2>4, <2>5, <2>6, <2>7
<1>4. ASSUME NEW w \in VWorkers, SaveVehicle(w)
      PROVE  GarageBase'
  <2> DEFINE p == request[w].plate
             row == request[w].row
  <2>1. request[w] \in [at : {"save", "insert"}, plate : Plates, row : Rows]
        /\ row.status # "none" /\ (row.primary => row.status = "active")
    BY <1>4 DEF SaveVehicle, RequestShape, GarageTypeOK, Rows
  <2>2. vehicle' \in [Plates -> Rows] /\ vehicle'[p] = row /\ \A q \in Plates \ {p} : vehicle'[q] = vehicle[q]
    BY <1>4, <2>1 DEF SaveVehicle, GarageTypeOK, Rows
  <2>3. /\ request' \in [VWorkers -> [at : {"idle", "unset", "unset_first", "save", "insert"},
                                      plate : Plates \cup {NoPlate}, row : Rows]]
        /\ request'[w].at = "idle"
        /\ \A v \in VWorkers \ {w} : request'[v] = request[v]
    BY <1>4 DEF SaveVehicle, Done, AtRest, NoVehicle, GarageTypeOK, Rows
  <2>4. behind' = (behind \ {w}) \cup Busy(w) /\ behind' \subseteq VWorkers /\ exposed' \subseteq VWorkers
    BY <1>4 DEF SaveVehicle, Busy, GarageTypeOK
  <2>5. raced' \in BOOLEAN
    BY <1>4, Zenon DEF SaveVehicle, GarageTypeOK
  <2>6. \A q \in Plates \ {p} : row.mac = vehicle[q].mac => row.mac = NoMac
    BY <1>4 DEF SaveVehicle, Refused
  <2>7. p \in Plates /\ row \in Rows
    BY <2>1
  <2> HIDE DEF p, row
  <2>8. /\ \A q, r \in Plates : q # r /\ vehicle'[q].mac = vehicle'[r].mac => vehicle'[q].mac = NoMac
        /\ \A q \in Plates : vehicle'[q].status = "deleted" => ~vehicle'[q].primary
    BY <2>1, <2>2, <2>6, <2>7 DEF GarageTypeOK
  <2>9. GarageTypeOK'
    BY <2>2, <2>3, <2>4, <2>5, <2>8 DEF GarageTypeOK, Rows
  <2>10. \A v \in VWorkers \ {w} : request[v].at # "idle" => v \in behind'
    BY <2>4 DEF Busy, AtRest
  <2>11. \A v \in VWorkers : RequestShape(v)'
    BY <2>1, <2>2, <2>3, <2>10 DEF RequestShape
  <2>12. IsFiniteSet(ActiveVehicles \cup {p})
    BY FS_AddElement
  <2>13. ActiveVehicles' \subseteq ActiveVehicles \cup {p}
    BY <2>2 DEF ActiveVehicles
  <2>14. IsFiniteSet(ActiveVehicles)'
    BY <2>12, <2>13, FS_Subset
  <2> QED
    BY <2>1, <2>2, <2>7, <2>9, <2>11, <2>14
<1>5. ASSUME NEW w \in VWorkers, GiveUp(w)
      PROVE  GarageBase'
  <2>1. /\ request' \in [VWorkers -> [at : {"idle", "unset", "unset_first", "save", "insert"},
                                      plate : Plates \cup {NoPlate}, row : Rows]]
        /\ request'[w].at = "idle"
        /\ \A v \in VWorkers \ {w} : request'[v] = request[v]
    BY <1>5 DEF GiveUp, Done, AtRest, NoVehicle, GarageTypeOK, Rows
  <2>2. vehicle' = vehicle /\ behind' = behind \ {w} /\ exposed' \subseteq VWorkers /\ raced' = raced
    BY <1>5 DEF GiveUp, GarageTypeOK
  <2>3. GarageTypeOK'
    BY <2>1, <2>2 DEF GarageTypeOK, Rows
  <2>4. \A v \in VWorkers : RequestShape(v)'
    BY <2>1, <2>2 DEF RequestShape
  <2> QED
    BY <2>2, <2>3, <2>4 DEF ActiveVehicles
<1> QED
  BY <1>1, <1>2, <1>3, <1>4, <1>5, LoadsRead DEF GarageNext

\* What was decided in time stays right: no request has saved what another overtook.
LEMMA GarageKeptStep ==
  ASSUME GarageInv, [GarageNext]_garage, ~raced'
  PROVE  ~raced /\ GarageKept'
<1> USE DEF GarageInv, GarageKept
<1>1. CASE UNCHANGED garage
  BY <1>1 DEF garage, ActiveVehicles, Primaries, RequestTimely
<1>2. ASSUME NEW w \in VWorkers, Reads(w)
      PROVE  ~raced /\ GarageKept'
  <2>1. PICK label \in {"unset", "unset_first", "save", "insert"}, p \in Plates, row \in Rows :
          /\ Hold(w, label, p, row)
          /\ row.primary => row.status = "active"
          /\ label \in {"unset_first", "insert"} => Cardinality(ActiveVehicles) < MaxVehicles
          /\ label = "insert" => ~row.primary
          /\ label = "save" /\ row.primary => vehicle[p].primary
    BY <1>2 DEF Reads
  <2>2. UNCHANGED <<vehicle, behind, exposed, raced>>
    BY <2>1 DEF Hold
  <2>3. /\ request'[w] = [at |-> label, plate |-> p, row |-> row]
        /\ \A v \in VWorkers \ {w} : request'[v] = request[v]
    BY <2>1 DEF Hold, GarageBase, GarageTypeOK
  <2>4. Primaries' = Primaries /\ ActiveVehicles' = ActiveVehicles
    BY <2>2 DEF Primaries, ActiveVehicles
  <2>5. vehicle[p].primary => Primaries \subseteq {p}
    BY <2>2 DEF Primaries, ActiveVehicles, GarageBase
  <2>6. \A v \in VWorkers : RequestTimely(v)'
    BY <2>1, <2>2, <2>3, <2>4, <2>5 DEF RequestTimely
  <2> QED
    BY <2>2, <2>4, <2>6
<1>3. ASSUME NEW w \in VWorkers, UnsetPrimary(w)
      PROVE  ~raced /\ GarageKept'
  <2>1. \A p \in Plates : vehicle'[p].status = vehicle[p].status /\ ~vehicle'[p].primary
    BY <1>3 DEF UnsetPrimary, Unmarked, GarageBase, GarageTypeOK
  <2>2. Primaries' = {} /\ ActiveVehicles' = ActiveVehicles
    BY <2>1 DEF Primaries, ActiveVehicles
  <2>3. /\ request[w].at = "unset_first" \/ request'[w].at = "save"
        /\ \A v \in VWorkers \ {w} : request'[v] = request[v]
    BY <1>3 DEF UnsetPrimary, GarageBase, GarageTypeOK
  <2>4. behind' = behind /\ raced' = raced
    BY <1>3 DEF UnsetPrimary
  <2>5. \A v \in VWorkers : RequestTimely(v)'
    BY <2>2, <2>3, <2>4 DEF RequestTimely
  <2> QED
    BY <2>2, <2>4, <2>5
<1>4. ASSUME NEW w \in VWorkers, SaveVehicle(w)
      PROVE  ~raced /\ GarageKept'
  <2> DEFINE p == request[w].plate
             row == request[w].row
  <2>1. /\ request[w].at \in {"save", "insert"} /\ p \in Plates
        /\ row.primary => row.status = "active"
        /\ row.status \in {"active", "deleted"}
        /\ request[w].at = "save" => vehicle[p].status # "none"
    BY <1>4 DEF SaveVehicle, RequestShape, GarageBase, GarageTypeOK
  <2>2. vehicle'[p] = row /\ \A q \in Plates \ {p} : vehicle'[q] = vehicle[q]
    BY <1>4, <2>1 DEF SaveVehicle, GarageBase, GarageTypeOK
  <2>3. /\ ~raced
        /\ request[w].at = "insert" => w \notin behind
        /\ row.primary => w \notin exposed
        /\ vehicle[p].status = "deleted" => row.status # "active"
    BY <1>4 DEF SaveVehicle
  <2>4. /\ request'[w].at = "idle"
        /\ \A v \in VWorkers \ {w} : request'[v] = request[v]
    BY <1>4 DEF SaveVehicle, Done, AtRest, GarageBase, GarageTypeOK
  <2>5. /\ \A v \in VWorkers \ {w} : request[v].at # "idle" => v \in behind'
        /\ \A v \in VWorkers \ {w} : request[v].at # "idle" /\ row.primary => v \in exposed'
        /\ \A v \in VWorkers \ {w} : v \in exposed => v \in exposed'
    BY <1>4, <2>1 DEF SaveVehicle, Busy, AtRest
  <2>6. RequestTimely(w) /\ vehicle[p].status \in {"none", "active", "deleted"}
    BY <2>1, <2>3 DEF GarageBase, GarageTypeOK
  <2> HIDE DEF p, row
  <2>7. Cardinality(ActiveVehicles') <= MaxVehicles
    <3>1. CASE request[w].at = "insert"
      <4>1. Cardinality(ActiveVehicles) < MaxVehicles
        BY <2>3, <2>6, <3>1 DEF RequestTimely
      <4>2. ActiveVehicles' \subseteq ActiveVehicles \cup {p}
        BY <2>2 DEF ActiveVehicles
      <4>3. IsFiniteSet(ActiveVehicles \cup {p}) /\ Cardinality(ActiveVehicles \cup {p}) <= Cardinality(ActiveVehicles) + 1
        BY FS_AddElement, FS_CardinalityType DEF GarageBase
      <4>4. Cardinality(ActiveVehicles') <= Cardinality(ActiveVehicles \cup {p})
        BY <4>2, <4>3, FS_Subset
      <4>5. IsFiniteSet(ActiveVehicles') /\ IsFiniteSet(ActiveVehicles)
        BY <4>2, <4>3, FS_Subset DEF GarageBase
      <4>6. /\ Cardinality(ActiveVehicles') \in Nat /\ Cardinality(ActiveVehicles) \in Nat
            /\ Cardinality(ActiveVehicles \cup {p}) \in Nat
        BY <4>3, <4>5, FS_CardinalityType
      <4> QED
        BY <4>1, <4>3, <4>4, <4>6, GarageAssumption
    <3>2. CASE request[w].at = "save"
      <4>1. ActiveVehicles' \subseteq ActiveVehicles
        BY <2>1, <2>2, <2>3, <2>6, <3>2 DEF ActiveVehicles
      <4>2. Cardinality(ActiveVehicles') <= Cardinality(ActiveVehicles) /\ IsFiniteSet(ActiveVehicles')
        BY <4>1, FS_Subset DEF GarageBase
      <4>3. Cardinality(ActiveVehicles') \in Nat /\ Cardinality(ActiveVehicles) \in Nat
        BY <4>2, FS_CardinalityType DEF GarageBase
      <4> QED
        BY <2>3, <4>2, <4>3, GarageAssumption
    <3> QED
      BY <2>1, <3>1, <3>2
  <2>8. IF row.primary THEN Primaries' \subseteq {p} ELSE Primaries' \subseteq Primaries
    <3>1. row.primary => Primaries \subseteq {p}
      BY <2>1, <2>3, <2>6 DEF RequestTimely, p, row
    <3> QED
      BY <2>2, <3>1 DEF Primaries, ActiveVehicles
  <2>9. \A q, r \in Primaries' : q = r
    BY <2>3, <2>8
  <2>10. \A v \in VWorkers : RequestTimely(v)'
    BY <2>3, <2>4, <2>5, <2>8 DEF RequestTimely
  <2> QED
    BY <2>3, <2>7, <2>9, <2>10
<1>5. ASSUME NEW w \in VWorkers, GiveUp(w)
      PROVE  ~raced /\ GarageKept'
  <2>1. request'[w].at = "idle" /\ \A v \in VWorkers \ {w} : request'[v] = request[v]
    BY <1>5 DEF GiveUp, Done, AtRest, GarageBase, GarageTypeOK
  <2>2. vehicle' = vehicle /\ behind' = behind \ {w} /\ exposed' = exposed \ {w} /\ raced' = raced
    BY <1>5 DEF GiveUp
  <2>3. Primaries' = Primaries /\ ActiveVehicles' = ActiveVehicles
    BY <2>2 DEF Primaries, ActiveVehicles
  <2>4. \A v \in VWorkers : RequestTimely(v)'
    BY <2>1, <2>2, <2>3 DEF RequestTimely
  <2> QED
    BY <2>2, <2>3, <2>4
<1> QED
  BY <1>1, <1>2, <1>3, <1>4, <1>5, LoadsRead DEF GarageNext

\* The garage is empty at first.
LEMMA GarageStarts == ASSUME GarageInit PROVE GarageInv
<1>1. /\ vehicle = [p \in Plates |-> NoVehicle] /\ request = [w \in VWorkers |-> AtRest]
      /\ behind = {} /\ exposed = {} /\ raced = FALSE
  BY DEF GarageInit
<1>2. ActiveVehicles = {} /\ Primaries = {}
  BY <1>1 DEF ActiveVehicles, Primaries, NoVehicle
<1>3. GarageTypeOK
  BY <1>1 DEF GarageTypeOK, NoVehicle, AtRest
<1>4. \A w \in VWorkers : RequestShape(w) /\ RequestTimely(w)
  BY <1>1 DEF RequestShape, RequestTimely, AtRest
<1>5. IsFiniteSet(ActiveVehicles) /\ Cardinality(ActiveVehicles) = 0
  BY <1>2, FS_EmptySet
<1> QED
  BY <1>1, <1>2, <1>3, <1>4, <1>5, GarageAssumption DEF GarageInv, GarageBase, GarageKept, NoVehicle

LEMMA GarageStep == ASSUME GarageInv, [GarageNext]_garage PROVE GarageInv'
  BY GarageBaseStep, GarageKeptStep DEF GarageInv

\* One primary vehicle at most, and room for all.
LEMMA GarageIsInOrder == ASSUME GarageInv PROVE GarageInOrderUnlessRaced
<1> SUFFICES ASSUME ~raced PROVE Cardinality(Primaries) <= 1 /\ Cardinality(ActiveVehicles) <= MaxVehicles
  BY DEF GarageInOrderUnlessRaced
<1>1. Cardinality(ActiveVehicles) <= MaxVehicles /\ \A p, q \in Primaries : p = q
  BY DEF GarageInv, GarageKept
<1>2. Primaries = {} \/ \E p : Primaries = {p}
  BY <1>1
<1>3. Cardinality(Primaries) = 0 \/ Cardinality(Primaries) = 1
  <2>1. Cardinality({}) = 0
    BY FS_EmptySet
  <2>2. \A p : Cardinality({p}) = 1
    BY FS_Singleton
  <2> HIDE DEF Primaries
  <2> QED
    BY <1>2, <2>1, <2>2
<1> QED
  BY <1>1, <1>3

\* Only a copy that another save has overtaken brings a deleted vehicle back.
LEMMA DeletedStays ==
  ASSUME GarageInv, [GarageNext]_garage
  PROVE  [\A p \in Plates : vehicle[p].status = "deleted" /\ vehicle'[p].status # "deleted"
            => \E w \in behind : request[w].plate = p /\ request'[w] = AtRest]_garage
<1> SUFFICES ASSUME GarageNext, NEW q \in Plates, vehicle[q].status = "deleted", vehicle'[q].status # "deleted"
             PROVE  \E w \in behind : request[w].plate = q /\ request'[w] = AtRest
  OBVIOUS
<1>1. PICK w \in VWorkers : Reads(w) \/ UnsetPrimary(w) \/ SaveVehicle(w) \/ GiveUp(w)
  BY LoadsRead DEF GarageNext, GarageInv
<1>2. ~Reads(w) /\ ~GiveUp(w)
  BY DEF Reads, Hold, GiveUp
<1>3. ~UnsetPrimary(w)
  BY DEF UnsetPrimary, Unmarked, GarageInv, GarageBase, GarageTypeOK
<1>4. SaveVehicle(w)
  BY <1>1, <1>2, <1>3
<1>5. RequestShape(w) /\ request[w].at \in {"save", "insert"} /\ q \in Plates
  BY <1>4 DEF GarageInv, GarageBase, SaveVehicle
<1>6. vehicle' = [vehicle EXCEPT ![request[w].plate] = request[w].row] /\ request' = [request EXCEPT ![w] = AtRest]
  BY <1>4 DEF SaveVehicle, Done
<1>7. vehicle'[q] # vehicle[q]
  OBVIOUS
<1>8. request[w].plate = q /\ vehicle'[q] = request[w].row
  BY <1>6, <1>7 DEF GarageInv, GarageBase, GarageTypeOK
<1>9. request[w].at = "save"
  BY <1>4, <1>5, <1>8 DEF SaveVehicle, PlateIsFree, NoVehicle
<1>10. w \in behind
  BY <1>5, <1>8, <1>9 DEF RequestShape
<1> QED
  BY <1>6, <1>8, <1>10 DEF GarageInv, GarageBase, GarageTypeOK

-----------------------------------------------------------------------------
(* The roster.                                                             *)

DayRows == [staff : Profiles \cup {NoId}, checkIn : BOOLEAN, checkOut : BOOLEAN]

Visits == [at : {"idle", "staff", "remove", "in", "out"}, staff : Profiles \cup {NoId},
           row : Attendances \cup {NoId}, copy : DayRows]

\* What a request has found: the row of a new day only while the staff member has none.
VisitOK(w) ==
  LET v == visit[w] IN
  /\ v.at # "idle" => v.staff \in Profiles
  /\ v.at \in {"in", "out"} =>
       /\ v.row \in Attendances /\ v.copy.staff = v.staff
       /\ w \notin fooled /\ attendance[v.row] = Absent => OfStaff(v.staff) = {}

\* The inductive invariant of the roster.
RosterInv ==
  /\ RosterTypeOK
  /\ IsFiniteSet(profile)
  /\ \A p \in Profiles : IsFiniteSet(OfStaff(p))
  /\ \A w \in SWorkers : VisitOK(w)

\* A request that looks, and what it remembers.
Looks(w) ==
  \E record \in Visits :
    /\ Look(w, record)
    /\ record.staff \in Profiles
    /\ record.at \in {"in", "out"} =>
         /\ record.row \in Attendances /\ record.copy.staff = record.staff
         /\ attendance[record.row] = Absent => OfStaff(record.staff) = {}

LEMMA LooksRemember ==
  ASSUME RosterTypeOK, NEW w \in SWorkers, NEW p \in Profiles,
         \/ LookCreate(w, p) \/ LookStaff(w, p, "staff") \/ LookStaff(w, p, "remove")
         \/ LookDay(w, p, "in") \/ LookDay(w, p, "out")
  PROVE  Looks(w)
<1> USE RosterAssumption
<1>1. ASSUME NEW label \in {"staff", "remove"}, Look(w, [Away EXCEPT !.at = label, !.staff = p])
      PROVE  Looks(w)
  <2> DEFINE record == [Away EXCEPT !.at = label, !.staff = p]
  <2>1. record \in Visits /\ record.staff = p /\ record.at = label
    BY DEF Visits, Away, Absent, DayRows
  <2>2. Look(w, record)
    BY <1>1
  <2> HIDE DEF record
  <2> QED
    BY <2>1, <2>2 DEF Looks
<1>2. ASSUME NEW field \in {"in", "out"}, LookDay(w, p, field)
      PROVE  Looks(w)
  <2>1. CASE Found(p) = {}
    <3>1. PICK a \in Attendances :
            attendance[a] = Absent /\ Look(w, [at |-> field, staff |-> p, row |-> a, copy |-> [Absent EXCEPT !.staff = p]])
      BY <1>2, <2>1 DEF LookDay
    <3> DEFINE copy == [Absent EXCEPT !.staff = p]
    <3>2. copy \in DayRows /\ copy.staff = p
      BY DEF Absent, DayRows
    <3>3. Look(w, [at |-> field, staff |-> p, row |-> a, copy |-> copy])
      BY <3>1
    <3> HIDE DEF copy
    <3> QED
      BY <2>1, <3>2, <3>3 DEF Looks, Visits, Found
  <2>2. CASE Found(p) # {}
    <3>1. PICK a \in Found(p) : Look(w, [at |-> field, staff |-> p, row |-> a, copy |-> attendance[a]])
      BY <1>2, <2>2 DEF LookDay
    <3>2. a \in Attendances /\ attendance[a].staff = p /\ attendance[a] \in DayRows
      BY <3>1 DEF Found, OfStaff, RosterTypeOK, DayRows
    <3>3. attendance[a] # Absent
      BY <3>2 DEF Absent
    <3> QED
      BY <3>1, <3>2, <3>3 DEF Looks, Visits
  <2> QED
    BY <2>1, <2>2
<1> QED
  BY <1>1, <1>2 DEF LookCreate, LookStaff

\* What SaveDay makes of the day: a row gets its staff member, or keeps it.
LEMMA SavedDay ==
  ASSUME RosterInv, NEW w \in SWorkers, SaveDay(w), NEW a, NEW p, a = visit[w].row, p = visit[w].staff
  PROVE  /\ a \in Attendances /\ p \in profile /\ p \in Profiles
         /\ attendance' \in [Attendances -> DayRows] /\ attendance'[a].staff = p
         /\ \A b \in Attendances \ {a} : attendance'[b] = attendance[b]
         /\ attendance[a] # Absent => attendance[a].staff = p
         /\ attendance[a] # Absent => \A q \in Profiles : OfStaff(q)' = OfStaff(q)
         /\ OfStaff(p)' \subseteq OfStaff(p) \cup {a}
         /\ \A q \in Profiles \ {p} : OfStaff(q)' \subseteq OfStaff(q)
<1> USE RosterAssumption
<1> DEFINE row == Marked(visit[w].copy, visit[w].at)
<1>1. a \in Attendances /\ visit[w].copy.staff = p /\ p \in Profiles /\ visit[w].copy \in DayRows
  BY DEF RosterInv, VisitOK, SaveDay, RosterTypeOK, DayRows
<1>2. row \in DayRows /\ row.staff = p
  BY <1>1 DEF Marked, DayRows
<1>3. attendance' = [attendance EXCEPT ![a] = row] /\ (attendance[a] # Absent => attendance[a].staff = p) /\ p \in profile
  BY DEF SaveDay
<1> HIDE DEF row
<1>4. /\ attendance' \in [Attendances -> DayRows] /\ attendance'[a].staff = p
      /\ \A b \in Attendances \ {a} : attendance'[b] = attendance[b]
  BY <1>1, <1>2, <1>3 DEF RosterInv, RosterTypeOK, DayRows
<1>5. attendance[a] # Absent => \A q \in Profiles : OfStaff(q)' = OfStaff(q)
  BY <1>3, <1>4 DEF OfStaff
<1>6. /\ OfStaff(p)' \subseteq OfStaff(p) \cup {a}
      /\ \A q \in Profiles \ {p} : OfStaff(q)' \subseteq OfStaff(q)
  BY <1>1, <1>4 DEF OfStaff
<1> QED
  BY <1>1, <1>3, <1>4, <1>5, <1>6

LEMMA RosterStep ==
  ASSUME RosterInv, [RosterNext]_roster
  PROVE  RosterInv'
<1> USE RosterAssumption DEF RosterInv
<1>1. CASE UNCHANGED roster
  BY <1>1 DEF roster, RosterTypeOK, OfStaff, VisitOK
<1>2. ASSUME NEW w \in SWorkers, Looks(w)
      PROVE  RosterInv'
  <2>1. PICK record \in Visits :
          /\ Look(w, record)
          /\ record.staff \in Profiles
          /\ record.at \in {"in", "out"} =>
               /\ record.row \in Attendances /\ record.copy.staff = record.staff
               /\ attendance[record.row] = Absent => OfStaff(record.staff) = {}
    BY <1>2 DEF Looks
  <2>2. UNCHANGED <<profile, attendance, fooled>>
    BY <2>1 DEF Look
  <2>3. /\ visit' \in [SWorkers -> Visits] /\ visit'[w] = record
        /\ \A v \in SWorkers \ {w} : visit'[v] = visit[v]
    BY <2>1 DEF Look, RosterTypeOK, Visits, DayRows
  <2>4. RosterTypeOK'
    BY <2>2, <2>3 DEF RosterTypeOK, Visits, DayRows
  <2>5. \A p : OfStaff(p)' = OfStaff(p)
    BY <2>2 DEF OfStaff
  <2>6. \A v \in SWorkers : VisitOK(v)'
    BY <2>1, <2>2, <2>3, <2>5 DEF VisitOK
  <2> QED
    BY <2>2, <2>4, <2>5, <2>6
<1>3. ASSUME NEW w \in SWorkers, Leave(w)
      PROVE  /\ visit' \in [SWorkers -> Visits] /\ visit'[w].at = "idle"
             /\ \A v \in SWorkers \ {w} : visit'[v] = visit[v]
             /\ \A v \in SWorkers \ {w} : visit[v].at # "idle" => v \in Others(w)
             /\ Others(w) \subseteq SWorkers
  BY <1>3 DEF Leave, Away, Absent, RosterTypeOK, Visits, DayRows, Others
<1>4. ASSUME NEW w \in SWorkers, SaveStaff(w)
      PROVE  RosterInv'
  <2> DEFINE p == visit[w].staff
  <2>1. p \in Profiles
    BY <1>4 DEF SaveStaff, VisitOK
  <2>2. profile \subseteq {p} /\ profile' = profile \cup {p} /\ attendance' = attendance /\ Leave(w)
        /\ fooled' \in {fooled \ {w}, (fooled \ {w}) \cup Others(w)}
    BY <1>4 DEF SaveStaff, MaySave
  <2> HIDE DEF p
  <2>3. profile' = {p}
    BY <2>2
  <2>4. IsFiniteSet(profile') /\ Cardinality(profile') = 1
    BY <2>3, FS_Singleton
  <2>5. RosterTypeOK'
    BY <1>3, <2>1, <2>2, <2>3, <2>4 DEF RosterTypeOK, Visits, DayRows
  <2>6. \A q : OfStaff(q)' = OfStaff(q)
    BY <2>2 DEF OfStaff
  <2>7. \A v \in SWorkers : VisitOK(v)'
    BY <1>3, <2>2, <2>6 DEF VisitOK
  <2> QED
    BY <2>4, <2>5, <2>6, <2>7
<1>5. ASSUME NEW w \in SWorkers, RemoveStaff(w)
      PROVE  RosterInv'
  <2> DEFINE p == visit[w].staff
  <2>1. p \in Profiles
    BY <1>5 DEF RemoveStaff, VisitOK
  <2>2. profile' = profile \ {p} /\ Leave(w) /\ fooled' = (fooled \ {w}) \cup Others(w)
    BY <1>5 DEF RemoveStaff
  <2>3. attendance' = [a \in Attendances |-> IF attendance[a].staff = p THEN Absent ELSE attendance[a]]
    BY <1>5 DEF RemoveStaff
  <2> HIDE DEF p
  <2>4. /\ attendance' \in [Attendances -> DayRows]
        /\ \A a \in Attendances : attendance'[a].staff = IF attendance[a].staff = p THEN NoId ELSE attendance[a].staff
    BY <2>3 DEF RosterTypeOK, Absent, DayRows
  <2>5. IsFiniteSet(profile') /\ Cardinality(profile') <= Cardinality(profile)
    BY <2>2, FS_Subset
  <2>6. Cardinality(profile') \in Nat /\ Cardinality(profile) \in Nat
    BY <2>5, FS_CardinalityType
  <2>7. RosterTypeOK'
    BY <1>3, <2>1, <2>2, <2>4, <2>5, <2>6 DEF RosterTypeOK, Visits, DayRows
  <2>8. \A q \in Profiles : OfStaff(q)' \subseteq OfStaff(q)
    BY <2>4 DEF OfStaff
  <2>9. \A q \in Profiles : IsFiniteSet(OfStaff(q)')
    BY <2>8, FS_Subset
  <2>10. \A v \in SWorkers : VisitOK(v)'
    BY <1>3, <2>2 DEF VisitOK
  <2> QED
    BY <2>5, <2>7, <2>9, <2>10
<1>6. ASSUME NEW w \in SWorkers, SaveDay(w)
      PROVE  RosterInv'
  <2>0. PICK a, p : a = visit[w].row /\ p = visit[w].staff
    OBVIOUS
  <2>1. /\ a \in Attendances /\ p \in profile /\ p \in Profiles
        /\ attendance' \in [Attendances -> DayRows] /\ attendance'[a].staff = p
        /\ \A b \in Attendances \ {a} : attendance'[b] = attendance[b]
        /\ attendance[a] # Absent => \A q \in Profiles : OfStaff(q)' = OfStaff(q)
        /\ OfStaff(p)' \subseteq OfStaff(p) \cup {a}
        /\ \A q \in Profiles \ {p} : OfStaff(q)' \subseteq OfStaff(q)
    BY <1>6, <2>0, SavedDay
  <2>2. /\ profile' = profile /\ Leave(w)
        /\ fooled' = (fooled \ {w}) \cup (IF attendance[a] = Absent THEN Others(w) ELSE {})
    BY <1>6, <2>0 DEF SaveDay
  <2>3. RosterTypeOK'
    BY <1>3, <2>1, <2>2 DEF RosterTypeOK, Visits, DayRows
  <2>4. \A q \in Profiles : IsFiniteSet(OfStaff(q)')
    <3>1. IsFiniteSet(OfStaff(p) \cup {a})
      BY <2>1, FS_AddElement
    <3>2. IsFiniteSet(OfStaff(p)')
      BY <2>1, <3>1, FS_Subset
    <3>3. \A q \in Profiles \ {p} : IsFiniteSet(OfStaff(q)')
      BY <2>1, FS_Subset
    <3> QED
      BY <3>2, <3>3
  <2>5. attendance'[a] # Absent
    BY <2>1 DEF Absent
  <2>6. \A v \in SWorkers : VisitOK(v)'
    BY <1>3, <2>1, <2>2, <2>5 DEF VisitOK
  <2> QED
    BY <2>2, <2>3, <2>4, <2>6
<1>7. ASSUME NEW w \in SWorkers, Fail(w)
      PROVE  RosterInv'
  <2>1. UNCHANGED <<profile, attendance>> /\ Leave(w) /\ fooled' = fooled \ {w}
    BY <1>7 DEF Fail
  <2>2. \A q : OfStaff(q)' = OfStaff(q)
    BY <2>1 DEF OfStaff
  <2>3. RosterTypeOK'
    BY <1>3, <2>1 DEF RosterTypeOK, Visits, DayRows
  <2>4. \A v \in SWorkers : VisitOK(v)'
    BY <1>3, <2>1, <2>2 DEF VisitOK
  <2> QED
    BY <2>1, <2>2, <2>3, <2>4
<1> QED
  BY <1>1, <1>2, <1>4, <1>5, <1>6, <1>7, LooksRemember DEF RosterNext

LEMMA RosterStarts == ASSUME RosterInit PROVE RosterInv
<1>1. /\ profile = {} /\ attendance = [a \in Attendances |-> Absent] /\ visit = [w \in SWorkers |-> Away] /\ fooled = {}
  BY DEF RosterInit
<1>2. \A p \in Profiles : OfStaff(p) = {}
  BY <1>1, RosterAssumption DEF OfStaff, Absent
<1>3. IsFiniteSet({}) /\ Cardinality({}) = 0
  BY FS_EmptySet
<1>4. RosterTypeOK
  BY <1>1, <1>3 DEF RosterTypeOK, Absent, Away
<1>5. \A w \in SWorkers : VisitOK(w)
  BY <1>1 DEF VisitOK, Away
<1> QED
  BY <1>1, <1>2, <1>3, <1>4, <1>5 DEF RosterInv

\* A second row of the day comes of a request that had looked before the first was saved.
LEMMA SecondDay ==
  ASSUME RosterInv, [RosterNext]_roster
  PROVE  [\A p \in Profiles : Cardinality(OfStaff(p)') > 1 /\ Cardinality(OfStaff(p)) <= 1
            => \E w \in fooled : visit'[w] = Away]_roster
<1> SUFFICES ASSUME RosterNext, NEW p \in Profiles, Cardinality(OfStaff(p)') > 1, Cardinality(OfStaff(p)) <= 1
             PROVE  \E w \in fooled : visit'[w] = Away
  OBVIOUS
<1> DEFINE n == Cardinality(OfStaff(p))
           k == Cardinality(OfStaff(p)')
<1>1. PICK w \in SWorkers : Looks(w) \/ SaveStaff(w) \/ RemoveStaff(w) \/ SaveDay(w) \/ Fail(w)
  BY LooksRemember DEF RosterNext, RosterInv
<1>2. IsFiniteSet(OfStaff(p)) /\ IsFiniteSet(OfStaff(p)')
  BY RosterStep DEF RosterInv
<1>3. n \in Nat /\ k \in Nat
  BY <1>2, FS_CardinalityType
<1>4. ~(OfStaff(p)' \subseteq OfStaff(p))
  <2>1. OfStaff(p)' \subseteq OfStaff(p) => k <= n
    BY <1>2, FS_Subset
  <2> QED
    BY <1>3, <2>1
<1>5. SaveDay(w)
  <2>1. attendance' # attendance
    BY <1>4 DEF OfStaff
  <2>2. ~RemoveStaff(w)
    BY <1>4, RosterAssumption DEF RemoveStaff, OfStaff, Absent
  <2> QED
    BY <1>1, <2>1, <2>2 DEF Looks, Look, SaveStaff, Fail
<1>6. visit'[w] = Away
  BY <1>5 DEF SaveDay, Leave, RosterInv, RosterTypeOK
<1>7. w \in fooled
  <2> SUFFICES ASSUME w \notin fooled PROVE FALSE
    OBVIOUS
  <2>0. PICK a, s : a = visit[w].row /\ s = visit[w].staff
    OBVIOUS
  <2>1. p = s /\ attendance[a] = Absent /\ OfStaff(p)' \subseteq OfStaff(p) \cup {a}
    BY <1>4, <1>5, <2>0, SavedDay
  <2>2. OfStaff(p) = {}
    BY <1>5, <2>0, <2>1 DEF RosterInv, VisitOK, SaveDay
  <2>3. OfStaff(p)' \subseteq {a}
    BY <2>1, <2>2
  <2>4. IsFiniteSet({a}) /\ Cardinality({a}) = 1
    BY FS_Singleton
  <2>5. k <= 1
    BY <2>3, <2>4, FS_Subset
  <2> QED
    BY <1>3, <2>5
<1> QED
  BY <1>6, <1>7

-----------------------------------------------------------------------------
(* The account and its sessions.                                           *)

\* A worker holds a copy of the row that it will write, or has just written.
Copying == {"register", "overwrite", "save", "enable", "code", "login", "verify", "verify_old", "mark", "mark_old",
            "password"}

\* Those that set a password of their own.
Setting == {"register", "overwrite", "password"}

\* Those that lead to a session.
Entering == {"code", "login", "mark", "mark_old", "rotate", "insert", "insert_again"}

RowOK(row) == row \in Account /\ (row.mfa # "on" => row.codes = {})

CopyOK(w) ==
  LET k == worker[w] IN
  /\ k.at \in Copying => k.row.password \in 1 .. issued /\ RowOK(k.row)
  /\ k.at \in {"verify", "verify_old", "mark", "mark_old"} => k.row.verified
  /\ k.at \in {"register", "overwrite"} => ~k.row.verified

\* Only a refresh has a session, and one that was issued.
SessionOK(w) ==
  LET k == worker[w] IN
  /\ k.at \notin {"rotate", "insert", "insert_again"} => k.session = NoSession
  /\ k.session \in Sessions => session[k.session].state # "none"

\* Before anybody has registered, nobody does anything else.
AccountBase ==
  /\ TypeOK
  /\ account.password <= issued
  /\ account.password = 0 => \A w \in Workers : worker[w].at \in {"idle", "register"}
  /\ \A w \in Workers : CopyOK(w) /\ SessionOK(w)

\* A copy that is not stale is the row, but for what the request changes.
Fresh(w) ==
  LET k == worker[w] IN
  k.at \in Copying /\ w \notin stale =>
    /\ k.at # "enable" => k.row.codes \subseteq account.codes
    /\ k.at \notin {"verify", "verify_old"} => k.row.verified = account.verified
    /\ IF k.at \in Setting THEN k.row.password > account.password ELSE k.row.password = account.password

CopiesAreFresh == \A w \in Workers : Fresh(w)

\* Whoever is about to insert in exchange for the token of f; alone, if nobody else had found it.
Exchanges(w, f) == worker[w].at \in {"insert", "insert_again"} /\ worker[w].session = f
InsertsFrom(w, f) == worker[w].at = "insert" /\ worker[w].session = f

\* Such a token has been revoked, and whoever is alone is the first.
ExchangeInv ==
  \A f \in Sessions :
    /\ \A w \in Workers : Exchanges(w, f) => session[f].state = "revoked"
    /\ \A w \in Workers : InsertsFrom(w, f) => \A t \in Sessions \ overlapped : session[t].from # f
    /\ \A v, w \in Workers : InsertsFrom(v, f) /\ InsertsFrom(w, f) => v = w
    /\ \A t \in Sessions : session[t].from = f => session[f].state = "revoked"
    /\ \A s, t \in Sessions \ overlapped : session[s].from = f /\ session[t].from = f => s = t

\* An address that was not verified gets no session.
NobodyEnters == Live = {} /\ token # "used" /\ \A w \in Workers : worker[w].at \notin Entering

VerifiedFirst == lost \/ account.verified \/ NobodyEnters

\* What a worker's session will go back to, or comes from.
EntersUpToDate(w) ==
  LET k == worker[w] IN
  /\ k.at \in {"insert", "insert_again"} /\ w \notin cutOff =>
       IF k.session = NoSession THEN k.row.password >= account.password
       ELSE session[k.session].password >= account.password
  /\ k.at = "rotate" => k.session \in survivor \/ w \in cutOff \/ session[k.session].password >= account.password

UpToDate ==
  /\ \A s \in Live \ survivor : session[s].password >= account.password
  /\ \A w \in Workers : EntersUpToDate(w)

Cutting == \E w \in Workers : At(w, "cut")

CutInv == lost \/ uncut \/ Cutting \/ UpToDate

\* The inductive invariant of the account.
AccountInv == AccountBase /\ CopiesAreFresh /\ ExchangeInv /\ VerifiedFirst /\ CutInv

WorkerRows == [at : Labels, row : Account, session : Sessions \cup {NoSession}]

\* The other workers go on; some have lost the token they had found.
OthersGoOn(w) ==
  /\ worker' \in [Workers -> WorkerRows]
  /\ \A v \in Workers \ {w} :
       /\ worker'[v].row = worker[v].row /\ worker'[v].session = worker[v].session
       /\ \/ worker'[v].at = worker[v].at
          \/ worker[v].at = "verify" /\ worker'[v].at = "verify_old"
          \/ worker[v].at = "mark" /\ worker'[v].at = "mark_old"

\* What a request may have in hand when it has read.
MayHold(label, row, s) ==
  /\ label \in {"register", "overwrite", "issue", "save", "enable", "code", "login", "verify", "rotate", "password"}
  /\ RowOK(row)
  /\ label \in Copying =>
       /\ row.password \in 1 .. issued'
       /\ label # "enable" => row.codes \subseteq account.codes
       /\ label # "verify" => row.verified = account.verified
       /\ IF label \in Setting THEN row.password > account.password ELSE row.password = account.password
  /\ label = "verify" => row.verified
  /\ label \in {"register", "overwrite"} => ~row.verified
  /\ label # "register" => account.password # 0
  /\ IF label = "rotate" THEN s \in Live ELSE s = NoSession
  /\ label \in {"code", "login"} => account.verified \/ token = "used"

\* A request reads.
Begins(w) ==
  \E label, row, s :
    /\ worker[w] = Idle
    /\ worker' = [worker EXCEPT ![w] = [at |-> label, row |-> row, session |-> s]]
    /\ UNCHANGED <<account, session, token, stale, cutOff, survivor, overlapped, lost, uncut>>
    /\ issued' \in issued .. MaxPassword
    /\ MayHold(label, row, s)

\* The labels before and after a copy is written.
Written(from, to) ==
  \/ from \in {"register", "overwrite"} /\ to = "issue"
  \/ from = "code" /\ to = "login"
  \/ from = "login" /\ to = "insert"
  \/ from = "verify" /\ to = "mark"
  \/ from = "verify_old" /\ to = "mark_old"
  \/ from = "password" /\ to = "cut"
  \/ from \in {"save", "enable"} /\ to = "idle"

\* A request writes its copy.
Writes(w) ==
  /\ Save(w, worker[w].row)
  /\ OthersGoOn(w)
  /\ Written(worker[w].at, worker'[w].at)
  /\ worker'[w].session = NoSession
  /\ worker'[w].at \in Copying => worker'[w].row = worker[w].row
  /\ worker'[w].at = "insert" => worker'[w].row.password = worker[w].row.password
  /\ worker[w].at = "register" => account.password = 0
  /\ token' \in {token, "none"}
  /\ cutOff' \subseteq cutOff /\ cutOff \ {w} \subseteq cutOff'
  /\ worker'[w].at # "idle" => cutOff' = cutOff
  /\ UNCHANGED <<session, issued, survivor, overlapped, uncut>>

\* A request is done, or dies.
Ends(w) ==
  /\ worker'[w].at = "idle" /\ worker'[w].session = NoSession
  /\ OthersGoOn(w)
  /\ stale' = stale \ {w} /\ cutOff' = cutOff \ {w}
  /\ token' \in {token, "fresh"} \/ (token' = "used" /\ At(w, "mark"))
  /\ IF At(w, "cut") THEN uncut' = TRUE ELSE uncut' = uncut
  /\ UNCHANGED <<account, session, issued, survivor, overlapped, lost>>

\* The address is verified, and the login goes on.
Marks(w) ==
  /\ At(w, "mark") \/ At(w, "mark_old")
  /\ GoTo(w, "login")
  /\ token' \in {token, "used"}
  /\ UNCHANGED <<account, session, stale, cutOff, records>>

\* The account as it is read.
LEMMA AccountIsRow ==
  ASSUME TypeOK
  PROVE  /\ account \in Account /\ RowOK(account) /\ NoAccount \in Account /\ RowOK(NoAccount)
         /\ account.password \in 0 .. MaxPassword
  BY LoginAssumption DEF TypeOK, RowOK, Account, NoAccount

LEMMA BeginsWith ==
  ASSUME TypeOK, NEW w \in Workers, NEW label, NEW row, NEW s, Load(w, label, row, s), MayHold(label, row, s)
  PROVE  Begins(w)
<1>1. /\ worker[w] = Idle
      /\ worker' = [worker EXCEPT ![w] = [at |-> label, row |-> row, session |-> s]]
      /\ UNCHANGED <<account, session, token, stale, cutOff, survivor, overlapped, lost, uncut>>
      /\ issued' = issued
  BY DEF Load, records
<1>2. issued' \in issued .. MaxPassword
  BY <1>1, LoginAssumption DEF TypeOK
<1> QED
  BY <1>1, <1>2, Zenon DEF Begins

\* Every handler that reads begins so.
LEMMA Readers ==
  ASSUME AccountBase, NEW w \in Workers,
         \/ LoadRegister(w) \/ Resend(w) \/ LoginRight(w) \/ LoginWrong(w) \/ LoginCode(w) \/ LoadVerify(w)
         \/ LoadPassword(w) \/ SetupMfa(w) \/ VerifyMfa(w) \/ DisableMfa(w) \/ UpdateProfile(w)
         \/ \E s \in Sessions : LoadRefresh(w, s)
         \/ \E status \in {"active", "suspended"} : SetStatus(w, status)
  PROVE  Begins(w)
<1> USE LoginAssumption
<1>0. /\ TypeOK /\ account \in Account /\ RowOK(account) /\ NoAccount \in Account /\ RowOK(NoAccount)
      /\ account.password \in 0 .. MaxPassword /\ issued \in 0 .. MaxPassword /\ account.password <= issued
  BY AccountIsRow DEF AccountBase, TypeOK
<1>1. ASSUME NEW label \in {"save", "login", "code"}, NEW row \in Account, NEW s, Load(w, label, row, s), s = NoSession,
             row.password = account.password, row.verified = account.verified, row.codes \subseteq account.codes,
             row.mfa # "on" => row.codes = {}, label = "save" \/ account.verified \/ token = "used"
      PROVE  Begins(w)
  <2>1. account.password # 0 /\ issued' = issued
    BY <1>1 DEF Load, records
  <2>2. RowOK(row)
    BY <1>1 DEF RowOK
  <2>3. MayHold(label, row, s)
    BY <1>0, <1>1, <2>1, <2>2 DEF MayHold, Copying, Setting
  <2> QED
    BY <1>0, <1>1, <2>3, BeginsWith
<1>2. CASE LoadRegister(w)
  <2> DEFINE row == [account EXCEPT !.password = issued + 1]
             label == IF account.password = 0 THEN "register" ELSE "overwrite"
  <2>1. /\ worker[w] = Idle /\ ~account.verified /\ issued < MaxPassword /\ issued' = issued + 1
        /\ worker' = [worker EXCEPT ![w] = [at |-> label, row |-> row, session |-> NoSession]]
        /\ UNCHANGED <<account, session, token, stale, cutOff, survivor, overlapped, lost, uncut>>
    BY <1>2 DEF LoadRegister
  <2>2. /\ row \in Account /\ row.password = issued + 1 /\ row.verified = account.verified /\ row.mfa = account.mfa
        /\ row.codes = account.codes
    BY <1>0, <2>1 DEF Account
  <2>3. IF account.password = 0 THEN label = "register" ELSE label = "overwrite"
    BY DEF label
  <2> HIDE DEF row, label
  <2>4. RowOK(row)
    BY <1>0, <2>2 DEF RowOK
  <2>5. MayHold(label, row, NoSession)
    BY <1>0, <2>1, <2>2, <2>3, <2>4 DEF MayHold, Copying, Setting
  <2>6. issued' \in issued .. MaxPassword
    BY <1>0, <2>1
  <2> QED
    BY <2>1, <2>5, <2>6, Zenon DEF Begins
<1>3. CASE LoadPassword(w)
  <2> DEFINE row == [account EXCEPT !.password = issued + 1]
  <2>1. /\ worker[w] = Idle /\ account.password # 0 /\ issued < MaxPassword /\ issued' = issued + 1
        /\ worker' = [worker EXCEPT ![w] = [at |-> "password", row |-> row, session |-> NoSession]]
        /\ UNCHANGED <<account, session, token, stale, cutOff, survivor, overlapped, lost, uncut>>
    BY <1>3 DEF LoadPassword
  <2>2. /\ row \in Account /\ row.password = issued + 1 /\ row.verified = account.verified /\ row.mfa = account.mfa
        /\ row.codes = account.codes
    BY <1>0, <2>1 DEF Account
  <2> HIDE DEF row
  <2>3. RowOK(row)
    BY <1>0, <2>2 DEF RowOK
  <2>4. MayHold("password", row, NoSession)
    BY <1>0, <2>1, <2>2, <2>3 DEF MayHold, Copying, Setting
  <2>5. issued' \in issued .. MaxPassword
    BY <1>0, <2>1
  <2> QED
    BY <2>1, <2>4, <2>5, Zenon DEF Begins
<1>4. ASSUME Load(w, "issue", NoAccount, NoSession) PROVE Begins(w)
  <2>1. account.password # 0
    BY <1>4 DEF Load
  <2>2. MayHold("issue", NoAccount, NoSession)
    BY <1>0, <2>1 DEF MayHold, Copying
  <2> QED
    BY <1>0, <1>4, <2>2, BeginsWith
<1>5. CASE \E s \in Sessions : LoadRefresh(w, s)
  <2>1. PICK s \in Sessions : Load(w, "rotate", NoAccount, s) /\ s \in Live
    BY <1>5 DEF LoadRefresh, Usable, Live
  <2>2. account.password # 0
    BY <2>1 DEF Load
  <2>3. MayHold("rotate", NoAccount, s)
    BY <1>0, <2>1, <2>2 DEF MayHold, Copying
  <2> QED
    BY <1>0, <2>1, <2>3, BeginsWith
<1>6. ASSUME Load(w, "verify", [account EXCEPT !.verified = TRUE], NoSession) PROVE Begins(w)
  <2> DEFINE row == [account EXCEPT !.verified = TRUE]
  <2>1. Load(w, "verify", row, NoSession)
    BY <1>6
  <2>2. row \in Account /\ row.verified /\ row.password = account.password /\ row.mfa = account.mfa /\ row.codes = account.codes
    BY <1>0 DEF Account
  <2> HIDE DEF row
  <2>3. account.password # 0 /\ issued' = issued
    BY <2>1 DEF Load, records
  <2>4. RowOK(row)
    BY <1>0, <2>2 DEF RowOK
  <2>5. MayHold("verify", row, NoSession)
    BY <1>0, <2>2, <2>3, <2>4 DEF MayHold, Copying, Setting
  <2> QED
    BY <1>0, <2>1, <2>5, BeginsWith
<1>7. ASSUME VerifyMfa(w) PROVE Begins(w)
  <2> DEFINE row == [account EXCEPT !.mfa = "on", !.codes = Codes]
  <2>1. Load(w, "enable", row, NoSession)
    BY <1>7 DEF VerifyMfa
  <2>2. row \in Account /\ row.verified = account.verified /\ row.password = account.password /\ row.mfa = "on"
    BY <1>0 DEF Account
  <2> HIDE DEF row
  <2>3. account.password # 0 /\ issued' = issued
    BY <2>1 DEF Load, records
  <2>4. RowOK(row)
    BY <2>2 DEF RowOK
  <2>5. MayHold("enable", row, NoSession)
    BY <1>0, <2>2, <2>3, <2>4 DEF MayHold, Copying, Setting
  <2> QED
    BY <1>0, <2>1, <2>5, BeginsWith
<1>8. CASE Resend(w)
  BY <1>4, <1>8 DEF Resend
<1>9. CASE LoginRight(w)
  BY <1>0, <1>1, <1>4, <1>9 DEF LoginRight, RowOK
<1>10. CASE LoginWrong(w) \/ UpdateProfile(w)
  BY <1>0, <1>1, <1>10 DEF LoginWrong, UpdateProfile, RowOK
<1>11. CASE LoginCode(w)
  <2>1. ASSUME NEW c \in account.codes, Load(w, "code", [account EXCEPT !.codes = @ \ {c}], NoSession) PROVE Begins(w)
    <3> DEFINE row == [account EXCEPT !.codes = account.codes \ {c}]
    <3>1. Load(w, "code", row, NoSession)
      BY <2>1
    <3>2. /\ row \in Account /\ row.verified = account.verified /\ row.password = account.password /\ row.mfa = account.mfa
          /\ row.codes \subseteq account.codes
      BY <1>0 DEF Account
    <3> HIDE DEF row
    <3>3. account.verified /\ account.mfa = "on"
      BY <1>11 DEF LoginCode
    <3> QED
      BY <1>1, <3>1, <3>2, <3>3
  <2> QED
    BY <1>0, <1>1, <1>11, <2>1 DEF LoginCode, RowOK
<1>12. CASE LoadVerify(w)
  BY <1>0, <1>1, <1>6, <1>12 DEF LoadVerify, RowOK
<1>13. CASE SetupMfa(w)
  <2> DEFINE row == [account EXCEPT !.mfa = "pending", !.codes = {}]
  <2>1. Load(w, "save", row, NoSession)
    BY <1>13 DEF SetupMfa
  <2>2. row \in Account /\ row.verified = account.verified /\ row.password = account.password /\ row.codes = {}
    BY <1>0 DEF Account
  <2> HIDE DEF row
  <2> QED
    BY <1>1, <2>1, <2>2
<1>14. CASE DisableMfa(w)
  <2> DEFINE row == Disabled(account)
  <2>1. Load(w, "save", row, NoSession)
    BY <1>14 DEF DisableMfa
  <2>2. row \in Account /\ row.verified = account.verified /\ row.password = account.password /\ row.codes = {}
    BY <1>0 DEF Account, Disabled
  <2> HIDE DEF row
  <2> QED
    BY <1>1, <2>1, <2>2
<1>15. CASE \E status \in {"active", "suspended"} : SetStatus(w, status)
  <2>0. PICK status \in {"active", "suspended"} : SetStatus(w, status)
    BY <1>15
  <2> DEFINE row == [account EXCEPT !.status = status]
  <2>1. Load(w, "save", row, NoSession)
    BY <2>0 DEF SetStatus
  <2>2. /\ row \in Account /\ row.verified = account.verified /\ row.password = account.password /\ row.mfa = account.mfa
        /\ row.codes = account.codes
    BY <1>0 DEF Account
  <2> HIDE DEF row
  <2> QED
    BY <1>0, <1>1, <2>1, <2>2 DEF RowOK
<1> QED
  BY <1>2, <1>3, <1>5, <1>7, <1>8, <1>9, <1>10, <1>11, <1>12, <1>13, <1>14, <1>15

\* The handler whose label goes on keeps its copy, or drops it, and the others are as they were.
LEMMA WorkerGoesOn ==
  ASSUME TypeOK, NEW w \in Workers, NEW record \in WorkerRows,
         worker' = [Orphaned EXCEPT ![w] = record]
  PROVE  OthersGoOn(w) /\ worker'[w] = record
<1>1. worker \in [Workers -> WorkerRows]
  BY DEF TypeOK, WorkerRows
<1>2. \A v \in Workers :
        /\ Orphaned[v] \in WorkerRows /\ Orphaned[v].row = worker[v].row /\ Orphaned[v].session = worker[v].session
        /\ \/ Orphaned[v].at = worker[v].at
           \/ worker[v].at = "verify" /\ Orphaned[v].at = "verify_old"
           \/ worker[v].at = "mark" /\ Orphaned[v].at = "mark_old"
  <2> SUFFICES ASSUME NEW v \in Workers
               PROVE  /\ Orphaned[v] \in WorkerRows
                      /\ Orphaned[v].row = worker[v].row /\ Orphaned[v].session = worker[v].session
                      /\ \/ Orphaned[v].at = worker[v].at
                         \/ worker[v].at = "verify" /\ Orphaned[v].at = "verify_old"
                         \/ worker[v].at = "mark" /\ Orphaned[v].at = "mark_old"
    OBVIOUS
  <2> DEFINE to == IF worker[v].at = "verify" THEN "verify_old"
                   ELSE IF worker[v].at = "mark" THEN "mark_old" ELSE worker[v].at
  <2>1. Orphaned[v] = [worker[v] EXCEPT !.at = to]
    BY DEF Orphaned
  <2>2. /\ to \in Labels
        /\ \/ to = worker[v].at
           \/ worker[v].at = "verify" /\ to = "verify_old"
           \/ worker[v].at = "mark" /\ to = "mark_old"
    BY <1>1 DEF Labels, WorkerRows
  <2> HIDE DEF to
  <2> QED
    BY <1>1, <2>1, <2>2 DEF WorkerRows
<1>3. Orphaned \in [Workers -> WorkerRows]
  BY <1>2 DEF Orphaned
<1> HIDE DEF Orphaned
<1> QED
  BY <1>1, <1>2, <1>3 DEF OthersGoOn

\* The same of a handler that leaves the others alone.
LEMMA WorkerAlone ==
  ASSUME TypeOK, NEW w \in Workers, NEW record \in WorkerRows, worker' = [worker EXCEPT ![w] = record]
  PROVE  OthersGoOn(w) /\ worker'[w] = record
  BY DEF TypeOK, WorkerRows, OthersGoOn

\* An idle worker is one.
LEMMA IdleIsRecord == ASSUME TypeOK PROVE Idle \in WorkerRows /\ Idle.at = "idle" /\ Idle.session = NoSession
  BY AccountIsRow DEF WorkerRows, Idle, Labels

\* A handler that writes its copy.
LEMMA Writers ==
  ASSUME AccountBase, NEW w \in Workers,
         \/ At(w, "register") /\ account.password = 0 /\ CommitRegister(w)
         \/ CommitOverwrite(w) \/ CommitCode(w) \/ CommitLogin(w) \/ CommitVerify(w) \/ CommitPassword(w) \/ CommitSave(w)
  PROVE  Writes(w)
<1>0. /\ TypeOK /\ NoAccount \in Account /\ worker[w] \in WorkerRows /\ worker[w].row \in Account
      /\ worker[w].session \in Sessions \cup {NoSession} /\ cutOff \subseteq Workers
      /\ worker[w].at \notin {"rotate", "insert", "insert_again"} => worker[w].session = NoSession
  BY AccountIsRow DEF AccountBase, TypeOK, SessionOK, WorkerRows
<1>1. ASSUME NEW label \in Labels, NEW row \in Account, worker' = [worker EXCEPT ![w].at = label, ![w].row = row]
      PROVE  OthersGoOn(w) /\ worker'[w].at = label /\ worker'[w].row = row /\ worker'[w].session = worker[w].session
  <2> DEFINE record == [worker[w] EXCEPT !.at = label, !.row = row]
  <2>1. worker' = [worker EXCEPT ![w] = record]
    BY <1>0, <1>1 DEF TypeOK
  <2>2. record \in WorkerRows /\ record.at = label /\ record.row = row /\ record.session = worker[w].session
    BY <1>0 DEF WorkerRows
  <2> HIDE DEF record
  <2> QED
    BY <1>0, <2>1, <2>2, WorkerAlone
<1>2. ASSUME NEW label \in Labels, GoTo(w, label)
      PROVE  /\ OthersGoOn(w) /\ worker'[w].at = label /\ worker'[w].row = worker[w].row
             /\ worker'[w].session = worker[w].session
  <2> DEFINE record == [worker[w] EXCEPT !.at = label]
  <2>1. worker' = [worker EXCEPT ![w] = record]
    BY <1>2 DEF GoTo
  <2>2. record \in WorkerRows /\ record.at = label /\ record.row = worker[w].row /\ record.session = worker[w].session
    BY <1>0 DEF WorkerRows
  <2> HIDE DEF record
  <2> QED
    BY <1>0, <2>1, <2>2, WorkerAlone
<1>3. CASE At(w, "register") /\ account.password = 0 /\ CommitRegister(w)
  <2>1. /\ Save(w, worker[w].row) /\ GoOn(w, "issue") /\ At(w, "register") /\ account.password = 0
        /\ UNCHANGED <<session, token, cutOff, issued, survivor, overlapped, uncut>>
    BY <1>3 DEF CommitRegister
  <2>2. OthersGoOn(w) /\ worker'[w].at = "issue" /\ worker'[w].session = worker[w].session
    BY <1>0, <1>1, <2>1 DEF GoOn, Labels
  <2> QED
    BY <1>0, <2>1, <2>2 DEF Writes, Written, At, Copying
<1>4. CASE CommitOverwrite(w)
  <2>1. /\ Save(w, worker[w].row) /\ At(w, "overwrite") /\ token' = "none"
        /\ worker' = [Orphaned EXCEPT ![w].at = "issue", ![w].row = NoAccount]
        /\ UNCHANGED <<session, cutOff, issued, survivor, overlapped, uncut>>
    BY <1>4 DEF CommitOverwrite
  <2> DEFINE record == [Orphaned[w] EXCEPT !.at = "issue", !.row = NoAccount]
  <2>2. Orphaned[w] = [worker[w] EXCEPT !.at = "overwrite"]
    BY <2>1 DEF Orphaned, At
  <2>3. Orphaned[w] \in WorkerRows /\ Orphaned[w].session = worker[w].session
    BY <1>0, <2>1, <2>2 DEF WorkerRows, Labels
  <2>4. worker' = [Orphaned EXCEPT ![w] = record]
    BY <2>1 DEF Orphaned
  <2> HIDE DEF Orphaned
  <2>5. record \in WorkerRows /\ record.at = "issue" /\ record.session = worker[w].session
    BY <1>0, <2>3 DEF WorkerRows, Labels
  <2> HIDE DEF record
  <2>6. OthersGoOn(w) /\ worker'[w].at = "issue" /\ worker'[w].session = worker[w].session
    BY <1>0, <2>4, <2>5, WorkerGoesOn
  <2> QED
    BY <1>0, <2>1, <2>6 DEF Writes, Written, At, Copying
<1>5. CASE CommitCode(w)
  <2>1. /\ Save(w, worker[w].row) /\ At(w, "code") /\ GoTo(w, "login")
        /\ UNCHANGED <<session, token, cutOff, issued, survivor, overlapped, uncut>>
    BY <1>5 DEF CommitCode
  <2>2. OthersGoOn(w) /\ worker'[w].at = "login" /\ worker'[w].row = worker[w].row /\ worker'[w].session = worker[w].session
    BY <1>2, <2>1 DEF Labels
  <2> QED
    BY <1>0, <2>1, <2>2 DEF Writes, Written, At, Copying
<1>6. CASE CommitLogin(w)
  <2> DEFINE row == [NoAccount EXCEPT !.password = worker[w].row.password]
  <2>1. /\ Save(w, worker[w].row) /\ At(w, "login") /\ worker' = [worker EXCEPT ![w].at = "insert", ![w].row = row]
        /\ UNCHANGED <<session, token, cutOff, issued, survivor, overlapped, uncut>>
    BY <1>6 DEF CommitLogin
  <2>2. row \in Account /\ row.password = worker[w].row.password
    BY <1>0 DEF Account, NoAccount
  <2> HIDE DEF row
  <2>3. OthersGoOn(w) /\ worker'[w].at = "insert" /\ worker'[w].row = row /\ worker'[w].session = worker[w].session
    BY <1>1, <2>1, <2>2 DEF Labels
  <2> QED
    BY <1>0, <2>1, <2>2, <2>3 DEF Writes, Written, At, Copying
<1>7. CASE CommitVerify(w)
  <2> DEFINE label == IF At(w, "verify") THEN "mark" ELSE "mark_old"
  <2>1. /\ Save(w, worker[w].row) /\ (At(w, "verify") \/ At(w, "verify_old")) /\ GoTo(w, label)
        /\ UNCHANGED <<session, token, cutOff, issued, survivor, overlapped, uncut>>
    BY <1>7 DEF CommitVerify
  <2>2. Written(worker[w].at, label) /\ label \in Labels /\ label # "insert" /\ label # "idle"
    BY <2>1 DEF Written, At, Labels
  <2> HIDE DEF label
  <2>3. OthersGoOn(w) /\ worker'[w].at = label /\ worker'[w].row = worker[w].row /\ worker'[w].session = worker[w].session
    BY <1>2, <2>1, <2>2
  <2> QED
    BY <1>0, <2>1, <2>2, <2>3 DEF Writes, At
<1>8. CASE CommitPassword(w)
  <2>1. /\ Save(w, worker[w].row) /\ At(w, "password") /\ GoOn(w, "cut")
        /\ UNCHANGED <<session, token, cutOff, issued, survivor, overlapped, uncut>>
    BY <1>8 DEF CommitPassword
  <2>2. OthersGoOn(w) /\ worker'[w].at = "cut" /\ worker'[w].session = worker[w].session
    BY <1>0, <1>1, <2>1 DEF GoOn, Labels
  <2> QED
    BY <1>0, <2>1, <2>2 DEF Writes, Written, At, Copying
<1>9. CASE CommitSave(w)
  <2>1. /\ Save(w, worker[w].row) /\ (At(w, "save") \/ At(w, "enable")) /\ worker' = [worker EXCEPT ![w] = Idle]
        /\ cutOff' = cutOff \ {w} /\ UNCHANGED <<session, token, issued, survivor, overlapped, uncut>>
    BY <1>9 DEF CommitSave
  <2>2. OthersGoOn(w) /\ worker'[w].at = "idle" /\ worker'[w].session = NoSession
    BY <1>0, <2>1, WorkerAlone, IdleIsRecord
  <2> QED
    BY <1>0, <2>1, <2>2 DEF Writes, Written, At, Copying
<1> QED
  BY <1>3, <1>4, <1>5, <1>6, <1>7, <1>8, <1>9

\* A handler that is done.
LEMMA Enders ==
  ASSUME AccountBase, NEW w \in Workers,
         \/ CommitRegister(w) /\ account.password # 0
         \/ IssueToken(w) \/ Dies(w)
         \/ MarkVerified(w) /\ worker[w].row.status # "active"
  PROVE  Ends(w)
<1>0. TypeOK /\ NoAccount \in Account /\ worker[w] \in WorkerRows
  BY AccountIsRow DEF AccountBase, TypeOK, WorkerRows
<1>1. ASSUME worker' = [worker EXCEPT ![w] = Idle]
      PROVE  OthersGoOn(w) /\ worker'[w].at = "idle" /\ worker'[w].session = NoSession
  BY <1>0, <1>1, WorkerAlone, IdleIsRecord
<1>2. CASE CommitRegister(w) /\ account.password # 0
  BY <1>1, <1>2 DEF CommitRegister, Finish, Ends, At
<1>3. CASE IssueToken(w)
  <2>1. worker' = [Orphaned EXCEPT ![w] = Idle]
    BY <1>3 DEF IssueToken
  <2>2. OthersGoOn(w) /\ worker'[w].at = "idle" /\ worker'[w].session = NoSession
    BY <1>0, <2>1, WorkerGoesOn, IdleIsRecord
  <2> QED
    BY <1>3, <2>2 DEF IssueToken, Ends, At, records
<1>4. CASE Dies(w)
  <2>1. uncut' = (uncut \/ At(w, "cut"))
    BY <1>4 DEF Dies
  <2>2. IF At(w, "cut") THEN uncut' = TRUE ELSE uncut' = uncut
    BY <1>0, <2>1, Zenon DEF TypeOK
  <2> QED
    BY <1>0, <1>1, <1>4, <2>2 DEF Dies, Finish, Ends
<1>5. CASE MarkVerified(w) /\ worker[w].row.status # "active"
  BY <1>1, <1>5 DEF MarkVerified, Finish, Ends, At, records
<1> QED
  BY <1>2, <1>3, <1>4, <1>5

SessionRows == [state : {"none", "live", "revoked"}, password : 0 .. MaxPassword, from : Sessions \cup {NoSession}]

\* No session appears or changes, some are revoked.
SessionsWane ==
  /\ session' \in [Sessions -> SessionRows]
  /\ \A s \in Sessions :
       /\ session'[s].password = session[s].password /\ session'[s].from = session[s].from
       /\ session'[s].state = session[s].state \/ (session[s].state = "live" /\ session'[s].state = "revoked")

\* A logout, or the end of a session or of a token.
Lapses ==
  /\ SessionsWane
  /\ token' \in {token, "expired"}
  /\ UNCHANGED <<account, worker, stale, cutOff, records>>

\* All sessions are revoked, while the other requests go on.
CutsAll(w) ==
  /\ SessionsWane /\ Live' = {}
  /\ uncut' = FALSE
  /\ OthersGoOn(w)
  /\ \/ worker'[w] = worker[w] /\ stale' = stale
     \/ worker'[w].at = "idle" /\ worker'[w].session = NoSession /\ stale' = stale \ {w}
  /\ \A v \in Workers : worker'[v].at # "idle" => v \in cutOff'
  /\ cutOff' \subseteq Workers
  /\ UNCHANGED <<account, token, issued, survivor, overlapped, lost>>

\* A refresh has revoked the session it comes from.
Rotates(w) ==
  LET f == worker[w].session IN
  /\ At(w, "rotate") /\ f \in Sessions
  /\ SessionsWane /\ session'[f].state # "live"
  /\ OthersGoOn(w) /\ \A v \in Workers \ {w} : worker'[v] = worker[v]
  /\ worker'[w].session = f
  /\ worker'[w].at = IF f \in Live THEN "insert" ELSE "insert_again"
  /\ cutOff' \subseteq Workers /\ cutOff \subseteq cutOff' /\ (f \in survivor => w \in cutOff') /\ cutOff' \ {w} \subseteq cutOff
  /\ UNCHANGED <<account, token, stale, records>>

\* A session is inserted.
Inserts(w, s) ==
  LET k == worker[w] IN
  /\ k.at \in {"insert", "insert_again"}
  /\ session[s] = NoRow
  /\ session' \in [Sessions -> SessionRows]
  /\ session'[s].state = "live" /\ session'[s].from = k.session
  /\ session'[s].password = IF k.session = NoSession THEN k.row.password ELSE session[k.session].password
  /\ \A t \in Sessions \ {s} : session'[t] = session[t]
  /\ survivor' \subseteq Sessions /\ survivor \subseteq survivor' /\ (w \in cutOff => s \in survivor')
  /\ overlapped' \subseteq Sessions /\ overlapped \subseteq overlapped' /\ (k.at = "insert_again" => s \in overlapped')
  /\ worker'[w].at = "idle" /\ worker'[w].session = NoSession
  /\ OthersGoOn(w)
  /\ stale' = stale \ {w} /\ cutOff' = cutOff \ {w}
  /\ UNCHANGED <<account, token, issued, lost, uncut>>

LEMMA RevokedWane ==
  ASSUME TypeOK, NEW S, session' = Revoked(S)
  PROVE  SessionsWane /\ \A s \in Sessions \cap S : session'[s].state # "live"
<1>1. session \in [Sessions -> SessionRows]
  BY DEF TypeOK, SessionRows
<1>2. \A s \in Sessions :
        /\ session'[s] \in SessionRows /\ session'[s].password = session[s].password /\ session'[s].from = session[s].from
        /\ session'[s].state = IF s \in S /\ session[s].state = "live" THEN "revoked" ELSE session[s].state
  <2> SUFFICES ASSUME NEW s \in Sessions
               PROVE  /\ session'[s] \in SessionRows
                      /\ session'[s].password = session[s].password /\ session'[s].from = session[s].from
                      /\ session'[s].state = IF s \in S /\ session[s].state = "live" THEN "revoked" ELSE session[s].state
    OBVIOUS
  <2>1. CASE s \in S /\ session[s].state = "live"
    <3>1. session'[s] = [session[s] EXCEPT !.state = "revoked"]
      BY <2>1 DEF Revoked
    <3> QED
      BY <1>1, <2>1, <3>1 DEF SessionRows
  <2>2. CASE ~(s \in S /\ session[s].state = "live")
    <3>1. session'[s] = session[s]
      BY <2>2 DEF Revoked
    <3> QED
      BY <1>1, <2>2, <3>1
  <2> QED
    BY <2>1, <2>2
<1>3. session' = [s \in Sessions |-> session'[s]]
  BY DEF Revoked
<1>4. session' \in [Sessions -> SessionRows]
  BY <1>2, <1>3
<1> QED
  BY <1>2, <1>4 DEF SessionsWane

LEMMA BeginsFacts ==
  ASSUME TypeOK, NEW w \in Workers, Begins(w)
  PROVE  /\ worker[w].at = "idle" /\ OthersGoOn(w) /\ \A v \in Workers \ {w} : worker'[v] = worker[v]
         /\ MayHold(worker'[w].at, worker'[w].row, worker'[w].session)
         /\ issued' \in issued .. MaxPassword
         /\ UNCHANGED <<account, session, token, stale, cutOff, survivor, overlapped, lost, uncut>>
<1>1. PICK label, row, s :
        /\ worker[w] = Idle
        /\ worker' = [worker EXCEPT ![w] = [at |-> label, row |-> row, session |-> s]]
        /\ UNCHANGED <<account, session, token, stale, cutOff, survivor, overlapped, lost, uncut>>
        /\ issued' \in issued .. MaxPassword
        /\ MayHold(label, row, s)
  BY Zenon DEF Begins
<1>2. label \in Labels /\ row \in Account /\ s \in Sessions \cup {NoSession}
  BY <1>1 DEF MayHold, RowOK, Labels, Live
<1>3. [at |-> label, row |-> row, session |-> s] \in WorkerRows
  BY <1>2 DEF WorkerRows
<1>4. OthersGoOn(w) /\ worker'[w] = [at |-> label, row |-> row, session |-> s]
  BY <1>1, <1>3, WorkerAlone
<1>5. \A v \in Workers \ {w} : worker'[v] = worker[v]
  BY <1>1 DEF TypeOK
<1> QED
  BY <1>1, <1>4, <1>5 DEF Idle

LEMMA Rotaters ==
  ASSUME AccountBase, NEW w \in Workers, Rotate(w)
  PROVE  Rotates(w)
<1> DEFINE f == worker[w].session
           label == IF f \in Live THEN "insert" ELSE "insert_again"
           record == [worker[w] EXCEPT !.at = label]
<1>1. TypeOK /\ worker[w] \in WorkerRows /\ f \in Sessions /\ cutOff \subseteq Workers
  BY DEF AccountBase, TypeOK, WorkerRows, Rotate, At
<1>2. /\ At(w, "rotate") /\ session' = Revoked({f}) /\ worker' = [worker EXCEPT ![w] = record]
      /\ cutOff' = IF f \in survivor THEN cutOff \cup {w} ELSE cutOff
      /\ UNCHANGED <<account, token, stale, records>>
  BY DEF Rotate, GoTo
<1>3. SessionsWane /\ session'[f].state # "live"
  BY <1>1, <1>2, RevokedWane
<1>4. label \in Labels
  BY DEF Labels
<1> HIDE DEF label
<1>5. record \in WorkerRows /\ record.at = label /\ record.session = f
  BY <1>1, <1>4 DEF WorkerRows
<1> HIDE DEF record
<1>6. OthersGoOn(w) /\ worker'[w] = record /\ \A v \in Workers \ {w} : worker'[v] = worker[v]
  BY <1>1, <1>2, <1>5, WorkerAlone DEF TypeOK
<1> QED
  BY <1>1, <1>2, <1>3, <1>5, <1>6 DEF Rotates, label

LEMMA Inserters ==
  ASSUME AccountBase, NEW w \in Workers, NEW s \in Sessions, InsertSession(w, s)
  PROVE  Inserts(w, s)
<1> DEFINE from == worker[w].session
           password == IF from = NoSession THEN worker[w].row.password ELSE session[from].password
<1>1. /\ TypeOK /\ worker[w] \in WorkerRows /\ session \in [Sessions -> SessionRows] /\ survivor \subseteq Sessions
      /\ overlapped \subseteq Sessions
  BY DEF AccountBase, TypeOK, WorkerRows, SessionRows
<1>2. /\ At(w, "insert") \/ At(w, "insert_again")
      /\ session[s] = NoRow
      /\ session' = [session EXCEPT ![s] = [state |-> "live", password |-> password, from |-> from]]
      /\ survivor' = IF w \in cutOff THEN survivor \cup {s} ELSE survivor
      /\ overlapped' = IF At(w, "insert_again") THEN overlapped \cup {s} ELSE overlapped
      /\ worker' = [worker EXCEPT ![w] = Idle] /\ stale' = stale \ {w} /\ cutOff' = cutOff \ {w}
      /\ UNCHANGED <<account, token, issued, lost, uncut>>
  BY DEF InsertSession, Finish
<1>3. password \in 0 .. MaxPassword /\ from \in Sessions \cup {NoSession}
  BY <1>1 DEF WorkerRows, SessionRows, Account
<1>4. OthersGoOn(w) /\ worker'[w].at = "idle" /\ worker'[w].session = NoSession
  BY <1>1, <1>2, WorkerAlone, IdleIsRecord
<1> HIDE DEF password, from
<1>5. /\ session' \in [Sessions -> SessionRows]
      /\ session'[s].state = "live" /\ session'[s].from = from /\ session'[s].password = password
      /\ \A t \in Sessions \ {s} : session'[t] = session[t]
  BY <1>1, <1>2, <1>3 DEF SessionRows
<1> QED
  BY <1>1, <1>2, <1>4, <1>5 DEF Inserts, At, password, from

LEMMA Cutters ==
  ASSUME AccountBase, NEW w, LogoutEverywhere \/ (w \in Workers /\ CutSessions(w))
  PROVE  CutsAll(w)
<1>1. TypeOK /\ cutOff \subseteq Workers
  BY DEF AccountBase, TypeOK
<1>2. session' = Revoked(Sessions) /\ uncut' = FALSE
  BY DEF LogoutEverywhere, CutSessions, RevokeAll
<1>3. SessionsWane /\ Live' = {}
  BY <1>1, <1>2, RevokedWane DEF Live
<1>4. CASE LogoutEverywhere
  <2>1. /\ cutOff' = {v \in Workers : worker[v] # Idle}
        /\ UNCHANGED <<account, token, worker, stale, issued, survivor, overlapped, lost>>
    BY <1>4 DEF LogoutEverywhere
  <2>2. OthersGoOn(w)
    BY <1>1, <2>1 DEF OthersGoOn, TypeOK, WorkerRows
  <2> QED
    BY <1>2, <1>3, <2>1, <2>2 DEF CutsAll, Idle
<1>5. CASE w \in Workers /\ CutSessions(w)
  <2>1. /\ worker' = [worker EXCEPT ![w] = Idle] /\ stale' = stale \ {w}
        /\ cutOff' = {v \in Workers \ {w} : worker[v] # Idle}
        /\ UNCHANGED <<account, token, issued, survivor, overlapped, lost>>
    BY <1>5 DEF CutSessions
  <2>2. OthersGoOn(w) /\ worker'[w].at = "idle" /\ worker'[w].session = NoSession
    BY <1>1, <1>5, <2>1, WorkerAlone, IdleIsRecord
  <2>3. \A v \in Workers \ {w} : worker'[v] = worker[v]
    BY <1>1, <2>1 DEF TypeOK
  <2> QED
    BY <1>2, <1>3, <2>1, <2>2, <2>3 DEF CutsAll, Idle
<1> QED
  BY <1>4, <1>5

LEMMA Lapsers ==
  ASSUME AccountBase,
         (\E s \in Sessions : Logout(s) \/ SessionExpires(s)) \/ TokenExpires \/ UNCHANGED vars
  PROVE  Lapses
<1>1. TypeOK /\ session \in [Sessions -> SessionRows]
  BY DEF AccountBase, TypeOK, SessionRows
<1>2. CASE \E s \in Sessions : Logout(s)
  <2>1. PICK s \in Sessions : Logout(s)
    BY <1>2
  <2>2. SessionsWane
    BY <1>1, <2>1, RevokedWane DEF Logout
  <2> QED
    BY <2>1, <2>2 DEF Logout, Lapses
<1>3. CASE \E s \in Sessions : SessionExpires(s)
  <2>1. PICK s \in Sessions : SessionExpires(s)
    BY <1>3
  <2> DEFINE row == [session[s] EXCEPT !.state = "revoked"]
  <2>2. session' = [session EXCEPT ![s] = row] /\ session[s].state = "live"
    BY <2>1 DEF SessionExpires
  <2>3. row \in SessionRows /\ row.state = "revoked" /\ row.password = session[s].password /\ row.from = session[s].from
    BY <1>1 DEF SessionRows
  <2> HIDE DEF row
  <2>4. SessionsWane
    BY <1>1, <2>2, <2>3 DEF SessionsWane
  <2> QED
    BY <2>1, <2>4 DEF SessionExpires, Lapses
<1>4. CASE TokenExpires \/ UNCHANGED vars
  BY <1>1, <1>4 DEF TokenExpires, vars, records, Lapses, SessionsWane
<1> QED
  BY <1>2, <1>3, <1>4

LEMMA Markers ==
  ASSUME NEW w \in Workers, MarkVerified(w), worker[w].row.status = "active"
  PROVE  Marks(w)
  BY DEF MarkVerified, Marks

\* A step of a worker.
StepOf(w) ==
  \/ Begins(w) \/ Writes(w) \/ Ends(w) \/ Marks(w) \/ Rotates(w)
  \/ \E s \in Sessions : Inserts(w, s)

\* Every step of the account is of one of these kinds.
LEMMA AccountKinds ==
  ASSUME AccountBase, [Next]_vars
  PROVE  Lapses \/ (\E w : CutsAll(w)) \/ \E w \in Workers : StepOf(w)
<1>1. ASSUME NEW w \in Workers, Register(w) \/ Login(w) \/ Change(w) \/ Dies(w)
      PROVE  StepOf(w) \/ CutsAll(w)
  <2>1. CASE CommitRegister(w)
    <3>1. At(w, "register")
      BY <2>1 DEF CommitRegister
    <3> QED
      BY <2>1, <3>1, Writers, Enders DEF StepOf
  <2>2. CASE MarkVerified(w)
    BY <2>2, Markers, Enders DEF StepOf
  <2>3. CASE \E s \in Sessions : InsertSession(w, s)
    BY <2>3, Inserters DEF StepOf
  <2>4. CASE Rotate(w) \/ CutSessions(w)
    BY <2>4, Rotaters, Cutters DEF StepOf
  <2>5. CASE IssueToken(w) \/ Dies(w)
    BY <2>5, Enders DEF StepOf
  <2>6. CASE CommitOverwrite(w) \/ CommitCode(w) \/ CommitLogin(w) \/ CommitVerify(w) \/ CommitPassword(w) \/ CommitSave(w)
    BY <2>6, Writers DEF StepOf
  <2>7. CASE \/ LoadRegister(w) \/ Resend(w) \/ LoginRight(w) \/ LoginWrong(w) \/ LoginCode(w) \/ LoadVerify(w)
             \/ LoadPassword(w) \/ SetupMfa(w) \/ VerifyMfa(w) \/ DisableMfa(w) \/ UpdateProfile(w)
             \/ \E s \in Sessions : LoadRefresh(w, s)
             \/ \E status \in {"active", "suspended"} : SetStatus(w, status)
    BY <2>7, Readers DEF StepOf
  <2> QED
    BY <1>1, <2>1, <2>2, <2>3, <2>4, <2>5, <2>6, <2>7 DEF Register, Login, Change
<1>2. CASE LogoutEverywhere
  BY <1>2, Cutters
<1> QED
  BY <1>1, <1>2, Lapsers DEF Next

\* The types, by their names.
Types ==
  /\ RowOK(account)
  /\ account.password = 0 => account = NoAccount /\ Live = {}
  /\ session \in [Sessions -> SessionRows]
  /\ token \in {"none", "fresh", "expired", "used"}
  /\ worker \in [Workers -> WorkerRows]
  /\ issued \in 0 .. MaxPassword
  /\ stale \subseteq Workers /\ cutOff \subseteq Workers
  /\ survivor \subseteq Sessions /\ overlapped \subseteq Sessions
  /\ lost \in BOOLEAN /\ uncut \in BOOLEAN
  /\ \A w \in Workers : worker[w].at \in {"rotate", "insert_again"} => worker[w].session \in Sessions

LEMMA TypesAre == (TypeOK <=> Types) /\ (TypeOK' <=> Types')
  BY DEF TypeOK, Types, RowOK, SessionRows, WorkerRows

\* Those whose label and copy stay are what they were.
LEMMA OthersStayOK ==
  ASSUME AccountBase, NEW w, NEW v \in Workers, v # w, OthersGoOn(w), issued' \in issued .. MaxPassword,
         \A s \in Sessions : session[s].state # "none" => session'[s].state # "none"
  PROVE  /\ CopyOK(v)' /\ SessionOK(v)'
         /\ worker[v].at \in {"idle", "register"} => worker'[v].at = worker[v].at
         /\ worker'[v].at \in {"rotate", "insert_again"} => worker'[v].session \in Sessions
<1>1. /\ CopyOK(v) /\ SessionOK(v) /\ issued \in 0 .. MaxPassword /\ worker[v] \in WorkerRows
      /\ worker[v].at \in {"rotate", "insert_again"} => worker[v].session \in Sessions
  BY DEF AccountBase, TypeOK, WorkerRows
<1>2. /\ worker'[v].row = worker[v].row /\ worker'[v].session = worker[v].session
      /\ \/ worker'[v].at = worker[v].at
         \/ worker[v].at = "verify" /\ worker'[v].at = "verify_old"
         \/ worker[v].at = "mark" /\ worker'[v].at = "mark_old"
  BY DEF OthersGoOn
<1>3. CopyOK(v)'
  BY <1>1, <1>2, LoginAssumption DEF CopyOK, Copying, RowOK, WorkerRows, Account
<1>4. SessionOK(v)'
  BY <1>1, <1>2 DEF SessionOK
<1> QED
  BY <1>1, <1>2, <1>3, <1>4

LEMMA AccountBaseStep ==
  ASSUME AccountBase, [Next]_vars
  PROVE  AccountBase'
<1> USE LoginAssumption
<1>0. /\ Types /\ account.password <= issued /\ \A v \in Workers : CopyOK(v) /\ SessionOK(v)
      /\ account.password = 0 => \A v \in Workers : worker[v].at \in {"idle", "register"}
  BY TypesAre DEF AccountBase
<1>w. /\ worker \in [Workers -> WorkerRows] /\ issued \in 0 .. MaxPassword /\ RowOK(account)
      /\ session \in [Sessions -> SessionRows] /\ account.password \in 0 .. MaxPassword
  BY <1>0 DEF Types, RowOK, Account
<1>e. ASSUME SessionsWane
      PROVE  /\ session' \in [Sessions -> SessionRows] /\ (Live = {} => Live' = {})
             /\ \A s \in Sessions : session[s].state # "none" => session'[s].state # "none"
  BY <1>e, <1>w DEF SessionsWane, Live
<1>1. CASE Lapses
  <2>1. UNCHANGED <<account, worker, stale, cutOff, issued, survivor, overlapped, lost, uncut>> /\ SessionsWane
        /\ token' \in {token, "expired"}
    BY <1>1 DEF Lapses, records
  <2>2. Types'
    BY <1>0, <1>e, <2>1 DEF Types
  <2>3. \A v \in Workers : CopyOK(v)' /\ SessionOK(v)'
    BY <1>0, <1>e, <2>1 DEF CopyOK, SessionOK
  <2> QED
    BY <1>0, <2>1, <2>2, <2>3, TypesAre DEF AccountBase
<1>2. ASSUME NEW w, CutsAll(w)
      PROVE  AccountBase'
  <2>1. /\ UNCHANGED <<account, token, issued, survivor, overlapped, lost>> /\ SessionsWane /\ Live' = {} /\ uncut' = FALSE
        /\ OthersGoOn(w) /\ cutOff' \subseteq Workers /\ stale' \in {stale, stale \ {w}}
        /\ worker'[w] = worker[w] \/ (worker'[w].at = "idle" /\ worker'[w].session = NoSession)
    BY <1>2 DEF CutsAll
  <2>2. issued' \in issued .. MaxPassword
    BY <1>w, <2>1
  <2>3. \A v \in Workers \ {w} :
          /\ CopyOK(v)' /\ SessionOK(v)'
          /\ worker[v].at \in {"idle", "register"} => worker'[v].at = worker[v].at
          /\ worker'[v].at \in {"rotate", "insert_again"} => worker'[v].session \in Sessions
    BY <1>e, <2>1, <2>2, OthersStayOK
  <2>4. w \in Workers =>
          /\ CopyOK(w)' /\ SessionOK(w)'
          /\ worker[w].at \in {"idle", "register"} => worker'[w].at \in {"idle", "register"}
          /\ worker'[w].at \in {"rotate", "insert_again"} => worker'[w].session \in Sessions
    BY <1>0, <1>e, <2>1 DEF CopyOK, SessionOK, Copying, Types
  <2>5. worker' \in [Workers -> WorkerRows]
    BY <2>1 DEF OthersGoOn
  <2>6. Types'
    BY <1>0, <1>e, <2>1, <2>3, <2>4, <2>5 DEF Types
  <2> QED
    BY <1>0, <2>1, <2>3, <2>4, <2>6, TypesAre DEF AccountBase
<1>3. ASSUME NEW w \in Workers, Begins(w)
      PROVE  AccountBase'
  <2>1. /\ worker[w].at = "idle" /\ OthersGoOn(w)
        /\ MayHold(worker'[w].at, worker'[w].row, worker'[w].session)
        /\ issued' \in issued .. MaxPassword
        /\ UNCHANGED <<account, session, token, stale, cutOff, survivor, overlapped, lost, uncut>>
    BY <1>0, <1>3, BeginsFacts, TypesAre
  <2>2. /\ CopyOK(w)' /\ SessionOK(w)'
        /\ worker'[w].at \in {"rotate", "insert_again"} => worker'[w].session \in Sessions
        /\ account.password = 0 => worker'[w].at = "register"
    BY <2>1 DEF CopyOK, SessionOK, MayHold, Live, Copying
  <2>3. \A v \in Workers \ {w} :
          /\ CopyOK(v)' /\ SessionOK(v)'
          /\ worker[v].at \in {"idle", "register"} => worker'[v].at = worker[v].at
          /\ worker'[v].at \in {"rotate", "insert_again"} => worker'[v].session \in Sessions
    BY <2>1, OthersStayOK
  <2>4. worker' \in [Workers -> WorkerRows]
    BY <2>1 DEF OthersGoOn
  <2>5. issued' \in 0 .. MaxPassword /\ account'.password <= issued' /\ Live' = Live
    BY <1>0, <1>w, <2>1 DEF Live
  <2>6. Types'
    BY <1>0, <2>1, <2>2, <2>3, <2>4, <2>5 DEF Types
  <2> QED
    BY <1>0, <2>1, <2>2, <2>3, <2>5, <2>6, TypesAre DEF AccountBase
<1>4. ASSUME NEW w \in Workers, Writes(w)
      PROVE  AccountBase'
  <2>1. /\ account' = worker[w].row /\ OthersGoOn(w)
        /\ stale' = {v \in Workers \ {w} : worker[v] # Idle}
        /\ Written(worker[w].at, worker'[w].at)
        /\ worker'[w].session = NoSession
        /\ worker'[w].at \in Copying => worker'[w].row = worker[w].row
        /\ token' \in {token, "none"} /\ cutOff' \subseteq cutOff
        /\ UNCHANGED <<session, issued, survivor, overlapped, uncut>>
    BY <1>4 DEF Writes, Save
  <2>2. lost' \in BOOLEAN
    <3>1. lost' = (lost \/ (w \in stale /\ <<worker[w].row.password, worker[w].row.verified>> # <<account.password, account.verified>>))
      BY <1>4, Zenon DEF Writes, Save
    <3>2. lost \in BOOLEAN
      BY <1>0 DEF Types
    <3> QED
      BY <3>1, <3>2, Zenon
  <2>3. worker[w].at \in Copying /\ worker[w].row.password \in 1 .. issued /\ RowOK(worker[w].row)
    BY <1>0, <2>1 DEF Written, Copying, CopyOK
  <2>4. issued' \in issued .. MaxPassword /\ account'.password # 0 /\ account'.password <= issued' /\ RowOK(account')
    BY <1>w, <2>1, <2>3
  <2>5. \A v \in Workers \ {w} :
          /\ CopyOK(v)' /\ SessionOK(v)'
          /\ worker'[v].at \in {"rotate", "insert_again"} => worker'[v].session \in Sessions
    BY <2>1, <2>4, OthersStayOK
  <2>6. /\ CopyOK(w)' /\ SessionOK(w)'
        /\ worker'[w].at \notin {"rotate", "insert_again"}
    BY <1>0, <2>1, <2>3 DEF CopyOK, SessionOK, Written, Copying
  <2>7. worker' \in [Workers -> WorkerRows] /\ stale' \subseteq Workers
    BY <2>1 DEF OthersGoOn
  <2>8. Types'
    BY <1>0, <2>1, <2>2, <2>4, <2>5, <2>6, <2>7 DEF Types
  <2> QED
    BY <2>4, <2>5, <2>6, <2>8, TypesAre DEF AccountBase
<1>5. ASSUME NEW w \in Workers, Ends(w)
      PROVE  AccountBase'
  <2>1. /\ worker'[w].at = "idle" /\ worker'[w].session = NoSession /\ OthersGoOn(w)
        /\ stale' = stale \ {w} /\ cutOff' = cutOff \ {w}
        /\ token' \in {token, "fresh", "used"}
        /\ uncut' \in {TRUE, uncut}
        /\ UNCHANGED <<account, session, issued, survivor, overlapped, lost>>
    BY <1>5 DEF Ends
  <2>2. issued' \in issued .. MaxPassword /\ Live' = Live
    BY <1>w, <2>1 DEF Live
  <2>3. \A v \in Workers \ {w} :
          /\ CopyOK(v)' /\ SessionOK(v)'
          /\ worker[v].at \in {"idle", "register"} => worker'[v].at = worker[v].at
          /\ worker'[v].at \in {"rotate", "insert_again"} => worker'[v].session \in Sessions
    BY <2>1, <2>2, OthersStayOK
  <2>4. CopyOK(w)' /\ SessionOK(w)'
    BY <2>1 DEF CopyOK, SessionOK, Copying
  <2>5. worker' \in [Workers -> WorkerRows]
    BY <2>1 DEF OthersGoOn
  <2>6. Types'
    BY <1>0, <2>1, <2>2, <2>3, <2>5 DEF Types
  <2> QED
    BY <1>0, <2>1, <2>3, <2>4, <2>6, TypesAre DEF AccountBase
<1>6. ASSUME NEW w \in Workers, Marks(w)
      PROVE  AccountBase'
  <2> DEFINE record == [worker[w] EXCEPT !.at = "login"]
  <2>1. /\ worker[w].at \in {"mark", "mark_old"} /\ worker' = [worker EXCEPT ![w] = record]
        /\ token' \in {token, "used"}
        /\ UNCHANGED <<account, session, stale, cutOff, issued, survivor, overlapped, lost, uncut>>
    BY <1>6 DEF Marks, GoTo, At, records
  <2>2. record \in WorkerRows /\ record.at = "login" /\ record.row = worker[w].row /\ record.session = worker[w].session
    BY <1>w DEF WorkerRows, Labels
  <2> HIDE DEF record
  <2>3. worker' \in [Workers -> WorkerRows] /\ worker'[w] = record /\ \A v \in Workers \ {w} : worker'[v] = worker[v]
    BY <1>w, <2>1, <2>2
  <2>4. \A v \in Workers : CopyOK(v)' /\ SessionOK(v)'
    BY <1>0, <2>1, <2>2, <2>3 DEF CopyOK, SessionOK, Copying
  <2>5. Live' = Live
    BY <2>1 DEF Live
  <2>6. Types'
    BY <1>0, <2>1, <2>2, <2>3, <2>5 DEF Types
  <2> QED
    BY <1>0, <2>1, <2>2, <2>3, <2>4, <2>6, TypesAre DEF AccountBase
<1>7. ASSUME NEW w \in Workers, Rotates(w)
      PROVE  AccountBase'
  <2>1. /\ worker[w].at = "rotate" /\ worker[w].session \in Sessions /\ SessionsWane /\ OthersGoOn(w)
        /\ worker'[w].session = worker[w].session /\ worker'[w].at \in {"insert", "insert_again"}
        /\ cutOff' \subseteq Workers
        /\ UNCHANGED <<account, token, stale, issued, survivor, overlapped, lost, uncut>>
    BY <1>7 DEF Rotates, At, records
  <2>2. issued' \in issued .. MaxPassword
    BY <1>w, <2>1
  <2>3. \A v \in Workers \ {w} :
          /\ CopyOK(v)' /\ SessionOK(v)'
          /\ worker[v].at \in {"idle", "register"} => worker'[v].at = worker[v].at
          /\ worker'[v].at \in {"rotate", "insert_again"} => worker'[v].session \in Sessions
    BY <1>e, <2>1, <2>2, OthersStayOK
  <2>4. CopyOK(w)' /\ SessionOK(w)'
    BY <1>0, <1>e, <2>1 DEF CopyOK, SessionOK, Copying
  <2>5. worker' \in [Workers -> WorkerRows]
    BY <2>1 DEF OthersGoOn
  <2>6. Types'
    BY <1>0, <1>e, <2>1, <2>3, <2>5 DEF Types
  <2> QED
    BY <1>0, <2>1, <2>3, <2>4, <2>6, TypesAre DEF AccountBase
<1>8. ASSUME NEW w \in Workers, NEW s \in Sessions, Inserts(w, s)
      PROVE  AccountBase'
  <2>1. /\ worker[w].at \in {"insert", "insert_again"}
        /\ session' \in [Sessions -> SessionRows]
        /\ session'[s].state = "live" /\ \A t \in Sessions \ {s} : session'[t] = session[t]
        /\ survivor' \subseteq Sessions /\ overlapped' \subseteq Sessions
        /\ worker'[w].at = "idle" /\ worker'[w].session = NoSession
        /\ OthersGoOn(w)
        /\ stale' = stale \ {w} /\ cutOff' = cutOff \ {w}
        /\ UNCHANGED <<account, token, issued, lost, uncut>>
    BY <1>8 DEF Inserts
  <2>2. issued' \in issued .. MaxPassword /\ account.password # 0
    BY <1>0, <1>w, <2>1
  <2>3. \A v \in Workers \ {w} :
          /\ CopyOK(v)' /\ SessionOK(v)'
          /\ worker'[v].at \in {"rotate", "insert_again"} => worker'[v].session \in Sessions
    BY <2>1, <2>2, OthersStayOK
  <2>4. CopyOK(w)' /\ SessionOK(w)'
    BY <2>1 DEF CopyOK, SessionOK, Copying
  <2>5. worker' \in [Workers -> WorkerRows]
    BY <2>1 DEF OthersGoOn
  <2>6. Types'
    BY <1>0, <2>1, <2>2, <2>3, <2>5 DEF Types
  <2> QED
    BY <1>0, <2>1, <2>2, <2>3, <2>4, <2>6, TypesAre DEF AccountBase
<1> QED
  BY <1>1, <1>2, <1>3, <1>4, <1>5, <1>6, <1>7, <1>8, AccountKinds DEF StepOf

\* A worker that is not the one at work.
LEMMA OthersGo ==
  ASSUME NEW w, OthersGoOn(w), NEW v \in Workers, v # w
  PROVE  /\ worker'[v].row = worker[v].row /\ worker'[v].session = worker[v].session
         /\ \/ worker'[v].at = worker[v].at
            \/ worker[v].at = "verify" /\ worker'[v].at = "verify_old"
            \/ worker[v].at = "mark" /\ worker'[v].at = "mark_old"
  BY DEF OthersGoOn

LEMMA FreshStep ==
  ASSUME AccountBase, CopiesAreFresh, [Next]_vars
  PROVE  CopiesAreFresh'
<1> USE DEF CopiesAreFresh
<1>1. CASE Lapses
  BY <1>1 DEF Lapses, Fresh
<1>2. ASSUME NEW w, OthersGoOn(w), account' = account, stale' \in {stale, stale \ {w}}, NEW v \in Workers, v # w
      PROVE  Fresh(v)'
  BY <1>2, OthersGo DEF Fresh, Copying, Setting
<1>3. ASSUME NEW w, CutsAll(w) PROVE CopiesAreFresh'
  <2>1. w \in Workers => Fresh(w)'
    BY <1>3 DEF CutsAll, Fresh, Copying
  <2> QED
    BY <1>2, <1>3, <2>1 DEF CutsAll
<1>4. ASSUME NEW w \in Workers, Begins(w) PROVE CopiesAreFresh'
  <2>1. /\ OthersGoOn(w) /\ MayHold(worker'[w].at, worker'[w].row, worker'[w].session)
        /\ UNCHANGED <<account, session, token, stale, cutOff, survivor, overlapped, lost, uncut>>
    BY <1>4, BeginsFacts DEF AccountBase
  <2>2. Fresh(w)'
    BY <2>1 DEF Fresh, MayHold
  <2> QED
    BY <1>2, <2>1, <2>2
<1>5. ASSUME NEW w \in Workers, Writes(w) PROVE CopiesAreFresh'
  <2>1. /\ account' = worker[w].row /\ OthersGoOn(w)
        /\ stale' = {v \in Workers \ {w} : worker[v] # Idle}
        /\ Written(worker[w].at, worker'[w].at)
        /\ worker'[w].at \in Copying => worker'[w].row = worker[w].row
    BY <1>5 DEF Writes, Save
  <2>2. Fresh(w)'
    BY <2>1 DEF Fresh, Written, Copying, Setting
  <2>3. \A v \in Workers \ {w} : worker'[v].at \in Copying => v \in stale'
    BY <2>1, OthersGo DEF Copying, Idle
  <2> QED
    BY <2>2, <2>3 DEF Fresh
<1>6. ASSUME NEW w \in Workers, Ends(w) PROVE CopiesAreFresh'
  <2>1. Fresh(w)'
    BY <1>6 DEF Ends, Fresh, Copying
  <2> QED
    BY <1>2, <1>6, <2>1 DEF Ends
<1>7. ASSUME NEW w \in Workers, Marks(w) PROVE CopiesAreFresh'
  <2>1. /\ worker[w].at \in {"mark", "mark_old"} /\ worker' = [worker EXCEPT ![w].at = "login"]
        /\ UNCHANGED <<account, stale>>
    BY <1>7 DEF Marks, GoTo, At, records
  <2>2. /\ worker'[w].at = "login" /\ worker'[w].row = worker[w].row
        /\ \A v \in Workers \ {w} : worker'[v] = worker[v]
    BY <2>1 DEF AccountBase, TypeOK
  <2> QED
    BY <2>1, <2>2 DEF Fresh, Copying, Setting
<1>8. ASSUME NEW w \in Workers, Rotates(w) PROVE CopiesAreFresh'
  <2>1. worker'[w].at \notin Copying
    BY <1>8 DEF Rotates, Copying
  <2>2. Fresh(w)'
    BY <2>1 DEF Fresh
  <2> QED
    BY <1>2, <1>8, <2>2 DEF Rotates
<1>9. ASSUME NEW w \in Workers, NEW s \in Sessions, Inserts(w, s) PROVE CopiesAreFresh'
  <2>1. Fresh(w)'
    BY <1>9 DEF Inserts, Fresh, Copying
  <2> QED
    BY <1>2, <1>9, <2>1 DEF Inserts
<1> QED
  BY <1>1, <1>3, <1>4, <1>5, <1>6, <1>7, <1>8, <1>9, AccountKinds DEF StepOf

\* v is not about to insert what it was not about to insert before.
NothingNew(v) ==
  \A f \in Sessions : (InsertsFrom(v, f)' => InsertsFrom(v, f)) /\ (Exchanges(v, f)' => Exchanges(v, f))

\* A session that is inserted keeps the exchange, and so does whatever else leaves who inserts
\* from where alone.
LEMMA ExchangeKept ==
  ASSUME AccountBase, ExchangeInv, SessionsWane, overlapped' = overlapped,
         \A v \in Workers : NothingNew(v)
  PROVE  ExchangeInv'
  BY DEF ExchangeInv, SessionsWane, NothingNew

LEMMA ExchangeStep ==
  ASSUME AccountBase, ExchangeInv, [Next]_vars
  PROVE  ExchangeInv'
<1>0. session \in [Sessions -> SessionRows] /\ NoSession \notin Sessions /\ overlapped \subseteq Sessions
  BY LoginAssumption DEF AccountBase, TypeOK, SessionRows
<1>1. ASSUME NEW w, OthersGoOn(w), NEW v \in Workers, v # w
      PROVE  NothingNew(v)
  BY <1>1, OthersGo DEF NothingNew, InsertsFrom, Exchanges
<1>2. ASSUME UNCHANGED session PROVE SessionsWane
  BY <1>0, <1>2 DEF SessionsWane
<1>3. CASE Lapses
  <2>1. SessionsWane /\ overlapped' = overlapped /\ worker' = worker
    BY <1>3 DEF Lapses, records
  <2>2. \A v \in Workers : NothingNew(v)
    BY <2>1 DEF NothingNew, InsertsFrom, Exchanges
  <2> QED
    BY <2>1, <2>2, ExchangeKept
<1>4. ASSUME NEW w, CutsAll(w) PROVE ExchangeInv'
  <2>1. /\ SessionsWane /\ overlapped' = overlapped /\ OthersGoOn(w)
        /\ worker'[w] = worker[w] \/ worker'[w].at = "idle"
    BY <1>4 DEF CutsAll
  <2>2. NothingNew(w)
    BY <2>1 DEF NothingNew, InsertsFrom, Exchanges
  <2>3. \A v \in Workers : NothingNew(v)
    BY <1>1, <2>1, <2>2
  <2> QED
    BY <2>1, <2>3, ExchangeKept
<1>5. ASSUME NEW w \in Workers, OthersGoOn(w), UNCHANGED <<session, overlapped>>,
             worker'[w].at \notin {"insert", "insert_again"} \/ worker'[w].session = NoSession
      PROVE  ExchangeInv'
  <2>1. NothingNew(w)
    BY <1>0, <1>5 DEF NothingNew, InsertsFrom, Exchanges
  <2>2. \A v \in Workers : NothingNew(v)
    BY <1>1, <1>5, <2>1
  <2> QED
    BY <1>2, <1>5, <2>2, ExchangeKept
<1>6. ASSUME NEW w \in Workers, Begins(w) PROVE ExchangeInv'
  <2>1. /\ OthersGoOn(w) /\ UNCHANGED <<session, overlapped>>
        /\ MayHold(worker'[w].at, worker'[w].row, worker'[w].session)
    BY <1>6, BeginsFacts DEF AccountBase
  <2> QED
    BY <1>5, <2>1 DEF MayHold
<1>7. ASSUME NEW w \in Workers, Writes(w) \/ Ends(w) PROVE ExchangeInv'
  BY <1>5, <1>7 DEF Writes, Ends
<1>8. ASSUME NEW w \in Workers, Marks(w) PROVE ExchangeInv'
  <2>1. /\ worker' = [worker EXCEPT ![w].at = "login"] /\ UNCHANGED <<session, overlapped>>
    BY <1>8 DEF Marks, GoTo, records
  <2>2. \A v \in Workers : NothingNew(v)
    BY <2>1 DEF NothingNew, InsertsFrom, Exchanges, AccountBase, TypeOK
  <2> QED
    BY <1>2, <2>1, <2>2, ExchangeKept
<1>9. ASSUME NEW w \in Workers, Rotates(w) PROVE ExchangeInv'
  <2> DEFINE g == worker[w].session
  <2>1. /\ g \in Sessions /\ SessionsWane /\ session'[g].state # "live" /\ OthersGoOn(w)
        /\ worker'[w].session = g /\ overlapped' = overlapped
        /\ worker'[w].at = IF g \in Live THEN "insert" ELSE "insert_again"
    BY <1>9 DEF Rotates, records
  <2> HIDE DEF g
  <2>2. \A v \in Workers \ {w} : NothingNew(v)
    BY <1>1, <2>1
  <2>3. \A f \in Sessions :
          /\ InsertsFrom(w, f)' => f = g /\ session[g].state = "live"
          /\ Exchanges(w, f)' => f = g
    BY <2>1 DEF InsertsFrom, Exchanges, Live
  <2>4. session[g].state # "none"
    BY <2>1 DEF AccountBase, SessionOK, g
  <2>5. session[g].state = "live" =>
          /\ \A v \in Workers : ~InsertsFrom(v, g)
          /\ \A t \in Sessions : session[t].from # g
    BY <2>1 DEF ExchangeInv, InsertsFrom, Exchanges
  <2>6. session'[g].state = "revoked"
    BY <1>0, <2>1, <2>4 DEF SessionsWane, SessionRows
  <2> QED
    BY <2>1, <2>2, <2>3, <2>5, <2>6 DEF ExchangeInv, SessionsWane, NothingNew
<1>10. ASSUME NEW w \in Workers, NEW s \in Sessions, Inserts(w, s) PROVE ExchangeInv'
  <2> DEFINE g == worker[w].session
  <2>1. /\ worker[w].at \in {"insert", "insert_again"} /\ g \in Sessions \cup {NoSession}
        /\ session[s].state = "none" /\ session[s].from = NoSession
        /\ session'[s].state = "live" /\ session'[s].from = g
        /\ \A t \in Sessions \ {s} : session'[t] = session[t]
        /\ overlapped \subseteq overlapped' /\ (worker[w].at = "insert_again" => s \in overlapped')
        /\ worker'[w].at = "idle" /\ OthersGoOn(w)
    BY <1>10 DEF Inserts, NoRow, AccountBase, TypeOK
  <2>2. worker[w].at = "insert" /\ g \in Sessions => InsertsFrom(w, g)
    BY <2>1 DEF InsertsFrom
  <2>3. worker[w].at = "insert_again" => g \in Sessions
    BY DEF AccountBase, TypeOK
  <2>4. g \in Sessions => session[g].state = "revoked"
    BY <2>1 DEF ExchangeInv, Exchanges
  <2> HIDE DEF g
  <2>5. /\ \A v \in Workers \ {w} : NothingNew(v)
        /\ \A f \in Sessions : ~InsertsFrom(w, f)' /\ ~Exchanges(w, f)'
    BY <1>1, <2>1 DEF InsertsFrom, Exchanges
  <2>6. \A f \in Sessions : f # s /\ session[f].state = "revoked" => session'[f].state = "revoked"
    BY <2>1
  <2> QED
    BY <2>1, <2>2, <2>3, <2>4, <2>5, <2>6 DEF ExchangeInv, NothingNew
<1> QED
  BY <1>3, <1>4, <1>6, <1>7, <1>8, <1>9, <1>10, AccountKinds DEF StepOf

\* A copy that is written takes back neither a password nor a verified address, while no stale
\* one has: only registrations and changes of the password set one, and a second registration
\* is of an address that was not verified.
LEMMA WritesKeep ==
  ASSUME AccountBase, CopiesAreFresh, NEW w \in Workers, Writes(w), ~lost'
  PROVE  /\ ~lost
         /\ account.verified => account'.verified
         /\ \/ account'.password = account.password
            \/ worker[w].at = "password"
            \/ worker[w].at \in {"register", "overwrite"} /\ ~account.verified
<1>1. /\ account' = worker[w].row /\ Written(worker[w].at, worker'[w].at)
      /\ ~lost /\ (w \notin stale \/ <<worker[w].row.password, worker[w].row.verified>> = <<account.password, account.verified>>)
  BY DEF Writes, Save
<1>2. CopyOK(w) /\ Fresh(w)
  BY DEF AccountBase, CopiesAreFresh
<1>3. CASE w \in stale
  BY <1>1, <1>3
<1>4. CASE w \notin stale
  BY <1>1, <1>2, <1>4 DEF CopyOK, Fresh, Written, Copying, Setting
<1> QED
  BY <1>3, <1>4

\* Nobody has entered yet.
LEMMA VerifiedFirstStep ==
  ASSUME AccountBase, CopiesAreFresh, VerifiedFirst, [Next]_vars
  PROVE  VerifiedFirst'
<1> USE DEF VerifiedFirst
<1>1. ASSUME NEW w, OthersGoOn(w), NEW v \in Workers, v # w, worker[v].at \notin Entering
      PROVE  worker'[v].at \notin Entering \/ (worker[v].at = "mark" /\ worker'[v].at = "mark_old")
  BY <1>1, OthersGo DEF Entering
<1>2. ASSUME NEW w, OthersGoOn(w), NEW v \in Workers, v # w, worker[v].at \notin Entering
      PROVE  worker'[v].at \notin Entering
  BY <1>1, <1>2 DEF Entering
<1>3. ASSUME SessionsWane PROVE Live = {} => Live' = {}
  BY <1>3 DEF SessionsWane, Live
<1>4. CASE Lapses
  <2>1. /\ SessionsWane /\ token' \in {token, "expired"} /\ UNCHANGED <<account, worker, lost>>
    BY <1>4 DEF Lapses, records
  <2> QED
    BY <1>3, <2>1 DEF NobodyEnters
<1>5. ASSUME NEW w, CutsAll(w) PROVE VerifiedFirst'
  <2>1. /\ SessionsWane /\ OthersGoOn(w) /\ UNCHANGED <<account, token, lost>>
        /\ worker'[w] = worker[w] \/ worker'[w].at = "idle"
    BY <1>5 DEF CutsAll
  <2> QED
    BY <1>2, <1>3, <2>1 DEF NobodyEnters, Entering
<1>6. ASSUME NEW w \in Workers, Begins(w) PROVE VerifiedFirst'
  <2>1. /\ OthersGoOn(w) /\ UNCHANGED <<account, session, token, lost>>
        /\ MayHold(worker'[w].at, worker'[w].row, worker'[w].session)
    BY <1>6, BeginsFacts DEF AccountBase
  <2>2. NobodyEnters /\ ~account.verified => worker'[w].at \notin Entering
    BY <2>1 DEF MayHold, NobodyEnters, Entering
  <2> QED
    BY <1>2, <2>1, <2>2 DEF NobodyEnters, Live
<1>7. ASSUME NEW w \in Workers, Writes(w) PROVE VerifiedFirst'
  <2> SUFFICES ASSUME ~lost', ~account'.verified PROVE NobodyEnters'
    OBVIOUS
  <2>1. ~lost /\ ~account.verified
    BY <1>7, WritesKeep
  <2>2. NobodyEnters
    BY <2>1
  <2>3. /\ account' = worker[w].row /\ OthersGoOn(w) /\ Written(worker[w].at, worker'[w].at)
        /\ token' \in {token, "none"} /\ session' = session
    BY <1>7 DEF Writes, Save
  <2>4. worker[w].at \notin {"verify", "verify_old"}
    BY <2>3 DEF AccountBase, CopyOK
  <2>5. worker'[w].at \notin Entering
    BY <2>2, <2>3, <2>4 DEF NobodyEnters, Written, Entering
  <2> QED
    BY <1>2, <2>2, <2>3, <2>5 DEF NobodyEnters, Live
<1>8. ASSUME NEW w \in Workers, Ends(w) PROVE VerifiedFirst'
  <2>1. /\ OthersGoOn(w) /\ worker'[w].at = "idle" /\ UNCHANGED <<account, session, lost>>
        /\ token' \in {token, "fresh"} \/ (token' = "used" /\ At(w, "mark"))
    BY <1>8 DEF Ends
  <2>2. NobodyEnters => token' # "used"
    BY <2>1 DEF NobodyEnters, Entering, At
  <2> QED
    BY <1>2, <2>1, <2>2 DEF NobodyEnters, Live, Entering
<1>9. ASSUME NEW w \in Workers, Marks(w) PROVE VerifiedFirst'
  <2>1. ~NobodyEnters /\ UNCHANGED <<account, lost>>
    BY <1>9 DEF Marks, NobodyEnters, Entering, At, records
  <2> QED
    BY <2>1
<1>10. ASSUME NEW w \in Workers, Rotates(w) PROVE VerifiedFirst'
  <2>1. ~NobodyEnters /\ UNCHANGED <<account, lost>>
    BY <1>10 DEF Rotates, NobodyEnters, Entering, At, records
  <2> QED
    BY <2>1
<1>11. ASSUME NEW w \in Workers, NEW s \in Sessions, Inserts(w, s) PROVE VerifiedFirst'
  <2>1. ~NobodyEnters /\ UNCHANGED <<account, lost>>
    BY <1>11 DEF Inserts, NobodyEnters, Entering
  <2> QED
    BY <2>1
<1> QED
  BY <1>4, <1>5, <1>6, <1>7, <1>8, <1>9, <1>10, <1>11, AccountKinds DEF StepOf

\* Sessions that only wane stay up to date, and so does a worker that goes on as it was.
LEMMA StaysUpToDate ==
  ASSUME AccountBase, UpToDate, SessionsWane, account'.password = account.password, survivor' = survivor,
         NEW w, OthersGoOn(w), cutOff \ {w} \subseteq cutOff', w \in Workers => EntersUpToDate(w)'
  PROVE  UpToDate'
<1>1. \A s \in Live' \ survivor' : s \in Live \ survivor /\ session'[s].password = session[s].password
  BY DEF Live, SessionsWane
<1>2. ASSUME NEW v \in Workers \ {w} PROVE EntersUpToDate(v)'
  <2>1. worker'[v].row = worker[v].row /\ worker'[v].session = worker[v].session
        /\ (worker'[v].at \in {"rotate", "insert", "insert_again"} => worker'[v].at = worker[v].at)
    BY <1>2, OthersGo
  <2>2. EntersUpToDate(v) /\ worker[v].session \in Sessions \cup {NoSession}
        /\ (worker[v].at = "rotate" => worker[v].session \in Sessions)
    BY DEF UpToDate, AccountBase, TypeOK
  <2>3. \A s \in Sessions : session'[s].password = session[s].password
    BY DEF SessionsWane
  <2> QED
    BY <2>1, <2>2, <2>3 DEF EntersUpToDate
<1> QED
  BY <1>1, <1>2 DEF UpToDate

LEMMA CutStep ==
  ASSUME AccountBase, CopiesAreFresh, VerifiedFirst, CutInv, [Next]_vars
  PROVE  CutInv'
<1> USE DEF CutInv
<1>0. session \in [Sessions -> SessionRows]
  BY DEF AccountBase, TypeOK, SessionRows
<1>1. ASSUME UNCHANGED session PROVE SessionsWane
  BY <1>0, <1>1 DEF SessionsWane
<1>2. ASSUME NEW w, OthersGoOn(w), NEW v \in Workers, v # w
      PROVE  At(v, "cut") <=> At(v, "cut")'
  BY <1>2, OthersGo DEF At
<1>3. ASSUME NEW w \in Workers, worker'[w].at \notin {"rotate", "insert", "insert_again"}
      PROVE  EntersUpToDate(w)'
  BY <1>3 DEF EntersUpToDate
<1>4. CASE Lapses
  <2>1. SessionsWane /\ UNCHANGED <<account, worker, cutOff, survivor, lost, uncut>>
    BY <1>4 DEF Lapses, records
  <2>2. UpToDate => UpToDate'
    <3>1. \A s \in Live' \ survivor' : s \in Live \ survivor /\ session'[s].password = session[s].password
      BY <2>1 DEF Live, SessionsWane
    <3>2. \A v \in Workers : EntersUpToDate(v) => EntersUpToDate(v)'
      <4>1. \A s \in Sessions : session'[s].password = session[s].password
        BY <2>1 DEF SessionsWane
      <4>2. \A v \in Workers : worker[v].session \in Sessions \cup {NoSession}
                /\ (worker[v].at = "rotate" => worker[v].session \in Sessions)
        BY DEF AccountBase, TypeOK
      <4> QED
        BY <2>1, <4>1, <4>2 DEF EntersUpToDate
    <3> QED
      BY <2>1, <3>1, <3>2 DEF UpToDate
  <2> QED
    BY <2>1, <2>2 DEF Cutting, At
<1>5. ASSUME NEW w, CutsAll(w) PROVE CutInv'
  <2>1. Live' = {} /\ \A v \in Workers : worker'[v].at # "idle" => v \in cutOff'
    BY <1>5 DEF CutsAll
  <2>2. UpToDate'
    BY <2>1 DEF UpToDate, EntersUpToDate
  <2> QED
    BY <2>2
<1>6. ASSUME NEW w \in Workers, Begins(w) PROVE CutInv'
  <2>1. /\ worker[w].at = "idle" /\ OthersGoOn(w)
        /\ MayHold(worker'[w].at, worker'[w].row, worker'[w].session)
        /\ UNCHANGED <<account, session, cutOff, survivor, lost, uncut>>
    BY <1>6, BeginsFacts DEF AccountBase
  <2>2. UpToDate => EntersUpToDate(w)'
    BY <2>1 DEF UpToDate, EntersUpToDate, MayHold
  <2>3. UpToDate => UpToDate'
    BY <1>1, <2>1, <2>2, StaysUpToDate
  <2>4. Cutting => Cutting'
    BY <1>2, <2>1 DEF Cutting, At
  <2> QED
    BY <2>1, <2>3, <2>4
<1>7. ASSUME NEW w \in Workers, Writes(w) PROVE CutInv'
  <2> SUFFICES ASSUME ~lost', ~uncut', ~Cutting' PROVE UpToDate'
    OBVIOUS
  <2>1. /\ account' = worker[w].row /\ OthersGoOn(w) /\ Written(worker[w].at, worker'[w].at)
        /\ worker'[w].session = NoSession
        /\ worker'[w].at = "insert" => worker'[w].row.password = worker[w].row.password
        /\ worker[w].at = "register" => account.password = 0
        /\ cutOff \ {w} \subseteq cutOff' /\ UNCHANGED <<session, survivor, uncut>>
    BY <1>7 DEF Writes, Save
  <2>2. ~At(w, "cut") /\ worker[w].at # "password"
    BY <2>1 DEF Written, Cutting, At
  <2>3. ~Cutting /\ ~uncut
    BY <1>2, <2>1, <2>2 DEF Cutting
  <2>4. ~lost /\ (account'.password = account.password \/ (worker[w].at \in {"register", "overwrite"} /\ ~account.verified))
    BY <1>7, <2>2, WritesKeep
  <2>5. UpToDate
    BY <2>3, <2>4
  <2>6. CopyOK(w) /\ worker[w].row.password \in Int
    <3>1. CopyOK(w) /\ issued \in Int
      BY DEF AccountBase, TypeOK
    <3> QED
      BY <2>1, <3>1 DEF CopyOK, Written, Copying
  <2>7. EntersUpToDate(w)'
    BY <2>1, <2>6 DEF EntersUpToDate, Written
  <2>8. CASE account'.password = account.password
    BY <1>1, <2>1, <2>5, <2>7, <2>8, StaysUpToDate
  <2>9. CASE worker[w].at \in {"register", "overwrite"} /\ ~account.verified
    <3>1. NobodyEnters
      BY <2>4, <2>9 DEF VerifiedFirst
    <3>2. Live' = {}
      BY <2>1, <3>1 DEF NobodyEnters, Live
    <3>3. \A v \in Workers \ {w} : worker'[v].at \notin {"rotate", "insert", "insert_again"}
      BY <2>1, <3>1, OthersGo DEF NobodyEnters, Entering
    <3> QED
      BY <1>3, <2>7, <3>2, <3>3 DEF UpToDate
  <2> QED
    BY <2>4, <2>8, <2>9
<1>8. ASSUME NEW w \in Workers, Ends(w) PROVE CutInv'
  <2>1. /\ OthersGoOn(w) /\ worker'[w].at = "idle" /\ UNCHANGED <<account, session, survivor, lost>>
        /\ cutOff' = cutOff \ {w}
        /\ IF At(w, "cut") THEN uncut' = TRUE ELSE uncut' = uncut
    BY <1>8 DEF Ends
  <2>2. EntersUpToDate(w)'
    BY <1>3, <2>1
  <2>3. UpToDate => UpToDate'
    BY <1>1, <2>1, <2>2, StaysUpToDate
  <2>4. Cutting => Cutting' \/ uncut'
    BY <1>2, <2>1 DEF Cutting
  <2> QED
    BY <2>1, <2>3, <2>4
<1>9. ASSUME NEW w \in Workers, Marks(w) PROVE CutInv'
  <2>1. /\ worker' = [worker EXCEPT ![w].at = "login"] /\ worker[w].at \in {"mark", "mark_old"}
        /\ UNCHANGED <<account, session, cutOff, survivor, lost, uncut>>
    BY <1>9 DEF Marks, GoTo, At, records
  <2>2. \A v \in Workers : worker'[v].at = "login" \/ worker'[v] = worker[v]
    BY <2>1 DEF AccountBase, TypeOK
  <2>3. UpToDate => UpToDate'
    BY <2>1, <2>2 DEF UpToDate, EntersUpToDate, Live
  <2>4. Cutting => Cutting'
    BY <2>1 DEF Cutting, At, AccountBase, TypeOK
  <2> QED
    BY <2>1, <2>3, <2>4
<1>10. ASSUME NEW w \in Workers, Rotates(w) PROVE CutInv'
  <2>1. /\ worker[w].at = "rotate" /\ worker[w].session \in Sessions
        /\ SessionsWane /\ OthersGoOn(w)
        /\ worker'[w].session = worker[w].session
        /\ worker'[w].at \in {"insert", "insert_again"}
        /\ cutOff \subseteq cutOff' /\ (worker[w].session \in survivor => w \in cutOff')
        /\ UNCHANGED <<account, survivor, lost, uncut>>
    BY <1>10 DEF Rotates, At, records
  <2>2. UpToDate => EntersUpToDate(w)'
    <3>1. session'[worker[w].session].password = session[worker[w].session].password
      BY <2>1 DEF SessionsWane
    <3> QED
      BY <2>1, <3>1, LoginAssumption DEF UpToDate, EntersUpToDate
  <2>3. UpToDate => UpToDate'
    BY <2>1, <2>2, StaysUpToDate
  <2>4. Cutting => Cutting'
    BY <1>2, <2>1 DEF Cutting, At
  <2> QED
    BY <2>1, <2>3, <2>4
<1>11. ASSUME NEW w \in Workers, NEW s \in Sessions, Inserts(w, s) PROVE CutInv'
  <2>1. /\ worker[w].at \in {"insert", "insert_again"}
        /\ session[s].state = "none"
        /\ session'[s].password = IF worker[w].session = NoSession THEN worker[w].row.password
                                  ELSE session[worker[w].session].password
        /\ \A t \in Sessions \ {s} : session'[t] = session[t]
        /\ survivor \subseteq survivor' /\ (w \in cutOff => s \in survivor')
        /\ worker'[w].at = "idle" /\ OthersGoOn(w)
        /\ cutOff' = cutOff \ {w}
        /\ UNCHANGED <<account, lost, uncut>>
    BY <1>11 DEF Inserts, NoRow
  <2>2. Cutting => Cutting'
    BY <1>2, <2>1 DEF Cutting, At
  <2>3. ASSUME UpToDate PROVE UpToDate'
    <3>1. EntersUpToDate(w)
      BY <2>3 DEF UpToDate
    <3>2. s \notin survivor' => session'[s].password >= account'.password
      BY <2>1, <3>1 DEF EntersUpToDate
    <3>3. \A t \in Live' \ survivor' : session'[t].password >= account'.password
      BY <2>1, <2>3, <3>2 DEF UpToDate, Live
    <3>4. ASSUME NEW v \in Workers \ {w} PROVE EntersUpToDate(v)'
      <4>1. worker'[v].row = worker[v].row /\ worker'[v].session = worker[v].session
            /\ (worker'[v].at \in {"rotate", "insert", "insert_again"} => worker'[v].at = worker[v].at)
        BY <2>1, <3>4, OthersGo
      <4>2. /\ EntersUpToDate(v) /\ worker[v].session \in Sessions \cup {NoSession}
            /\ worker[v].at = "rotate" => worker[v].session \in Sessions
            /\ worker[v].session # s
        BY <2>1, <2>3, LoginAssumption DEF UpToDate, AccountBase, TypeOK, SessionOK
      <4> QED
        BY <2>1, <4>1, <4>2 DEF EntersUpToDate
    <3>5. EntersUpToDate(w)'
      BY <1>3, <2>1
    <3> QED
      BY <3>3, <3>4, <3>5 DEF UpToDate
  <2> QED
    BY <2>1, <2>2, <2>3
<1> QED
  BY <1>4, <1>5, <1>6, <1>7, <1>8, <1>9, <1>10, <1>11, AccountKinds DEF StepOf

LEMMA AccountStarts == ASSUME Init PROVE AccountInv
<1> USE LoginAssumption
<1>1. /\ account = NoAccount /\ session = [s \in Sessions |-> NoRow] /\ token = "none"
      /\ worker = [w \in Workers |-> Idle] /\ issued = 0
      /\ stale = {} /\ cutOff = {} /\ survivor = {} /\ overlapped = {} /\ lost = FALSE /\ uncut = FALSE
  BY DEF Init
<1>2. /\ RowOK(NoAccount) /\ NoAccount.password = 0
      /\ Live = {} /\ \A w \in Workers : worker[w].at = "idle" /\ worker[w].session = NoSession
  BY <1>1 DEF RowOK, NoAccount, Account, Live, NoRow, Idle
<1>3. Idle \in WorkerRows /\ NoRow \in SessionRows
  BY <1>2 DEF WorkerRows, Idle, Labels, RowOK, SessionRows, NoRow
<1>4. Types
  <2>1. session \in [Sessions -> SessionRows] /\ worker \in [Workers -> WorkerRows]
    BY <1>1, <1>3
  <2>2. \A w \in Workers : worker[w].at \notin {"rotate", "insert_again"}
    BY <1>2
  <2>3. issued \in 0 .. MaxPassword
    BY <1>1
  <2> QED
    BY <1>1, <1>2, <2>1, <2>2, <2>3 DEF Types
<1>5. AccountBase
  BY <1>1, <1>2, <1>4, TypesAre DEF AccountBase, CopyOK, SessionOK, Copying
<1>6. CopiesAreFresh /\ NobodyEnters
  BY <1>1, <1>2 DEF CopiesAreFresh, Fresh, Copying, NobodyEnters, Entering
<1>7. ExchangeInv
  BY <1>1, <1>2 DEF ExchangeInv, Exchanges, InsertsFrom, NoRow
<1>8. UpToDate
  BY <1>2 DEF UpToDate, EntersUpToDate
<1> QED
  BY <1>5, <1>6, <1>7, <1>8 DEF AccountInv, VerifiedFirst, CutInv

LEMMA AccountStep == ASSUME AccountInv, [Next]_vars PROVE AccountInv'
  BY AccountBaseStep, FreshStep, ExchangeStep, VerifiedFirstStep, CutStep DEF AccountInv

\* A token is exchanged once, and a session of an earlier password does not go on.
LEMMA AccountIsSound == ASSUME AccountInv PROVE TokenIsExchangedOnce /\ OldPasswordHasNoSession
<1>1. TokenIsExchangedOnce
  <2> SUFFICES ASSUME NEW s \in Sessions \ overlapped, NEW t \in Sessions \ overlapped,
                      s # t, session[s].from = session[t].from, session[s].from # NoSession
               PROVE  FALSE
    BY DEF TokenIsExchangedOnce
  <2>1. session[s].from \in Sessions
    BY DEF AccountInv, AccountBase, TypeOK
  <2> QED
    BY <2>1 DEF AccountInv, ExchangeInv
<1>2. OldPasswordHasNoSession
  BY DEF AccountInv, CutInv, Cutting, UpToDate, OldPasswordHasNoSession
<1> QED
  BY <1>1, <1>2

\* Only a stale copy takes something back.
LEMMA OnlyStaleReverts ==
  ASSUME AccountInv, [Next]_vars
  PROVE  [\/ account'.password < account.password
          \/ account.verified /\ ~account'.verified
          \/ account.mfa = "on" /\ account'.codes \ account.codes # {}
          => \E w \in Workers : worker[w] # worker'[w] /\ (w \in stale \/ At(w, "enable"))]_vars
<1> SUFFICES ASSUME \/ account'.password < account.password
                    \/ account.verified /\ ~account'.verified
                    \/ account'.codes \ account.codes # {}
             PROVE  \E w \in Workers : worker[w] # worker'[w] /\ (w \in stale \/ At(w, "enable"))
  OBVIOUS
<1>1. account' # account /\ account.password \in Int /\ issued \in Int
  BY LoginAssumption DEF AccountInv, AccountBase, TypeOK, Account
<1>2. PICK w \in Workers : StepOf(w)
  BY <1>1, AccountKinds DEF AccountInv, Lapses, CutsAll
<1>3. Writes(w)
  <2>1. ~Begins(w)
    BY <1>1, BeginsFacts DEF AccountInv, AccountBase
  <2> QED
    BY <1>1, <1>2, <2>1 DEF StepOf, Ends, Marks, Rotates, Inserts
<1>4. account' = worker[w].row /\ Written(worker[w].at, worker'[w].at) /\ CopyOK(w) /\ Fresh(w)
  BY <1>3 DEF Writes, Save, AccountInv, AccountBase, CopiesAreFresh
<1>5. worker[w].at # worker'[w].at
  BY <1>4 DEF Written
<1>6. w \in stale \/ At(w, "enable")
  <2>1. worker[w].row.password \in Int
    BY <1>1, <1>4 DEF CopyOK, Written, Copying
  <2> QED
    BY <1>1, <1>4, <2>1 DEF CopyOK, Fresh, Written, Copying, Setting, At
<1> QED
  BY <1>5, <1>6

-----------------------------------------------------------------------------
(* The three together.                                                     *)

IamInv == AccountInv /\ GarageInv /\ RosterInv

LEMMA IamStep == ASSUME IamInv, [IamNext]_<<vars, garage, roster, part>> PROVE IamInv'
<1>1. [Next]_vars /\ [GarageNext]_garage /\ [RosterNext]_roster
  BY DEF IamNext
<1> QED
  BY <1>1, AccountStep, GarageStep, RosterStep DEF IamInv

\* The account's rows fit together (Fresh, ExchangeInv, CutInv), and so do those of the vehicles
\* and of the roster, whatever requests are at work at once.
THEOREM IamInvariant == IamSpec => []IamInv
<1>1. IamInit => IamInv
  BY AccountStarts, GarageStarts, RosterStarts DEF IamInit, IamInv
<1> QED
  BY <1>1, IamStep, PTL DEF IamSpec

\* All tables of iam-service have their types, for any number of sessions, vehicles and requests.
THEOREM IamTypesCorrect == IamSpec => []IamTypeOK
<1>1. IamInv => IamTypeOK
  BY DEF IamInv, AccountInv, AccountBase, GarageInv, GarageBase, RosterInv, IamTypeOK
<1> QED
  BY <1>1, IamInvariant, PTL

\* A refresh token is exchanged for one session unless two requests found it usable, and no
\* session of an earlier password goes on (RefreshTokenUseCase, ChangePasswordUseCase).
THEOREM TokensAreSoundCorrect == IamSpec => []TokensAreSound
<1>1. IamInv => TokensAreSound
  BY AccountIsSound DEF IamInv, TokensAreSound
<1> QED
  BY <1>1, IamInvariant, PTL

\* The owner has one primary vehicle and no more vehicles than allowed, unless a request saved
\* what another had overtaken (AddVehicleUseCase, SetPrimaryVehicleUseCase).
THEOREM GarageInOrderCorrect == IamSpec => []GarageInOrderUnlessRaced
<1>1. IamInv => GarageInOrderUnlessRaced
  BY GarageIsInOrder DEF IamInv
<1> QED
  BY <1>1, IamInvariant, PTL

\* An account goes back, a deleted vehicle returns and an attendance opens a second day only from
\* a copy or a look that another request has overtaken.
THEOREM OnlyStaleLooksHarmCorrect == IamSpec => OnlyStaleLooksHarm
<1>1. ASSUME IamInv, [IamNext]_<<vars, garage, roster, part>>
      PROVE  [Next]_vars /\ [GarageNext]_garage /\ [RosterNext]_roster
  BY <1>1 DEF IamNext
<1>2. IamInv /\ [IamNext]_<<vars, garage, roster, part>> =>
        [\/ account'.password < account.password
         \/ account.verified /\ ~account'.verified
         \/ account.mfa = "on" /\ account'.codes \ account.codes # {}
         => \E w \in Workers : worker[w] # worker'[w] /\ (w \in stale \/ At(w, "enable"))]_vars
  BY <1>1, OnlyStaleReverts DEF IamInv
<1>3. IamInv /\ [IamNext]_<<vars, garage, roster, part>> =>
        [\A p \in Plates : vehicle[p].status = "deleted" /\ vehicle'[p].status # "deleted"
           => \E w \in behind : request[w].plate = p /\ request'[w] = AtRest]_garage
  BY <1>1, DeletedStays DEF IamInv
<1>4. IamInv /\ [IamNext]_<<vars, garage, roster, part>> =>
        [\A p \in Profiles : Cardinality(OfStaff(p)') > 1 /\ Cardinality(OfStaff(p)) <= 1
           => \E w \in fooled : visit'[w] = Away]_roster
  BY <1>1, SecondDay DEF IamInv
<1> QED
  BY <1>2, <1>3, <1>4, IamInvariant, PTL
     DEF IamSpec, OnlyStaleLooksHarm, RevertsOnlyFromStaleCopy, DeletedStaysUnlessBehind, SecondDayOnlyIfFooled
=============================================================================
