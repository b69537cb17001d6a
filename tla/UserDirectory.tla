---------------------------- MODULE UserDirectory ----------------------------
(***************************************************************************)
(* One user's roles and what is copied from them: the users_cache row that *)
(* the console lists users from, and the row session-service keeps of the  *)
(* user.  The users page changes a role in two requests, and every request *)
(* that touches users_cache loads the row and writes the whole of it back. *)
(*                                                                         *)
(* Names, mails and telephone numbers are left out, and so is the debt.    *)
(***************************************************************************)
EXTENDS Integers, FiniteSets

CONSTANTS
  Pages,     \* browsers of administrators that have the user selected
  MaxChanges \* bound: role changes begun

ASSUME DirectoryAssumption == MaxChanges \in Nat

VARIABLES
  granted,  \* rows of user_roles
  standing,  \* users.status, or "none"
  entry,    \* the row of users_cache
  mirror,   \* session-service's row: is_active, or "none"
  welcome,  \* welcome[q]: user.registered in the queue of consumer q
  desk,     \* what each page and its request are at
  changes,  \* role changes begun
  crossed   \* a request overtook another, failed half way, or was of a deleted user

directory == <<granted, standing, entry, mirror, welcome, desk, changes, crossed>>

RoleNames == {"user", "staff", "admin"}
Consumers == {"cache", "mirror"}
NoEntry == [role |-> "none", status |-> "none"]
AtDesk == [at |-> "idle", shown |-> "none", new |-> "none", held |-> NoEntry]

DirectoryInit ==
  /\ granted = {} /\ standing = "none" /\ entry = NoEntry /\ mirror = "none"
  /\ welcome = [q \in Consumers |-> "none"]
  /\ desk = [p \in Pages |-> AtDesk] /\ changes = 0 /\ crossed = FALSE

Working == {p \in Pages : desk[p].at # "idle"}

\* A request that overtakes another, or is made of a page that still shows a deleted user.
Crosses == crossed' = (crossed \/ Working # {} \/ welcome["cache"] # "done" \/ entry.status = "deleted")

-----------------------------------------------------------------------------
(* Registration                                                            *)

\* The row of the user and its event are committed, and then the role is assigned.
RegisterUser ==
  /\ standing = "none" /\ standing' = "active"
  /\ welcome' = [q \in Consumers |-> "sent"]
  /\ UNCHANGED <<granted, entry, mirror, desk, changes, crossed>>

GrantDefault ==
  /\ standing # "none" /\ granted = {} /\ welcome["cache"] # "done" /\ changes = 0
  /\ granted' = {"user"}
  /\ UNCHANGED <<standing, entry, mirror, welcome, desk, changes, crossed>>

\* Both consumers write a fresh row, mark the event, and know it when it comes again.
Welcomed(q) ==
  /\ welcome[q] = "sent"
  /\ welcome' = [welcome EXCEPT ![q] = "done"]
  /\ IF q = "cache" THEN entry' = [role |-> "user", status |-> "active"] /\ UNCHANGED mirror
                    ELSE mirror' = "active" /\ UNCHANGED entry
  /\ UNCHANGED <<granted, standing, desk, changes, crossed>>

\* The row is written, and the handler fails before it has marked the event.
WelcomedUnmarked(q) ==
  /\ welcome[q] = "sent"
  /\ IF q = "cache" THEN entry' = [role |-> "user", status |-> "active"] /\ UNCHANGED mirror
                    ELSE mirror' = "active" /\ UNCHANGED entry
  /\ UNCHANGED <<granted, standing, welcome, desk, changes, crossed>>

-----------------------------------------------------------------------------
(* users_cache                                                             *)

To(p, at) == desk' = [desk EXCEPT ![p].at = at]

\* The row is loaded; a user without one is passed over.
HoldEntry(p, to, without) ==
  desk' = [desk EXCEPT ![p].held = entry, ![p].at = IF entry = NoEntry THEN without ELSE to]

\* upsert writes every column of the row that was loaded.
PutEntry(row) == entry' = row

-----------------------------------------------------------------------------
(* The users page                                                          *)

\* The list asks for customers: users whose cached role is `user'.
Pick(p) ==
  /\ desk[p].at = "idle" /\ desk[p].shown = "none" /\ entry.role = "user" /\ entry.status # "deleted"
  /\ desk' = [desk EXCEPT ![p].shown = "user"]
  /\ UNCHANGED <<granted, standing, entry, mirror, welcome, changes, crossed>>

Close(p) ==
  /\ desk[p].at = "idle" /\ desk[p].shown # "none"
  /\ desk' = [desk EXCEPT ![p] = AtDesk]
  /\ UNCHANGED <<granted, standing, entry, mirror, welcome, changes, crossed>>

\* handleRoleChange.  The old role is the one the page shows.
ChangeRole(p, new) ==
  /\ desk[p].at = "idle" /\ desk[p].shown \notin {"none", new} /\ changes < MaxChanges
  /\ changes' = changes + 1 /\ Crosses
  /\ desk' = [desk EXCEPT ![p].at = "assign", ![p].new = new]
  /\ UNCHANGED <<granted, standing, entry, mirror, welcome>>

\* AssignRoleUseCase.
AssignRole(p) ==
  /\ desk[p].at = "assign"
  /\ granted' = granted \cup {desk[p].new} /\ To(p, "assigned")
  /\ UNCHANGED <<standing, entry, mirror, welcome, changes, crossed>>

LoadAssigned(p) ==
  /\ desk[p].at = "assigned" /\ HoldEntry(p, "put_assigned", "revoke")
  /\ UNCHANGED <<granted, standing, entry, mirror, welcome, changes, crossed>>

PutAssigned(p) ==
  /\ desk[p].at = "put_assigned"
  /\ PutEntry([desk[p].held EXCEPT !.role = desk[p].new]) /\ To(p, "revoke")
  /\ UNCHANGED <<granted, standing, mirror, welcome, changes, crossed>>

\* RevokeRoleUseCase.
RevokeRole(p) ==
  /\ desk[p].at = "revoke"
  /\ granted' = granted \ {desk[p].shown} /\ To(p, "revoked")
  /\ UNCHANGED <<standing, entry, mirror, welcome, changes, crossed>>

LoadRevoked(p) ==
  /\ desk[p].at = "revoked" /\ HoldEntry(p, "put_revoked", "answered")
  /\ UNCHANGED <<granted, standing, entry, mirror, welcome, changes, crossed>>

\* Mutant of Remaining: the role that was revoked is still read.
RemainingOld(p) == {desk[p].shown}

\* The first of the roles that remain, in no order, or `user'.
Remaining(p) == IF granted = {} THEN {"user"} ELSE granted

PutRevoked(p) ==
  /\ desk[p].at = "put_revoked"
  /\ \E r \in Remaining(p) : PutEntry([desk[p].held EXCEPT !.role = r])
  /\ To(p, "answered")
  /\ UNCHANGED <<granted, standing, mirror, welcome, changes, crossed>>

RoleChanged(p) ==
  /\ desk[p].at = "answered"
  /\ desk' = [desk EXCEPT ![p] = [AtDesk EXCEPT !.shown = desk[p].new]]
  /\ UNCHANGED <<granted, standing, entry, mirror, welcome, changes, crossed>>

\* A request of the page fails: what the other did stays, and the page shows the old role.
ChangeFails(p) ==
  /\ desk[p].at \in {"assign", "assigned", "put_assigned", "revoke", "revoked", "put_revoked"}
  /\ crossed' = (crossed \/ desk[p].at # "assign")
  /\ desk' = [desk EXCEPT ![p] = [AtDesk EXCEPT !.shown = desk[p].shown]]
  /\ UNCHANGED <<granted, standing, entry, mirror, welcome, changes>>

\* The cached row cannot be read or written: that is only logged, and the request succeeds.
CacheFails(p) ==
  /\ desk[p].at \in {"assigned", "put_assigned", "revoked", "put_revoked"}
  /\ To(p, IF desk[p].at \in {"assigned", "put_assigned"} THEN "revoke" ELSE "answered")
  /\ crossed' = (crossed \/ desk[p].at \in {"revoked", "put_revoked"})
  /\ UNCHANGED <<granted, standing, entry, mirror, welcome, changes>>

\* handleToggleStatus and UserController.updateStatus; deactivate()'s event is never published.
SetAccount(p, status) ==
  /\ desk[p].at = "idle" /\ desk[p].shown # "none" /\ standing # "none"
  /\ standing' = status /\ Crosses
  /\ desk' = [desk EXCEPT ![p].held = entry, ![p].at = "put_status", ![p].new = status]
  /\ UNCHANGED <<granted, entry, mirror, welcome, changes>>

PutStatus(p) ==
  /\ desk[p].at = "put_status"
  /\ PutEntry([desk[p].held EXCEPT !.status = desk[p].new])
  /\ desk' = [desk EXCEPT ![p] = [AtDesk EXCEPT !.shown = desk[p].shown]]
  /\ UNCHANGED <<granted, standing, mirror, welcome, changes, crossed>>

\* handleDeleteUser: SoftDeleteUserUseCase writes the row without loading it.
DeleteUser(p) ==
  /\ desk[p].at = "idle" /\ desk[p].shown # "none" /\ standing # "none"
  /\ standing' = "inactive" /\ Crosses
  /\ To(p, "put_deleted")
  /\ UNCHANGED <<granted, entry, mirror, welcome, changes>>

\* Mutant of GoneEntry: the cached row gets the status of the account.
GoneEntryInactive == [role |-> "user", status |-> "inactive"]

GoneEntry == [role |-> "user", status |-> "deleted"]

PutDeleted(p) ==
  /\ desk[p].at = "put_deleted"
  /\ PutEntry(GoneEntry)
  /\ desk' = [desk EXCEPT ![p] = AtDesk]
  /\ UNCHANGED <<granted, standing, mirror, welcome, changes, crossed>>

DirectoryNext ==
  \/ RegisterUser \/ GrantDefault
  \/ \E q \in Consumers : Welcomed(q) \/ WelcomedUnmarked(q)
  \/ \E p \in Pages :
       \/ Pick(p) \/ Close(p) \/ (\E new \in RoleNames : ChangeRole(p, new))
       \/ AssignRole(p) \/ LoadAssigned(p) \/ PutAssigned(p)
       \/ RevokeRole(p) \/ LoadRevoked(p) \/ PutRevoked(p) \/ RoleChanged(p) \/ ChangeFails(p) \/ CacheFails(p)
       \/ (\E status \in {"suspended", "active"} : SetAccount(p, status))
       \/ PutStatus(p) \/ DeleteUser(p) \/ PutDeleted(p)

DirectorySpec == DirectoryInit /\ [][DirectoryNext]_directory

-----------------------------------------------------------------------------
Entries == [role : RoleNames \cup {"none"}, status : {"none", "active", "suspended", "deleted"}]
RolePhases == {"assign", "assigned", "put_assigned", "revoke", "revoked", "put_revoked", "answered"}
DeskStates == [at : RolePhases \cup {"idle", "put_status", "put_deleted"}, shown : RoleNames \cup {"none"},
               new : RoleNames \cup {"none", "suspended", "active"}, held : Entries]

\* A request carries a role or a status.
DeskOK(d) ==
  /\ d \in DeskStates
  /\ d.at \in RolePhases => d.new \in RoleNames
  /\ d.at = "put_status" => d.new \in {"suspended", "active"}

\* The rows and the pages have their types.
DirectoryTypeOK ==
  /\ granted \subseteq RoleNames /\ standing \in {"none", "active", "suspended", "inactive"}
  /\ entry \in Entries /\ mirror \in {"none", "active"}
  /\ welcome \in [Consumers -> {"none", "sent", "done"}]
  /\ desk \in [Pages -> DeskStates] /\ \A p \in Pages : DeskOK(desk[p])
  /\ changes \in 0 .. MaxChanges /\ crossed \in BOOLEAN

\* The console lists a user who has a role under a role the user has, as long as no two requests
\* cross and none fails half way, and although the copy of what was assigned may fail:
\* RevokeRoleUseCase reads the roles that remain after handleRoleChange has assigned the new one.
ListedRoleIsGranted ==
  Working = {} /\ welcome["cache"] = "done" /\ granted # {} /\ ~crossed /\ entry.status # "deleted"
    => entry.role \in granted
==============================================================================
