----------------------------- MODULE DeviceRoles -----------------------------
(***************************************************************************)
(* Roles, which of them a device is given, and which it is served          *)
(* (handlers/roles.rs, handlers/internal.rs, uconfig_builder.rs, db.rs).   *)
(* A request reads a row in one statement and writes in a later one, by    *)
(* its id.  A device keeps the id and the name of its role; what it is     *)
(* served is looked up by the name alone, and a name finds the first role  *)
(* whose name contains it or is contained in it.                           *)
(*                                                                         *)
(* A name stands for the parts it contains.  The device and its owner are  *)
(* given (DeviceRecords); prompts, voices and the providers that a role    *)
(* chooses follow from the role and are left out.                          *)
(***************************************************************************)
EXTENDS Integers, FiniteSets, FiniteSetsExt

CONSTANTS Members,    \* accounts, the owner of the device among them
          Keepers,    \* accounts that are administrators
          Bearer,     \* the owner of the device
          RoleNames,  \* sets of parts
          Editors,    \* requests that overlap
          MaxRoles    \* bound: roles ever created

ASSUME RoleAssumption == Bearer \in Members /\ Keepers \subseteq Members /\ MaxRoles \in Nat

All == 0       \* the owner of a global role
NoRole == 0

VARIABLES
    roles,    \* rows: [id, owner, name, default]
    created,  \* roles created
    given,    \* the device's role: [id, name]
    editing,  \* a request: [pc, id, saw]
    renamed   \* roles that were renamed or deleted while a device was about to be given them

roleVars == <<roles, created, given, editing, renamed>>

DefaultName == {}
Unedited == [pc |-> "away", id |-> NoRole, saw |-> DefaultName]

RoleInit ==
    /\ roles = {} /\ created = 0
    /\ given = [id |-> NoRole, name |-> DefaultName]
    /\ editing = [e \in Editors |-> Unedited] /\ renamed = {}

RoleIs(r, u) == r.owner \in {All, u}
MayModify(r, u) == u \in Keepers \/ r.owner = u
MayUse(r, u) == u \in Keepers \/ RoleIs(r, u)

RoleAnswers(e) == editing' = [editing EXCEPT ![e] = Unedited]
Looks(e, pc, r) == editing' = [editing EXCEPT ![e] = [pc |-> pc, id |-> r.id, saw |-> r.name]]

Parts(a, b) == a \subseteq b \/ b \subseteq a

\* A variant: the whole table is searched.
FoundOfAny(u, name) ==
    LET M == {r.id : r \in {q \in roles : Parts(q.name, name)}} IN IF M = {} THEN NoRole ELSE Min(M)

\* find_role_by_name, in the order of the table
FoundRole(u, name) ==
    LET M == {r.id : r \in {q \in roles : RoleIs(q, u) /\ Parts(q.name, name)}} IN
    IF M = {} THEN NoRole ELSE Min(M)

\* build_for_device_id
Served == IF given.name = DefaultName THEN NoRole ELSE FoundRole(Bearer, given.name)

-----------------------------------------------------------------------------
\* create, create_global: one critical section

\* A variant: a new default leaves the others as they are.
ClearedNever(default) == roles

RoleCleared(default) == IF default THEN {[r EXCEPT !.default = IF r.owner = All THEN FALSE ELSE @] : r \in roles} ELSE roles

CreateRole(u, name) ==
    /\ created < MaxRoles /\ created' = created + 1
    /\ roles' = roles \cup {[id |-> created + 1, owner |-> u, name |-> name, default |-> FALSE]}
    /\ UNCHANGED <<given, editing, renamed>>

CreateGlobal(name, default) ==
    /\ created < MaxRoles /\ created' = created + 1
    /\ roles' = RoleCleared(default) \cup {[id |-> created + 1, owner |-> All, name |-> name, default |-> default]}
    /\ UNCHANGED <<given, editing, renamed>>

-----------------------------------------------------------------------------
\* update, delete: the role is looked up, and may be changed

LooksToUpdate(e, r) ==
    /\ editing[e].pc = "away" /\ {u \in Members : MayModify(r, u)} # {}
    /\ Looks(e, IF r.owner = All THEN "updateGlobal" ELSE "update", r)
    /\ UNCHANGED <<roles, created, given, renamed>>

\* Only a global role can become the default; the others are no longer, although the row may
\* be gone by now.
UpdateRole(e, name, default) ==
    /\ editing[e].pc \in {"update", "updateGlobal"}
    /\ default => editing[e].pc = "updateGlobal"
    /\ roles' = {IF r.id = editing[e].id THEN [r EXCEPT !.name = name, !.default = default] ELSE r : r \in RoleCleared(default)}
    /\ renamed' = renamed \cup {editing[e].id}
    /\ RoleAnswers(e) /\ UNCHANGED <<created, given>>

LooksToDelete(e, r) ==
    /\ editing[e].pc = "away" /\ {u \in Members : MayModify(r, u)} # {} /\ Looks(e, "delete", r)
    /\ UNCHANGED <<roles, created, given, renamed>>

\* A device that has the role keeps its name.
DeleteRole(e) ==
    /\ editing[e].pc = "delete"
    /\ roles' = {r \in roles : r.id # editing[e].id}
    /\ renamed' = renamed \cup {editing[e].id}
    /\ RoleAnswers(e) /\ UNCHANGED <<created, given>>

\* set_default_global: one critical section; a role that is not there leaves no default.
SetDefault(id) ==
    /\ roles' = {IF r.id = id /\ r.owner = All THEN [r EXCEPT !.default = TRUE] ELSE r : r \in RoleCleared(TRUE)}
    /\ UNCHANGED <<created, given, editing, renamed>>

\* The roles of an account go with it.
DeleteMember(u) ==
    /\ u # Bearer /\ u \notin Keepers /\ \E r \in roles : r.owner = u
    /\ roles' = {r \in roles : r.owner # u}
    /\ renamed' = renamed \cup {r.id : r \in {q \in roles : q.owner = u}}
    /\ UNCHANGED <<created, given, editing>>

-----------------------------------------------------------------------------
\* Giving the device a role

\* apply_to_device, by the owner
LooksToApply(e, r) ==
    /\ editing[e].pc = "away" /\ MayUse(r, Bearer) /\ Looks(e, "apply", r)
    /\ UNCHANGED <<roles, created, given, renamed>>

\* switch_device_role, by the name the language model was asked for
LooksToSwitch(e, name) ==
    /\ editing[e].pc = "away"
    /\ \E r \in roles : r.id = FoundRole(Bearer, name) /\ Looks(e, "apply", r)
    /\ UNCHANGED <<roles, created, given, renamed>>

SetDeviceRole(e) ==
    /\ editing[e].pc = "apply"
    /\ given' = [id |-> editing[e].id, name |-> editing[e].saw]
    /\ RoleAnswers(e) /\ UNCHANGED <<roles, created, renamed>>

\* restore_device_default_role
ClearDeviceRole ==
    /\ given' = [id |-> NoRole, name |-> DefaultName]
    /\ UNCHANGED <<roles, created, editing, renamed>>

RoleNext ==
    \/ \E name \in RoleNames :
          \/ \E u \in Members : CreateRole(u, name)
          \/ \E d \in BOOLEAN : CreateGlobal(name, d)
    \/ \E e \in Editors :
          \/ \E r \in roles : LooksToUpdate(e, r) \/ LooksToDelete(e, r) \/ LooksToApply(e, r)
          \/ \E name \in RoleNames, d \in BOOLEAN : UpdateRole(e, name, d)
          \/ DeleteRole(e)
          \/ \E name \in RoleNames : LooksToSwitch(e, name)
          \/ SetDeviceRole(e)
    \/ \E id \in 1 .. MaxRoles : SetDefault(id)
    \/ \E u \in Members : DeleteMember(u)
    \/ ClearDeviceRole

RoleSpec == RoleInit /\ [][RoleNext]_roleVars

-----------------------------------------------------------------------------
\* Properties

RoleTypeOK ==
    /\ created \in 0 .. MaxRoles /\ renamed \subseteq 1 .. MaxRoles
    /\ \A r \in roles : r.id \in 1 .. created /\ r.owner \in Members \cup {All} /\ r.name \in RoleNames
    /\ given.id \in 0 .. created

\* "已设为默认角色": there is one default at most, and it is for everybody, however requests
\* that move it overlap with deletions.
OneDefaultRole == \A r, q \in roles : r.default /\ q.default => r = q /\ r.owner = All

\* A device is served the role it was given, unless that was renamed or deleted, is another
\* account's, bears the name that stands for no role, or the name of a role before it in the
\* table has to do with its name.
ServedAsGiven ==
    \A r \in roles :
        /\ r.id = given.id /\ r.id \notin renamed /\ RoleIs(r, Bearer) /\ r.name # DefaultName
        /\ ~ \E q \in roles : q.id < r.id /\ RoleIs(q, Bearer) /\ Parts(q.name, r.name)
        => Served = r.id

\* Nobody is served what another account wrote.
ServedIsOwn == \A r \in roles : r.id = Served => RoleIs(r, Bearer)

RolesAreOne == OneDefaultRole /\ ServedAsGiven /\ ServedIsOwn

=============================================================================
