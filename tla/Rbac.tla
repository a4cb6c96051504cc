-------------------------------- MODULE Rbac --------------------------------
(***************************************************************************)
(* RolesService and PermissionsService (src/modules/rbac) over the tables  *)
(* roles, permissions and role_permissions.                                *)
(*                                                                         *)
(* create checks a name and inserts it, remove loads a role and deletes    *)
(* it, setPermissions loads a role and saves it with another permission    *)
(* set.  Unique indexes and foreign keys are all that connects a check     *)
(* with the statement that relies on it.                                   *)
(***************************************************************************)
EXTENDS Tables, EntitySave

CONSTANTS
  RoleId,        \* ids of roles, drawn at random
  RoleName,      \* names of roles
  Permission,    \* permissions; a row is its name
  Seeded,        \* the roles and permissions the migration inserts:
                 \* [roles: id -> row, permissions: set]
  Request,       \* requests that can be in flight at the same time
  Calls,         \* endpoints the clients of this instance call
  MayFail,       \* whether a statement may fail or the process may die
  None           \* an unset local variable

Role == [name : RoleName, permissions : SUBSET Permission]

ASSUME SeededAssumption ==
  /\ IsTable(Seeded.roles, RoleId, Role)
  /\ Seeded.permissions \subseteq Permission
  /\ \A i \in DOMAIN Seeded.roles : Seeded.roles[i].permissions \subseteq Seeded.permissions
  /\ \A i, j \in DOMAIN Seeded.roles :
       Seeded.roles[i].name = Seeded.roles[j].name => i = j
ASSUME UnsetAssumption == None \notin RoleId \cup RoleName

VARIABLES
  roles,        \* tables roles and role_permissions: id -> row
  permissions,  \* table permissions
  req,          \* the requests in flight
  drawn,        \* ids drawn so far; randomUUID repeats none
  disturbed,    \* history: requests whose role another one wrote meanwhile
  overlapping   \* history: see Overlap

history == <<disturbed, overlapping>>
vars == <<roles, permissions, req, drawn, disturbed, overlapping>>

Statement == {"idle", "permission.save", "role.save", "role.remove",
              "save.load", "save.write"}

Locals == [at : Statement, role : RoleId \cup {None}, name : RoleName \cup {None},
           permissions : SUBSET Permission, read : SUBSET Permission,
           found : BOOLEAN]

(* `found` is whether save's own SELECT still finds the role.              *)
Idle == [at |-> "idle", role |-> None, name |-> None, permissions |-> {},
         read |-> {}, found |-> FALSE]

-----------------------------------------------------------------------------
(* Requests *)

Begin(r, locals) == req[r] = Idle /\ req' = [req EXCEPT ![r] = locals]
Finish(r) == req' = [req EXCEPT ![r] = Idle]

Saving == {r \in Request : req[r].at \in {"save.load", "save.write"}}

Replacing(id) == {s \in Saving : req[s].role = id}

(* What the replacements of its role that overlap a replacement, and that  *)
(* one itself, ask for; r begins to ask for `asked`.                       *)
Overlap(r, id, asked) ==
  overlapping' = [s \in Request |->
    IF s = r THEN {asked} \cup {req[q].permissions : q \in Replacing(id)}
    ELSE IF s \in Replacing(id) THEN overlapping[s] \cup {asked}
    ELSE overlapping[s]]

(* The end of a request, and whether it has written to the role.           *)
Undisturb(r) ==
  /\ disturbed' = disturbed \ {r}
  /\ overlapping' = [overlapping EXCEPT ![r] = {}]
Disturb(id, r) ==
  /\ disturbed' = (disturbed \cup Replacing(id)) \ {r}
  /\ overlapping' = [overlapping EXCEPT ![r] = {}]

NameTaken(name) == \E id \in DOMAIN roles : roles[id].name = name
(* Mutant: the unique index on the name is missing. *)
NotIndexed(id, name) == id \notin DOMAIN roles
(* The primary key and the unique index of roles. *)
RoleInsertable(id, name) == id \notin DOMAIN roles /\ ~NameTaken(name)

-----------------------------------------------------------------------------
(* PermissionsService.create *)

CreatePermission(r) ==
  /\ "createPermission" \in Calls
  /\ \E p \in Permission \ permissions :
       Begin(r, [Idle EXCEPT !.at = "permission.save", !.permissions = {p}])
  /\ UNCHANGED <<roles, permissions, drawn, history>>

(* The unique index refuses the second of two.                             *)
PermissionSave(r) ==
  /\ req[r].at = "permission.save"
  /\ permissions' = permissions \cup req[r].permissions
  /\ Finish(r)
  /\ UNCHANGED <<roles, drawn, history>>

-----------------------------------------------------------------------------
(* RolesService.create, remove *)

Create(r) ==
  /\ "create" \in Calls
  /\ \E name \in RoleName :
       /\ ~NameTaken(name)
       /\ Begin(r, [Idle EXCEPT !.at = "role.save", !.name = name])
  /\ UNCHANGED <<roles, permissions, drawn, history>>

(* Mutant: the id follows from what the role is, and comes again.          *)
CreateSaveAgain(r) ==
  /\ req[r].at = "role.save"
  /\ \E id \in RoleId \ DOMAIN roles :
       /\ RoleInsertable(id, req[r].name)
       /\ roles' = Insert(roles, id, [name |-> req[r].name, permissions |-> {}])
       /\ drawn' = drawn \cup {id}
  /\ Finish(r)
  /\ UNCHANGED <<permissions, history>>

(* save of a new entity is an INSERT under a new id.                       *)
CreateSave(r) ==
  /\ req[r].at = "role.save"
  /\ \E id \in RoleId \ drawn :
       /\ RoleInsertable(id, req[r].name)
       /\ roles' = Insert(roles, id, [name |-> req[r].name, permissions |-> {}])
       /\ drawn' = drawn \cup {id}
  /\ Finish(r)
  /\ UNCHANGED <<permissions, history>>

(* Another request took the name; also where this instance has no id left. *)
CreateRefused(r) ==
  /\ req[r].at = "role.save"
  /\ NameTaken(req[r].name) \/ RoleId = drawn
  /\ Finish(r)
  /\ UNCHANGED <<roles, permissions, drawn, history>>

Remove(r) ==
  /\ "remove" \in Calls
  /\ \E id \in DOMAIN roles : Begin(r, [Idle EXCEPT !.at = "role.remove", !.role = id])
  /\ UNCHANGED <<roles, permissions, drawn, history>>

(* The DELETE takes the junction rows along; a role already gone is none.  *)
RoleRemove(r) ==
  /\ req[r].at = "role.remove"
  /\ roles' = [id \in DOMAIN roles \ {req[r].role} |-> roles[id]]
  /\ Disturb(req[r].role, r)
  /\ Finish(r)
  /\ UNCHANGED <<permissions, drawn>>

-----------------------------------------------------------------------------
(* RolesService.setPermissions *)

(* Mutant: unknown permissions are not refused.                            *)
SetUnknownPermissions(r) ==
  /\ "setPermissions" \in Calls
  /\ \E id \in DOMAIN roles, asked \in SUBSET Permission :
       /\ Begin(r, [Idle EXCEPT !.at = "save.load", !.role = id,
            !.name = roles[id].name, !.permissions = asked])
       /\ Overlap(r, id, asked)
  /\ UNCHANGED <<roles, permissions, drawn, disturbed>>

(* The role is loaded and the names are looked up; unknown ones are 404.   *)
SetPermissions(r) ==
  /\ "setPermissions" \in Calls
  /\ \E id \in DOMAIN roles, asked \in SUBSET permissions :
       /\ Begin(r, [Idle EXCEPT !.at = "save.load", !.role = id,
            !.name = roles[id].name, !.permissions = asked])
       /\ Overlap(r, id, asked)
  /\ UNCHANGED <<roles, permissions, drawn, disturbed>>

SaveLoad(r) ==
  /\ req[r].at = "save.load"
  /\ LET found == req[r].role \in DOMAIN roles IN
     req' = [req EXCEPT ![r].at = "save.write", ![r].found = found,
               ![r].read = IF found THEN roles[req[r].role].permissions ELSE {}]
  /\ UNCHANGED <<roles, permissions, drawn, history>>

(* Mutant: permissions are added to the relation instead of saved.         *)
GrantedByAdding(r) == roles[req[r].role].permissions \cup req[r].permissions

Granted(r) ==
  WrittenRelation(roles[req[r].role].permissions, req[r].read, req[r].permissions)

Writable(r) ==
  /\ req[r].role \in DOMAIN roles
  /\ Insertable(roles[req[r].role].permissions, req[r].read, req[r].permissions,
                permissions)

(* The role is still there: its junction rows are written.                 *)
SaveWrite(r) ==
  /\ req[r].at = "save.write" /\ req[r].found
  /\ Writable(r)
  /\ roles' = [roles EXCEPT ![req[r].role].permissions = Granted(r)]
  /\ Disturb(req[r].role, r)
  /\ Finish(r)
  /\ UNCHANGED <<permissions, drawn>>

(* save did not find the role: it inserts it, under the id it had.         *)
SaveInsert(r) ==
  /\ req[r].at = "save.write" /\ ~req[r].found
  /\ RoleInsertable(req[r].role, req[r].name)
  /\ roles' = Insert(roles, req[r].role,
                [name |-> req[r].name, permissions |-> req[r].permissions])
  /\ Disturb(req[r].role, r)
  /\ Finish(r)
  /\ UNCHANGED <<permissions, drawn>>

(* An index or a foreign key refuses, or nothing is left to write.         *)
SaveRefused(r) ==
  /\ req[r].at = "save.write"
  /\ IF req[r].found
     THEN ~Writable(r)
     ELSE ~RoleInsertable(req[r].role, req[r].name)
  /\ Finish(r)
  /\ Undisturb(r)
  /\ UNCHANGED <<roles, permissions, drawn>>

(* A statement throws, or the process dies: the request ends where it is.  *)
Fail(r) ==
  /\ MayFail
  /\ req[r] # Idle
  /\ Finish(r)
  /\ Undisturb(r)
  /\ UNCHANGED <<roles, permissions, drawn>>

-----------------------------------------------------------------------------
(* Specification *)

(* What the migration leaves.                                              *)
Init ==
  /\ roles = Seeded.roles
  /\ permissions = Seeded.permissions
  /\ req = [r \in Request |-> Idle]
  /\ drawn = DOMAIN Seeded.roles
  /\ disturbed = {}
  /\ overlapping = [r \in Request |-> {}]

Next == \E r \in Request :
  \/ CreatePermission(r) \/ PermissionSave(r)
  \/ Create(r) \/ CreateSave(r) \/ CreateRefused(r) \/ Remove(r) \/ RoleRemove(r)
  \/ SetPermissions(r) \/ SaveLoad(r) \/ SaveWrite(r) \/ SaveInsert(r)
  \/ SaveRefused(r) \/ Fail(r)

Spec == Init /\ [][Next]_vars

-----------------------------------------------------------------------------
(* Properties *)

(* Rows and requests are well formed, and no role grants a permission that *)
(* does not exist (roles.service.ts:32-58, permissions.service.ts:18-24).  *)
TypeOK ==
  /\ IsTable(roles, RoleId, Role)
  /\ \A id \in DOMAIN roles : roles[id].permissions \subseteq permissions
  /\ permissions \subseteq Permission
  /\ req \in [Request -> Locals]
  /\ DOMAIN roles \subseteq drawn /\ drawn \subseteq RoleId
  /\ disturbed \subseteq Saving
  /\ overlapping \in [Request -> SUBSET SUBSET Permission]

(* No two roles have one name, although create checks it an await before   *)
(* the INSERT and a save may bring a removed role back (roles.service.ts:  *)
(* 32-38, 57); findByNames and the default role rely on it.                *)
NamesAreUnique ==
  \A i, j \in DOMAIN roles : roles[i].name = roles[j].name => i = j

(* A save whose role nobody else has written since it was loaded succeeds  *)
(* and leaves the set asked for: roles mix, and removed ones return, only  *)
(* when a second writer comes in between (roles.service.ts:45-58).         *)
UndisturbedReplacementsAreExact ==
  \A r \in Saving \ disturbed :
    req[r].at = "save.write" =>
      /\ req[r].found /\ Writable(r)
      /\ Granted(r) = req[r].permissions

(* Overlapping replacements of a role mix, but only in what they disagree  *)
(* about: what a save leaves grants a permission that all of them ask for, *)
(* and none that none of them asks for, also when the role is removed and  *)
(* comes back meanwhile (roles.service.ts:45-58).                          *)
AgreedPermissionsAreExact ==
  [][\A r \in Request : SaveWrite(r) \/ SaveInsert(r) =>
       LET granted == roles'[req[r].role].permissions IN
       /\ granted \subseteq UNION overlapping[r]
       /\ \A p \in Permission :
            (\A asked \in overlapping[r] : p \in asked) => p \in granted]_vars

(* "[admin] Delete a role" (roles.controller.ts:42): a removed role comes  *)
(* back only through setPermissions, and only where the removal overtook   *)
(* the save of that very role (roles.service.ts:40-43, 57).                *)
ReturnsNeedARace ==
  [][\A id \in drawn :
       id \notin DOMAIN roles /\ id \in DOMAIN roles' =>
         \E r \in disturbed : req[r].role = id /\ req'[r] = Idle]_vars
=============================================================================
