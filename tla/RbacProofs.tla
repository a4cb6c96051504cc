----------------------------- MODULE RbacProofs -----------------------------
(***************************************************************************)
(* What holds of roles and permissions for every set of ids, names and     *)
(* requests.  The invariant that carries it all is Undisturbed: while no   *)
(* other request has written a role being saved, the role is there and     *)
(* what the save has read of it is what is stored.                         *)
(***************************************************************************)
EXTENDS Rbac, TLAPS

(* What a handler has established by the time it reaches a statement.      *)
Prepared ==
  /\ \A r \in Request : req[r].at = "role.save" => req[r].name \in RoleName
  /\ \A r \in Saving : /\ req[r].role \in drawn
                       /\ req[r].name \in RoleName
                       /\ req[r].permissions \subseteq permissions

Undisturbed ==
  \A r \in Saving \ disturbed :
    /\ req[r].role \in DOMAIN roles
    /\ req[r].at = "save.write" =>
         /\ req[r].found
         /\ req[r].read = roles[req[r].role].permissions

Typed == TypeOK /\ Prepared
IInv == Typed /\ NamesAreUnique /\ Undisturbed

-----------------------------------------------------------------------------
(* Lemmas about the operators *)

LEMMA InsertIsTable ==
  ASSUME IsTable(roles, RoleId, Role), NEW id \in RoleId, NEW row \in Role,
         roles' = Insert(roles, id, row)
  PROVE  /\ IsTable(roles', RoleId, Role)
         /\ DOMAIN roles' = DOMAIN roles \cup {id}
         /\ roles'[id] = row
         /\ \A k \in DOMAIN roles \ {id} : roles'[k] = roles[k]
  BY DEF IsTable, Insert

(* A save that has read what is stored writes what it was asked for.       *)
LEMMA ExactRelation ==
  ASSUME NEW stored, NEW entity, NEW existing, entity \subseteq existing
  PROVE  /\ WrittenRelation(stored, stored, entity) = entity
         /\ Insertable(stored, stored, entity, existing)
  BY DEF WrittenRelation, Insertable, Inserted, Deleted

LEMMA WrittenIsAsked ==
  ASSUME NEW stored, NEW readSet, NEW entity
  PROVE  WrittenRelation(stored, readSet, entity) \subseteq stored \cup entity
  BY DEF WrittenRelation, Inserted, Deleted

-----------------------------------------------------------------------------
(* Typed *)

LEMMA InitTyped == Init => Typed
<1> SUFFICES ASSUME Init PROVE Typed
  OBVIOUS
<1>1. TypeOK
  BY SeededAssumption DEF Init, TypeOK, IsTable, Idle, Locals, Statement, Saving
<1>2. Prepared
  BY DEF Init, Prepared, Saving, Idle
<1> QED
  BY <1>1, <1>2 DEF Typed

(* Every action but the two kinds of INSERT and the save keeps the rows.   *)
LEMMA TablesTyped ==
  ASSUME Typed, Next
  PROVE  /\ IsTable(roles', RoleId, Role)
         /\ \A id \in DOMAIN roles' : roles'[id].permissions \subseteq permissions'
         /\ permissions' \subseteq Permission
         /\ DOMAIN roles' \subseteq drawn' /\ drawn' \subseteq RoleId
         /\ drawn \subseteq drawn' /\ permissions \subseteq permissions'
<1> USE DEF Typed, TypeOK
<1> PICK r \in Request :
      \/ CreatePermission(r) \/ PermissionSave(r)
      \/ Create(r) \/ CreateSave(r) \/ CreateRefused(r) \/ Remove(r) \/ RoleRemove(r)
      \/ SetPermissions(r) \/ SaveLoad(r) \/ SaveWrite(r) \/ SaveInsert(r)
      \/ SaveRefused(r) \/ Fail(r)
  BY DEF Next
<1>1. CASE UNCHANGED <<roles, permissions, drawn>>
  BY <1>1
<1>2. CASE PermissionSave(r)
  <2>1. req[r].permissions \subseteq Permission
    BY DEF Locals
  <2> QED
    BY <1>2, <2>1 DEF PermissionSave
<1>3. CASE CreateSave(r)
  <2> PICK id \in RoleId \ drawn :
        /\ roles' = Insert(roles, id, [name |-> req[r].name, permissions |-> {}])
        /\ drawn' = drawn \cup {id}
    BY <1>3 DEF CreateSave
  <2>1. [name |-> req[r].name, permissions |-> {}] \in Role
    BY <1>3 DEF CreateSave, Prepared, Role
  <2>2. permissions' = permissions
    BY <1>3 DEF CreateSave
  <2>3. /\ IsTable(roles', RoleId, Role)
        /\ DOMAIN roles' = DOMAIN roles \cup {id}
        /\ roles'[id] = [name |-> req[r].name, permissions |-> {}]
        /\ \A k \in DOMAIN roles \ {id} : roles'[k] = roles[k]
    BY <2>1, InsertIsTable
  <2>4. /\ permissions \subseteq Permission /\ drawn \subseteq RoleId
        /\ DOMAIN roles \subseteq drawn
        /\ \A k \in DOMAIN roles : roles[k].permissions \subseteq permissions
    OBVIOUS
  <2> HIDE DEF Typed, TypeOK
  <2>5. roles'[id].permissions = {}
    BY <2>3
  <2>6. \A k \in DOMAIN roles' : roles'[k].permissions \subseteq permissions'
    BY <2>2, <2>3, <2>4, <2>5
  <2> QED
    BY <2>2, <2>3, <2>4, <2>6
<1>4. CASE RoleRemove(r)
  BY <1>4 DEF RoleRemove, IsTable
<1>5. CASE SaveWrite(r)
  <2> DEFINE id == req[r].role
  <2>1. id \in DOMAIN roles /\ roles' = [roles EXCEPT ![id].permissions = Granted(r)]
    BY <1>5 DEF SaveWrite, Writable
  <2>2. Granted(r) \subseteq permissions
    <3>1. r \in Saving
      BY <1>5 DEF SaveWrite, Saving
    <3> QED
      BY <2>1, <3>1, WrittenIsAsked DEF Granted, Prepared
  <2>3. roles[id] \in Role
    BY <2>1 DEF IsTable
  <2>4. [roles[id] EXCEPT !.permissions = Granted(r)] \in Role
    BY <2>2, <2>3 DEF Role
  <2>5. /\ DOMAIN roles' = DOMAIN roles
        /\ roles'[id] = [roles[id] EXCEPT !.permissions = Granted(r)]
        /\ \A k \in DOMAIN roles \ {id} : roles'[k] = roles[k]
    BY <2>1 DEF IsTable
  <2>6. roles'[id].permissions = Granted(r)
    BY <2>3, <2>5 DEF Role
  <2>7. UNCHANGED <<permissions, drawn>>
    BY <1>5 DEF SaveWrite
  <2>8. IsTable(roles', RoleId, Role)
    BY <2>1, <2>4, <2>5 DEF IsTable
  <2> QED
    BY <2>2, <2>5, <2>6, <2>7, <2>8
<1>6. CASE SaveInsert(r)
  <2> DEFINE row == [name |-> req[r].name, permissions |-> req[r].permissions]
             id == req[r].role
  <2>1. r \in Saving
    BY <1>6 DEF SaveInsert, Saving
  <2>2. id \in drawn /\ id \in RoleId /\ req[r].permissions \subseteq permissions
    BY <2>1 DEF Prepared
  <2>3. row \in Role
    BY <2>1, <2>2 DEF Prepared, Role
  <2>4. roles' = Insert(roles, id, row) /\ UNCHANGED <<permissions, drawn>>
    BY <1>6 DEF SaveInsert
  <2>5. row.permissions = req[r].permissions
    OBVIOUS
  <2> HIDE DEF row, id
  <2>6. /\ IsTable(roles', RoleId, Role)
        /\ DOMAIN roles' = DOMAIN roles \cup {id}
        /\ roles'[id] = row
        /\ \A k \in DOMAIN roles \ {id} : roles'[k] = roles[k]
    BY <2>2, <2>3, <2>4, InsertIsTable
  <2> QED
    BY <2>2, <2>4, <2>5, <2>6
<1> QED
  BY <1>1, <1>2, <1>3, <1>4, <1>5, <1>6
     DEF CreatePermission, Create, CreateRefused, Remove, SetPermissions, SaveLoad,
         SaveRefused, Fail

(* The steps that do not end their request hand it well-formed locals.     *)
LEMMA RequestGoesOn ==
  ASSUME Typed, NEW r \in Request,
         \/ CreatePermission(r) \/ Create(r) \/ Remove(r) \/ SetPermissions(r)
         \/ SaveLoad(r)
  PROVE  \E locals \in Locals :
           /\ req' = [req EXCEPT ![r] = locals]
           /\ r \in Saving => locals.at = "save.write"
           /\ locals.at = "role.save" => locals.name \in RoleName
           /\ locals.at \in {"save.load", "save.write"} =>
                /\ locals.role \in drawn
                /\ locals.name \in RoleName
                /\ locals.permissions \subseteq permissions
                /\ locals.role \in DOMAIN roles \/ r \in Saving
                /\ locals.at = "save.write" =>
                     /\ r \in Saving
                     /\ locals.role = req[r].role
                     /\ locals.found = (locals.role \in DOMAIN roles)
                     /\ locals.found => locals.read = roles[locals.role].permissions
<1> USE DEF Typed, TypeOK
<1>0. Idle.at = "idle"
  BY DEF Idle
<1>1. CASE CreatePermission(r)
  <2> PICK p \in Permission \ permissions :
        Begin(r, [Idle EXCEPT !.at = "permission.save", !.permissions = {p}])
    BY <1>1 DEF CreatePermission
  <2> DEFINE locals == [Idle EXCEPT !.at = "permission.save", !.permissions = {p}]
  <2>1. locals \in Locals /\ locals.at = "permission.save"
    BY DEF Idle, Locals, Statement
  <2> QED
    BY <1>0, <2>1 DEF Begin, Saving
<1>2. CASE Create(r)
  <2> PICK name \in RoleName :
        Begin(r, [Idle EXCEPT !.at = "role.save", !.name = name])
    BY <1>2 DEF Create
  <2> DEFINE locals == [Idle EXCEPT !.at = "role.save", !.name = name]
  <2>1. locals \in Locals /\ locals.at = "role.save" /\ locals.name = name
    BY DEF Idle, Locals, Statement
  <2> QED
    BY <1>0, <2>1 DEF Begin, Saving
<1>3. CASE Remove(r)
  <2> PICK id \in DOMAIN roles :
        Begin(r, [Idle EXCEPT !.at = "role.remove", !.role = id])
    BY <1>3 DEF Remove
  <2> DEFINE locals == [Idle EXCEPT !.at = "role.remove", !.role = id]
  <2>1. locals \in Locals /\ locals.at = "role.remove"
    BY DEF Idle, Locals, Statement
  <2> QED
    BY <1>0, <2>1 DEF Begin, Saving
<1>4. CASE SetPermissions(r)
  <2> PICK id \in DOMAIN roles, asked \in SUBSET permissions :
        Begin(r, [Idle EXCEPT !.at = "save.load", !.role = id,
          !.name = roles[id].name, !.permissions = asked])
    BY <1>4 DEF SetPermissions
  <2> DEFINE locals == [Idle EXCEPT !.at = "save.load", !.role = id,
                          !.name = roles[id].name, !.permissions = asked]
  <2>1. roles[id] \in Role
    BY DEF IsTable
  <2>2. roles[id].name \in RoleName
    BY <2>1 DEF Role
  <2>3. /\ locals \in Locals /\ locals.at = "save.load" /\ locals.role = id
        /\ locals.name = roles[id].name /\ locals.permissions = asked
    BY <2>2 DEF Idle, Locals, Statement
  <2> QED
    BY <1>0, <2>2, <2>3 DEF Begin, Saving
<1>5. CASE SaveLoad(r)
  <2> DEFINE found == req[r].role \in DOMAIN roles
             readSet == IF found THEN roles[req[r].role].permissions ELSE {}
             locals == [req[r] EXCEPT !.at = "save.write", !.found = found,
                                      !.read = readSet]
  <2>1. r \in Saving
    BY <1>5 DEF SaveLoad, Saving
  <2>2. readSet \in SUBSET Permission /\ found \in BOOLEAN
    OBVIOUS
  <2>3. req' = [req EXCEPT ![r] = locals]
    BY <1>5 DEF SaveLoad
  <2> HIDE DEF found, readSet
  <2>4. /\ locals \in Locals /\ locals.at = "save.write" /\ locals.role = req[r].role
        /\ locals.name = req[r].name /\ locals.permissions = req[r].permissions
        /\ locals.found = found /\ locals.read = readSet
    BY <2>2 DEF Locals, Statement
  <2>5. req[r].role \in drawn /\ req[r].name \in RoleName
        /\ req[r].permissions \subseteq permissions
    BY <2>1 DEF Prepared
  <2>6. found = (req[r].role \in DOMAIN roles)
        /\ (found => readSet = roles[req[r].role].permissions)
    BY DEF found, readSet
  <2> HIDE DEF locals
  <2> QED
    BY <2>1, <2>3, <2>4, <2>5, <2>6
<1> QED
  BY <1>1, <1>2, <1>3, <1>4, <1>5

(* The steps that end their request leave every role alone that a save in  *)
(* flight is about, or mark that save as disturbed.                        *)
LEMMA RequestEnds ==
  ASSUME Typed, NEW r \in Request,
         \/ PermissionSave(r) \/ CreateSave(r) \/ CreateRefused(r) \/ RoleRemove(r)
         \/ SaveWrite(r) \/ SaveInsert(r) \/ SaveRefused(r) \/ Fail(r)
  PROVE  /\ req' = [req EXCEPT ![r] = Idle]
         /\ disturbed' \subseteq Saving \ {r}
         /\ \A s \in (Saving \ {r}) \ disturbed' :
              /\ s \notin disturbed
              /\ req[s].role \in DOMAIN roles =>
                   /\ req[s].role \in DOMAIN roles'
                   /\ roles'[req[s].role] = roles[req[s].role]
<1> USE DEF Typed, TypeOK, Finish
<1>1. CASE PermissionSave(r)
  BY <1>1 DEF PermissionSave, history, Saving
<1>2. CASE CreateSave(r)
  <2> PICK id \in RoleId \ drawn :
        roles' = Insert(roles, id, [name |-> req[r].name, permissions |-> {}])
    BY <1>2 DEF CreateSave
  <2>1. \A k \in DOMAIN roles : k \in DOMAIN roles' /\ roles'[k] = roles[k]
    BY DEF Insert
  <2> QED
    BY <1>2, <2>1 DEF CreateSave, history, Saving
<1>3. CASE CreateRefused(r)
  BY <1>3 DEF CreateRefused, history, Saving
<1>4. CASE RoleRemove(r)
  BY <1>4 DEF RoleRemove, Disturb, Replacing, Saving
<1>5. CASE SaveWrite(r)
  <2>1. \A k \in DOMAIN roles : k # req[r].role =>
          k \in DOMAIN roles' /\ roles'[k] = roles[k]
    BY <1>5 DEF SaveWrite, IsTable
  <2> QED
    BY <1>5, <2>1 DEF SaveWrite, Disturb, Replacing
<1>6. CASE SaveInsert(r)
  <2>1. \A k \in DOMAIN roles : k # req[r].role =>
          k \in DOMAIN roles' /\ roles'[k] = roles[k]
    BY <1>6 DEF SaveInsert, Insert
  <2> QED
    BY <1>6, <2>1 DEF SaveInsert, Disturb, Replacing
<1>7. CASE SaveRefused(r)
  BY <1>7 DEF SaveRefused, Undisturb
<1>8. CASE Fail(r)
  BY <1>8 DEF Fail, Undisturb
<1> QED
  BY <1>1, <1>2, <1>3, <1>4, <1>5, <1>6, <1>7, <1>8

(* The sets that overlapping replacements ask for stay well formed: one    *)
(* begins to ask, or one ends.                                             *)
LEMMA OverlappingTyped ==
  ASSUME Typed, Next
  PROVE  overlapping' \in [Request -> SUBSET SUBSET Permission]
<1> USE DEF Typed, TypeOK
<1> PICK r \in Request :
      \/ UNCHANGED overlapping
      \/ overlapping' = [overlapping EXCEPT ![r] = {}]
      \/ \E id \in DOMAIN roles, asked \in SUBSET permissions : Overlap(r, id, asked)
  BY DEF Next, history, CreatePermission, PermissionSave, Create, CreateSave, CreateRefused,
     Remove, RoleRemove, SetPermissions, SaveLoad, SaveWrite, SaveInsert, SaveRefused, Fail,
     Disturb, Undisturb
<1>1. ASSUME NEW id, NEW asked \in SUBSET permissions, Overlap(r, id, asked)
      PROVE  overlapping' \in [Request -> SUBSET SUBSET Permission]
  <2>1. \A q \in Replacing(id) : req[q].permissions \in SUBSET Permission
    BY DEF Replacing, Saving, Locals
  <2> QED
    BY <1>1, <2>1 DEF Overlap
<1> QED
  BY <1>1

LEMMA TypedStep == Typed /\ [Next]_vars => Typed'
<1> SUFFICES ASSUME Typed, [Next]_vars PROVE Typed'
  OBVIOUS
<1>1. CASE UNCHANGED vars
  BY <1>1 DEF vars, Typed, TypeOK, Prepared, Saving
<1>2. CASE Next
  <2> PICK r \in Request :
        \/ CreatePermission(r) \/ PermissionSave(r)
        \/ Create(r) \/ CreateSave(r) \/ CreateRefused(r) \/ Remove(r) \/ RoleRemove(r)
        \/ SetPermissions(r) \/ SaveLoad(r) \/ SaveWrite(r) \/ SaveInsert(r)
        \/ SaveRefused(r) \/ Fail(r)
    BY <1>2 DEF Next
  <2>1. /\ IsTable(roles', RoleId, Role)
        /\ \A id \in DOMAIN roles' : roles'[id].permissions \subseteq permissions'
        /\ permissions' \subseteq Permission
        /\ DOMAIN roles' \subseteq drawn' /\ drawn' \subseteq RoleId
        /\ drawn \subseteq drawn' /\ permissions \subseteq permissions'
    BY <1>2, TablesTyped
  <2>4. overlapping' \in [Request -> SUBSET SUBSET Permission]
    BY <1>2, OverlappingTyped
  <2>2. CASE \/ CreatePermission(r) \/ Create(r) \/ Remove(r) \/ SetPermissions(r)
             \/ SaveLoad(r)
    <3>1. UNCHANGED <<permissions, drawn, disturbed>>
      BY <2>2 DEF history, CreatePermission, Create, Remove, SetPermissions, SaveLoad
    <3> PICK locals \in Locals :
          /\ req' = [req EXCEPT ![r] = locals]
          /\ r \in Saving => locals.at = "save.write"
          /\ locals.at = "role.save" => locals.name \in RoleName
          /\ locals.at \in {"save.load", "save.write"} =>
               /\ locals.role \in drawn
               /\ locals.name \in RoleName
               /\ locals.permissions \subseteq permissions
      BY <2>2, RequestGoesOn
    <3>2. req' \in [Request -> Locals] /\ disturbed' \subseteq Saving'
      BY <3>1 DEF Typed, TypeOK, Saving
    <3>3. Prepared'
      BY <3>1 DEF Typed, TypeOK, Prepared, Saving
    <3> QED
      BY <2>1, <2>4, <3>2, <3>3 DEF Typed, TypeOK
  <2>3. CASE \/ PermissionSave(r) \/ CreateSave(r) \/ CreateRefused(r) \/ RoleRemove(r)
             \/ SaveWrite(r) \/ SaveInsert(r) \/ SaveRefused(r) \/ Fail(r)
    <3>1. req' = [req EXCEPT ![r] = Idle] /\ disturbed' \subseteq Saving \ {r}
      BY <2>3, RequestEnds
    <3>2. Idle \in Locals /\ Idle.at = "idle"
      BY DEF Idle, Locals, Statement
    <3>3. req' \in [Request -> Locals] /\ disturbed' \subseteq Saving'
      BY <3>1, <3>2 DEF Typed, TypeOK, Saving
    <3>4. Prepared'
      BY <2>1, <3>1, <3>2 DEF Typed, TypeOK, Prepared, Saving
    <3> QED
      BY <2>1, <2>4, <3>3, <3>4 DEF Typed, TypeOK
  <2> QED
    BY <2>2, <2>3
<1> QED
  BY <1>1, <1>2

(* Typing of tables and requests, for any roles, permissions and requests  *)
(* (roles.service.ts:32-58, permissions.service.ts:18-24).                 *)
THEOREM RolesTypeCorrect == Spec => []TypeOK
<1>1. Init => Typed
  BY InitTyped
<1>2. Typed /\ [Next]_vars => Typed'
  BY TypedStep
<1>3. Typed => TypeOK
  BY DEF Typed
<1> QED
  BY <1>1, <1>2, <1>3, PTL DEF Spec

-----------------------------------------------------------------------------
(* Names *)

(* Only an INSERT gives a name, and the index refuses the second.          *)
LEMMA UniqueStep == Typed /\ NamesAreUnique /\ [Next]_vars => NamesAreUnique'
<1> SUFFICES ASSUME Typed, NamesAreUnique, [Next]_vars PROVE NamesAreUnique'
  OBVIOUS
<1> USE DEF NamesAreUnique
<1>1. CASE UNCHANGED roles
  BY <1>1
<1>2. ASSUME NEW id, NEW row, RoleInsertable(id, row.name), roles' = Insert(roles, id, row)
      PROVE  NamesAreUnique'
  BY <1>2 DEF RoleInsertable, NameTaken, Insert
<1>3. ASSUME NEW r \in Request, CreateSave(r) PROVE NamesAreUnique'
  <2> PICK id \in RoleId \ drawn :
        /\ RoleInsertable(id, req[r].name)
        /\ roles' = Insert(roles, id, [name |-> req[r].name, permissions |-> {}])
    BY <1>3 DEF CreateSave
  <2> DEFINE row == [name |-> req[r].name, permissions |-> {}]
  <2>1. row.name = req[r].name
    OBVIOUS
  <2> HIDE DEF row
  <2> QED
    BY <1>2, <2>1 DEF row
<1>4. ASSUME NEW r \in Request, SaveInsert(r) PROVE NamesAreUnique'
  <2> DEFINE row == [name |-> req[r].name, permissions |-> req[r].permissions]
  <2>1. row.name = req[r].name
    OBVIOUS
  <2>2. RoleInsertable(req[r].role, req[r].name) /\ roles' = Insert(roles, req[r].role, row)
    BY <1>4 DEF SaveInsert
  <2> HIDE DEF row
  <2> QED
    BY <1>2, <2>1, <2>2
<1>5. ASSUME NEW r \in Request, RoleRemove(r) PROVE NamesAreUnique'
  BY <1>5 DEF RoleRemove
<1>6. ASSUME NEW r \in Request, SaveWrite(r) PROVE NamesAreUnique'
  <2>1. \A k \in DOMAIN roles : roles[k] \in Role
    BY DEF Typed, TypeOK, IsTable
  <2>2. DOMAIN roles' = DOMAIN roles
        /\ \A k \in DOMAIN roles : roles'[k].name = roles[k].name
    BY <1>6, <2>1 DEF SaveWrite, Role, Typed, TypeOK, IsTable
  <2> QED
    BY <2>2
<1> QED
  BY <1>1, <1>3, <1>4, <1>5, <1>6
     DEF Next, vars, CreatePermission, PermissionSave, Create, CreateRefused, Remove,
         SetPermissions, SaveLoad, SaveRefused, Fail

-----------------------------------------------------------------------------
(* Undisturbed saves *)

LEMMA UndisturbedStep == Typed /\ Undisturbed /\ [Next]_vars => Undisturbed'
<1> SUFFICES ASSUME Typed, Undisturbed, [Next]_vars,
                    NEW s \in Request, s \in Saving', s \notin disturbed'
             PROVE  /\ req'[s].role \in DOMAIN roles'
                    /\ req'[s].at = "save.write" =>
                         /\ req'[s].found
                         /\ req'[s].read = roles'[req'[s].role].permissions
  BY DEF Undisturbed, Saving
<1>1. CASE UNCHANGED vars
  BY <1>1 DEF vars, Undisturbed, Saving
<1>2. CASE Next
  <2> PICK r \in Request :
        \/ CreatePermission(r) \/ PermissionSave(r)
        \/ Create(r) \/ CreateSave(r) \/ CreateRefused(r) \/ Remove(r) \/ RoleRemove(r)
        \/ SetPermissions(r) \/ SaveLoad(r) \/ SaveWrite(r) \/ SaveInsert(r)
        \/ SaveRefused(r) \/ Fail(r)
    BY <1>2 DEF Next
  <2>1. CASE \/ CreatePermission(r) \/ Create(r) \/ Remove(r) \/ SetPermissions(r)
             \/ SaveLoad(r)
    <3>1. UNCHANGED <<roles, disturbed>>
      BY <2>1 DEF history, CreatePermission, Create, Remove, SetPermissions, SaveLoad
    <3> PICK locals \in Locals :
          /\ req' = [req EXCEPT ![r] = locals]
          /\ r \in Saving => locals.at = "save.write"
          /\ locals.at \in {"save.load", "save.write"} =>
               /\ locals.role \in DOMAIN roles \/ r \in Saving
               /\ locals.at = "save.write" =>
                    /\ r \in Saving
                    /\ locals.role = req[r].role
                    /\ locals.found = (locals.role \in DOMAIN roles)
                    /\ locals.found => locals.read = roles[locals.role].permissions
      BY <2>1, RequestGoesOn
    <3>2. CASE s = r
      <4>1. req'[s] = locals /\ locals.at \in {"save.load", "save.write"}
        BY <3>2 DEF Typed, TypeOK, Saving
      <4>2. CASE r \in Saving
        BY <3>1, <3>2, <4>1, <4>2 DEF Undisturbed
      <4>3. CASE r \notin Saving
        BY <3>1, <4>1, <4>3
      <4> QED
        BY <4>2, <4>3
    <3>3. CASE s # r
      BY <3>1, <3>3 DEF Undisturbed, Saving, Typed, TypeOK
    <3> QED
      BY <3>2, <3>3
  <2>2. CASE \/ PermissionSave(r) \/ CreateSave(r) \/ CreateRefused(r) \/ RoleRemove(r)
             \/ SaveWrite(r) \/ SaveInsert(r) \/ SaveRefused(r) \/ Fail(r)
    <3>1. /\ req' = [req EXCEPT ![r] = Idle]
          /\ \A q \in (Saving \ {r}) \ disturbed' :
               /\ q \notin disturbed
               /\ req[q].role \in DOMAIN roles =>
                    /\ req[q].role \in DOMAIN roles'
                    /\ roles'[req[q].role] = roles[req[q].role]
      BY <2>2, RequestEnds
    <3>2. s # r /\ req'[s] = req[s]
      BY <3>1 DEF Saving, Idle, Typed, TypeOK
    <3>3. s \in Saving
      BY <3>2 DEF Saving
    <3> QED
      BY <3>1, <3>2, <3>3 DEF Undisturbed
  <2> QED
    BY <2>1, <2>2
<1> QED
  BY <1>1, <1>2

-----------------------------------------------------------------------------
(* The inductive invariant and what follows from it *)

LEMMA Invariance == Spec => []IInv
<1>1. Init => IInv
  BY InitTyped, SeededAssumption
     DEF Init, IInv, NamesAreUnique, Undisturbed, Saving, Idle
<1>2. IInv /\ [Next]_vars => IInv'
  BY TypedStep, UniqueStep, UndisturbedStep DEF IInv
<1> QED
  BY <1>1, <1>2, PTL DEF Spec

(* No two roles ever have one name, whatever creates and saves overlap     *)
(* (roles.service.ts:32-38, 57).                                           *)
THEOREM UniqueNames == Spec => []NamesAreUnique
<1>1. IInv => NamesAreUnique
  BY DEF IInv
<1> QED
  BY <1>1, Invariance, PTL

(* A replacement that no other writer disturbed succeeds and is exact,     *)
(* however many requests are in flight (roles.service.ts:45-58).           *)
THEOREM ExactReplacements == Spec => []UndisturbedReplacementsAreExact
<1>1. IInv => UndisturbedReplacementsAreExact
  <2> SUFFICES ASSUME IInv, NEW r \in Saving \ disturbed, req[r].at = "save.write"
               PROVE  req[r].found /\ Writable(r) /\ Granted(r) = req[r].permissions
    BY DEF UndisturbedReplacementsAreExact
  <2>1. /\ req[r].role \in DOMAIN roles /\ req[r].found
        /\ req[r].read = roles[req[r].role].permissions
    BY DEF IInv, Undisturbed
  <2>2. req[r].permissions \subseteq permissions
    BY DEF IInv, Typed, Prepared
  <2> QED
    BY <2>1, <2>2, ExactRelation DEF Writable, Granted
<1> QED
  BY <1>1, Invariance, PTL

(* A removed role comes back only by a save that its removal disturbed     *)
(* (roles.service.ts:40-43, 57).                                           *)
THEOREM ReturnedRoles == Spec => ReturnsNeedARace
<1>1. ASSUME IInv, [Next]_vars, NEW id \in drawn, id \notin DOMAIN roles, id \in DOMAIN roles'
      PROVE  \E r \in disturbed : req[r].role = id /\ req'[r] = Idle
  <2>1. ASSUME NEW r \in Request, SaveInsert(r)
        PROVE  r \in disturbed /\ req[r].role = id /\ req'[r] = Idle
    <3>1. r \in Saving
      BY <2>1 DEF SaveInsert, Saving
    <3>2. r \in disturbed
      BY <1>1, <2>1, <3>1 DEF SaveInsert, RoleInsertable, IInv, Undisturbed
    <3>3. req[r].role = id
      BY <1>1, <2>1 DEF SaveInsert, Insert
    <3>4. req' = [req EXCEPT ![r] = Idle] /\ req \in [Request -> Locals]
      BY <1>1, <2>1 DEF SaveInsert, Finish, IInv, Typed, TypeOK
    <3>5. req'[r] = Idle
      BY <3>4
    <3> QED
      BY <3>2, <3>3, <3>5
  <2>2. ASSUME NEW r \in Request, CreateSave(r) PROVE FALSE
    BY <1>1, <2>2 DEF CreateSave, Insert
  <2>3. ASSUME NEW r \in Request, RoleRemove(r) \/ SaveWrite(r) PROVE FALSE
    BY <1>1, <2>3 DEF RoleRemove, SaveWrite, IInv, Typed, TypeOK, IsTable
  <2> QED
    BY <1>1, <2>1, <2>2, <2>3
       DEF Next, vars, CreatePermission, PermissionSave, Create, CreateRefused, Remove,
           SetPermissions, SaveLoad, SaveRefused, Fail
<1>2. IInv /\ [Next]_vars =>
        [\A id \in drawn :
           id \notin DOMAIN roles /\ id \in DOMAIN roles' =>
             \E r \in disturbed : req[r].role = id /\ req'[r] = Idle]_vars
  BY <1>1
<1> QED
  BY <1>2, Invariance, PTL DEF Spec, ReturnsNeedARace

-----------------------------------------------------------------------------
(* Overlapping replacements *)

(* What each replacement in flight relies on: it has met every replacement *)
(* of its role now in flight, itself included; of the permissions it read, *)
(* those that all it has met ask for are still stored; and of the stored   *)
(* ones, those that none of them asks for it has read.                     *)
Agreed(q, met, row) ==
  /\ \A p \in q.read : (\A asked \in met : p \in asked) => p \in row.permissions
  /\ row.permissions \ UNION met \subseteq q.read
Agreeing ==
  \A r \in Saving :
    /\ \A s \in Saving : req[s].role = req[r].role => req[s].permissions \in overlapping[r]
    /\ req[r].at = "save.write" /\ req[r].found /\ req[r].role \in DOMAIN roles =>
         Agreed(req[r], overlapping[r], roles[req[r].role])

(* A replacement that begins meets those in flight and is met by them.     *)
LEMMA BeginAgrees ==
  ASSUME Typed, Agreeing, NEW r \in Request, SetPermissions(r)
  PROVE  Agreeing'
<1> USE DEF Typed, TypeOK
<1> PICK id \in DOMAIN roles, asked \in SUBSET permissions :
      /\ Begin(r, [Idle EXCEPT !.at = "save.load", !.role = id,
           !.name = roles[id].name, !.permissions = asked])
      /\ Overlap(r, id, asked)
  BY DEF SetPermissions
<1>1. /\ r \notin Saving
      /\ req'[r].at = "save.load" /\ req'[r].role = id /\ req'[r].permissions = asked
      /\ \A s \in Request \ {r} : req'[s] = req[s]
      /\ Saving' = Saving \cup {r}
  BY DEF Begin, Idle, Saving
<1>2. roles' = roles
  BY DEF SetPermissions
<1>3. overlapping'[r] = {asked} \cup {req[q].permissions : q \in Replacing(id)}
  BY DEF Overlap
<1>4. \A s \in Saving : overlapping'[s] = IF req[s].role = id THEN overlapping[s] \cup {asked}
                                        ELSE overlapping[s]
  BY <1>1 DEF Overlap, Replacing, Saving
<1>5. ASSUME NEW q \in Saving', NEW s \in Saving', req'[s].role = req'[q].role
      PROVE  req'[s].permissions \in overlapping'[q]
  <2>1. CASE q = r /\ s = r
    BY <1>1, <1>3, <2>1
  <2>2. CASE q = r /\ s # r
    <3>1. s \in Replacing(id) /\ req'[s] = req[s]
      BY <1>1, <1>5, <2>2 DEF Replacing, Saving
    <3> QED
      BY <1>3, <2>2, <3>1
  <2>3. CASE q # r /\ s = r
    BY <1>1, <1>4, <1>5, <2>3 DEF Saving
  <2>4. CASE q # r /\ s # r
    <3>1. q \in Saving /\ s \in Saving /\ req'[q] = req[q] /\ req'[s] = req[s]
      BY <1>1, <2>4 DEF Saving
    <3>2. req[s].permissions \in overlapping[q]
      BY <1>5, <3>1 DEF Agreeing
    <3> QED
      BY <1>4, <3>1, <3>2
  <2> QED
    BY <2>1, <2>2, <2>3, <2>4
<1>6. ASSUME NEW q \in Saving', req'[q].at = "save.write", req'[q].found,
             req'[q].role \in DOMAIN roles'
      PROVE  Agreed(req'[q], overlapping'[q], roles'[req'[q].role])
  <2>1. q \in Saving /\ req'[q] = req[q]
    BY <1>1, <1>6 DEF Saving
  <2>2. Agreed(req[q], overlapping[q], roles[req[q].role])
    BY <1>2, <1>6, <2>1 DEF Agreeing
  <2>3. overlapping[q] \subseteq overlapping'[q]
    BY <1>4, <2>1
  <2> QED
    BY <1>2, <2>1, <2>2, <2>3 DEF Agreed
<1> QED
  BY <1>5, <1>6 DEF Agreeing

(* What save's SELECT finds is what is stored.                             *)
LEMMA LoadAgrees ==
  ASSUME Typed, Agreeing, NEW r \in Request, SaveLoad(r)
  PROVE  Agreeing'
<1> USE DEF Typed, TypeOK
<1>1. /\ \A s \in Request \ {r} : req'[s] = req[s]
      /\ req'[r].role = req[r].role /\ req'[r].permissions = req[r].permissions
      /\ req'[r].read = IF req[r].role \in DOMAIN roles
                        THEN roles[req[r].role].permissions ELSE {}
      /\ r \in Saving /\ Saving' = Saving
      /\ UNCHANGED <<roles, overlapping>>
  BY DEF SaveLoad, Saving, Locals, history
<1>2. ASSUME NEW q \in Saving, req'[q].at = "save.write", req'[q].found,
             req'[q].role \in DOMAIN roles
      PROVE  Agreed(req'[q], overlapping[q], roles[req'[q].role])
  <2>1. CASE q = r
    BY <1>1, <1>2, <2>1 DEF Agreed
  <2>2. CASE q # r
    BY <1>1, <1>2, <2>2 DEF Agreeing, Saving
  <2> QED
    BY <2>1, <2>2
<1>3. \A q, s \in Saving : req'[s].role = req'[q].role => req'[s].permissions \in overlapping[q]
  BY <1>1 DEF Agreeing, Saving
<1> QED
  BY <1>1, <1>2, <1>3 DEF Agreeing

(* One that writes keeps what it and the others agree on.                  *)
LEMMA WriteAgrees ==
  ASSUME NEW q, NEW met, NEW row, Agreed(q, met, row), NEW asked \in met, NEW readSet, NEW written,
         written.permissions = WrittenRelation(row.permissions, readSet, asked)
  PROVE  Agreed(q, met, written)
BY DEF Agreed, WrittenRelation, Inserted, Deleted

LEMMA EndAgrees ==
  ASSUME Typed, Agreeing, NEW r \in Request,
         \/ PermissionSave(r) \/ CreateSave(r) \/ CreateRefused(r) \/ RoleRemove(r)
         \/ SaveWrite(r) \/ SaveInsert(r) \/ SaveRefused(r) \/ Fail(r)
  PROVE  Agreeing'
<1> USE DEF Typed, TypeOK
<1>1. /\ Saving' = Saving \ {r}
      /\ \A s \in Saving \ {r} : req'[s] = req[s] /\ overlapping'[s] = overlapping[s]
  <2>1. req' = [req EXCEPT ![r] = Idle]
    BY RequestEnds
  <2>2. UNCHANGED overlapping \/ overlapping' = [overlapping EXCEPT ![r] = {}]
    BY DEF history, PermissionSave, CreateSave, CreateRefused, RoleRemove, SaveWrite,
       SaveInsert, SaveRefused, Fail, Disturb, Undisturb
  <2> QED
    BY <2>1, <2>2 DEF Saving, Idle
<1>2. ASSUME NEW q \in Saving \ {r}, req[q].at = "save.write", req[q].found,
             req[q].role \in DOMAIN roles'
      PROVE  Agreed(req[q], overlapping[q], roles'[req[q].role])
  <2> DEFINE id == req[q].role
  <2>1. id \in DOMAIN roles => Agreed(req[q], overlapping[q], roles[id])
    BY <1>2 DEF Agreeing
  <2>2. CASE id \in DOMAIN roles /\ roles'[id] = roles[id]
    BY <2>1, <2>2
  <2>3. ASSUME r \in Saving, req[r].role = id PROVE req[r].permissions \in overlapping[q]
    BY <2>3 DEF Agreeing
  <2>4. CASE SaveWrite(r)
    <3>1. req[r].role \in DOMAIN roles /\ r \in Saving
      BY <2>4 DEF SaveWrite, Writable, Saving
    <3>2. roles[req[r].role] \in Role
      BY <3>1 DEF IsTable
    <3>3. DOMAIN roles' = DOMAIN roles
          /\ roles'[id] = IF id = req[r].role
                         THEN [roles[id] EXCEPT !.permissions = Granted(r)] ELSE roles[id]
      BY <1>2, <2>4, <3>1 DEF SaveWrite, IsTable
    <3>4. CASE id = req[r].role
      <4>1. roles'[id].permissions
              = WrittenRelation(roles[id].permissions, req[r].read, req[r].permissions)
        BY <3>2, <3>3, <3>4 DEF Granted, Role
      <4> QED
        BY <2>1, <2>3, <3>1, <3>4, <4>1, WriteAgrees
    <3> QED
      BY <1>2, <2>2, <3>3, <3>4
  <2>5. CASE SaveInsert(r)
    <3>1. /\ req[r].role \notin DOMAIN roles /\ r \in Saving
          /\ \A k \in DOMAIN roles : roles'[k] = roles[k]
          /\ roles'[req[r].role].permissions = req[r].permissions
          /\ DOMAIN roles' = DOMAIN roles \cup {req[r].role}
      BY <2>5 DEF SaveInsert, RoleInsertable, Saving, Insert
    <3>2. CASE id = req[r].role
      BY <2>3, <3>1, <3>2 DEF Agreed
    <3> QED
      BY <1>2, <2>2, <3>1, <3>2
  <2>6. CASE CreateSave(r)
    <3> PICK new \in RoleId \ drawn :
          roles' = Insert(roles, new, [name |-> req[r].name, permissions |-> {}])
      BY <2>6 DEF CreateSave
    <3>1. id \in drawn
      BY DEF Prepared
    <3> QED
      BY <1>2, <2>2, <3>1 DEF Insert
  <2>7. CASE RoleRemove(r)
    BY <1>2, <2>2, <2>7 DEF RoleRemove
  <2>8. CASE UNCHANGED roles
    BY <1>2, <2>2, <2>8
  <2> QED
    BY <2>4, <2>5, <2>6, <2>7, <2>8 DEF PermissionSave, CreateRefused, SaveRefused, Fail
<1> QED
  BY <1>1, <1>2 DEF Agreeing

LEMMA AgreeingStep == Typed /\ Agreeing /\ [Next]_vars => Agreeing'
<1> SUFFICES ASSUME Typed, Agreeing, [Next]_vars PROVE Agreeing'
  OBVIOUS
<1>1. CASE UNCHANGED vars
  BY <1>1 DEF vars, Agreeing, Saving
<1>2. ASSUME NEW r \in Request, CreatePermission(r) \/ Create(r) \/ Remove(r)
      PROVE  Agreeing'
  <2>1. /\ r \notin Saving /\ UNCHANGED <<roles, overlapping>>
        /\ \E locals : /\ locals.at \notin {"save.load", "save.write"}
                       /\ req' = [req EXCEPT ![r] = locals]
    <3>1. Idle.at = "idle"
          /\ \A p : [Idle EXCEPT !.at = "permission.save", !.permissions = {p}].at
                      = "permission.save"
          /\ \A name : [Idle EXCEPT !.at = "role.save", !.name = name].at = "role.save"
          /\ \A id : [Idle EXCEPT !.at = "role.remove", !.role = id].at = "role.remove"
      BY DEF Idle
    <3>2. r \notin Saving /\ UNCHANGED <<roles, overlapping>>
      BY <1>2, <3>1 DEF CreatePermission, Create, Remove, Begin, Saving, history
    <3> QED
      BY <1>2, <3>1, <3>2 DEF CreatePermission, Create, Remove, Begin
  <2>2. Saving' = Saving /\ \A s \in Saving : req'[s] = req[s]
    BY <2>1 DEF Saving, Typed, TypeOK
  <2> QED
    BY <2>1, <2>2 DEF Agreeing
<1> QED
  BY <1>1, <1>2, BeginAgrees, LoadAgrees, EndAgrees DEF Next

(* Overlapping replacements of a role leave what they agree on exactly as  *)
(* they ask for it, whatever else they mix (roles.service.ts:45-58).       *)
THEOREM AgreedReplacements == Spec => AgreedPermissionsAreExact
<1>1. Init => Typed /\ Agreeing
  BY InitTyped DEF Init, Agreeing, Saving, Idle
<1>2. ASSUME Typed, Agreeing, NEW r \in Request, SaveWrite(r) \/ SaveInsert(r)
      PROVE  LET granted == roles'[req[r].role].permissions IN
             /\ granted \subseteq UNION overlapping[r]
             /\ \A p \in Permission :
                  (\A asked \in overlapping[r] : p \in asked) => p \in granted
  <2>1. r \in Saving /\ req[r].permissions \in overlapping[r]
    BY <1>2 DEF Agreeing, SaveWrite, SaveInsert, Saving
  <2>2. CASE SaveWrite(r)
    <3>1. /\ req[r].role \in DOMAIN roles
          /\ Agreed(req[r], overlapping[r], roles[req[r].role])
      BY <1>2, <2>1, <2>2 DEF SaveWrite, Writable, Agreeing
    <3>2. roles[req[r].role] \in Role
      BY <1>2, <3>1 DEF Typed, TypeOK, IsTable
    <3>3. roles'[req[r].role].permissions
            = WrittenRelation(roles[req[r].role].permissions, req[r].read, req[r].permissions)
      BY <2>2, <3>1, <3>2 DEF SaveWrite, Granted, Role
    <3> QED
      BY <2>1, <3>1, <3>3 DEF Agreed, WrittenRelation, Inserted, Deleted
  <2>3. CASE SaveInsert(r)
    <3>1. roles'[req[r].role].permissions = req[r].permissions
      BY <2>3 DEF SaveInsert, Insert
    <3> QED
      BY <2>1, <3>1
  <2> QED
    BY <1>2, <2>2, <2>3
<1>3. Typed /\ Agreeing =>
        [\A r \in Request : SaveWrite(r) \/ SaveInsert(r) =>
           LET granted == roles'[req[r].role].permissions IN
           /\ granted \subseteq UNION overlapping[r]
           /\ \A p \in Permission :
                (\A asked \in overlapping[r] : p \in asked) => p \in granted]_vars
  BY <1>2
<1> QED
  BY <1>1, <1>3, TypedStep, AgreeingStep, PTL DEF Spec, AgreedPermissionsAreExact
=============================================================================
