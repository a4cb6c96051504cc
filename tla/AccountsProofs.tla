--------------------------- MODULE AccountsProofs ---------------------------
(***************************************************************************)
(* What holds of accounts, their saves and their avatars for every set of  *)
(* users, roles, files and requests.  Two arguments: while nobody else     *)
(* writes the row, a save's entity is that row but for its own column      *)
(* (Undisturbed); and every file belongs to one user, the file of an       *)
(* upload in flight is named nowhere else, and a file about to be deleted  *)
(* is named by no row that has not been rewound (FilesInv).                *)
(***************************************************************************)
EXTENDS Accounts, TLAPS

Step(r) ==
  \/ Create(r) \/ CreateSave(r) \/ Seed(r) \/ SeedUser(r) \/ SeedRole(r)
  \/ Update(r) \/ UpdateAvatar(r) \/ AssignRoles(r)
  \/ SaveLoad(r) \/ SaveWrite(r) \/ SaveRefused(r) \/ Unlink(r)
  \/ UpdatePassword(r) \/ RemoveRole(r) \/ AddRole(r) \/ Fail(r)

(* What a handler has established by the time it reaches a statement.      *)
Ready(q, accounts) ==
  /\ q.at \in {"create.save", "seed.user"} =>
       q.user \in User /\ q.entity \in Row /\ q.entity.avatarUrl = None
  /\ q.at = "seed.user" => q.entity.roles = {}
  /\ q.at = "seed.role" => SeedAdmin \in accounts
  /\ q.at \in {"save.load", "save.write"} =>
       /\ q.user \in accounts /\ q.column \in Column /\ q.entity \in Row
       /\ q.column = "avatarUrl" \/ q.previous = None
  /\ q.at = "save.write" => q.read \in Row
  /\ q.at = "unlink" => q.previous \in File

Prepared == \A r \in Request : Ready(req[r], DOMAIN users)

(* The foreign keys of user_roles.                                         *)
Referenced == \A u \in DOMAIN users : users[u].roles \subseteq roles

Typed == TypeOK /\ Prepared /\ Referenced

Undisturbed ==
  \A r \in Saving \ disturbed :
    /\ req[r].entity =
         [users[req[r].user] EXCEPT ![req[r].column] = req[r].entity[req[r].column]]
    /\ req[r].entity.roles \subseteq roles
    /\ req[r].at = "save.write" => req[r].read = users[req[r].user]

(* A file belongs to the user whose row names it or has a save in flight   *)
(* that may write or delete it.                                            *)
Belongs(f, u) ==
  \/ u \in DOMAIN users /\ users[u].avatarUrl = f
  \/ \E r \in Saving : req[r].user = u /\ (req[r].entity.avatarUrl = f \/ req[r].previous = f)

FilesAreOwned ==
  /\ \A f \in File, u \in User : Belongs(f, u) => f \in uploaded
  /\ \A f \in File, u, w \in User : Belongs(f, u) /\ Belongs(f, w) => u = w
  /\ \A r \in Request : req[r].at = "unlink" => req[r].previous \in uploaded

(* The file of an upload in flight is there, and nothing else names it.    *)
Uploading == {r \in Saving : req[r].column = "avatarUrl"}
NewFilesAreNew ==
  \A r \in Uploading :
    LET new == req[r].entity.avatarUrl IN
    /\ new \in files
    /\ \A u \in DOMAIN users : users[u].avatarUrl # new
    /\ req[r].previous # new
    /\ req[r].at = "save.write" => req[r].read.avatarUrl # new
    /\ \A q \in Request \ {r} :
         /\ q \in Saving => req[q].entity.avatarUrl # new
         /\ q \in Saving \/ req[q].at = "unlink" => req[q].previous # new

(* The file about to be deleted is named by no row that is not rewound.    *)
OldFilesAreOld ==
  \A r \in Request, u \in DOMAIN users \ rewound :
    req[r].at = "unlink" => users[u].avatarUrl # req[r].previous

FilesInv == FilesAreOwned /\ NewFilesAreNew /\ OldFilesAreOld /\ AvatarExists

-----------------------------------------------------------------------------
(* Lemmas about the operators *)

LEMMA InsertIsTable ==
  ASSUME IsTable(users, User, Row), NEW u \in User, NEW row \in Row,
         users' = Insert(users, u, row)
  PROVE  /\ IsTable(users', User, Row)
         /\ DOMAIN users' = DOMAIN users \cup {u}
         /\ users'[u] = row
         /\ \A w \in DOMAIN users \ {u} : users'[w] = users[w]
  BY DEF IsTable, Insert

LEMMA EditedRow ==
  ASSUME NEW row \in Row, NEW column \in Column, NEW value,
         column = "firstName" => value \in Name,
         column = "avatarUrl" => value \in File,
         column = "roles" => value \in SUBSET Role
  PROVE  /\ [row EXCEPT ![column] = value] \in Row
         /\ [row EXCEPT ![column] = value][column] = value
         /\ [row EXCEPT ![column] = value].passwordHash = row.passwordHash
         /\ column # "avatarUrl" =>
              [row EXCEPT ![column] = value].avatarUrl = row.avatarUrl
         /\ column # "roles" =>
              [row EXCEPT ![column] = value].roles = row.roles
  BY DEF Row, Column

(* What a save writes is made of what is stored and what it was given.     *)
LEMMA WrittenRow ==
  ASSUME Typed, NEW r \in Request, req[r].at = "save.write"
  PROVE  /\ Written(r) \in Row
         /\ Written(r).avatarUrl =
              WrittenColumn(users[req[r].user].avatarUrl, req[r].read.avatarUrl,
                            req[r].entity.avatarUrl)
         /\ Written(r).roles =
              WrittenRelation(users[req[r].user].roles, req[r].read.roles,
                              req[r].entity.roles)
<1>1. users[req[r].user] \in Row /\ req[r].read \in Row /\ req[r].entity \in Row
  BY DEF Typed, TypeOK, IsTable, Prepared, Ready
<1>2. ASSUME NEW stored \in Row, NEW found \in Row, NEW entity \in Row
      PROVE  LET written == [column \in DOMAIN stored |->
                               IF column = "roles"
                               THEN WrittenRelation(stored.roles, found.roles, entity.roles)
                               ELSE WrittenColumn(stored[column], found[column], entity[column])]
             IN /\ written \in Row
                /\ written.avatarUrl =
                     WrittenColumn(stored.avatarUrl, found.avatarUrl, entity.avatarUrl)
                /\ written.roles =
                     WrittenRelation(stored.roles, found.roles, entity.roles)
  BY DEF Row, WrittenRelation, WrittenColumn, Inserted, Deleted
<1> QED
  BY <1>1, <1>2 DEF Written

(* A save that has read what is stored writes the entity.                  *)
LEMMA WrittenIsEntity ==
  ASSUME Typed, NEW r \in Request, req[r].at = "save.write",
         req[r].read = users[req[r].user]
  PROVE  Written(r) = req[r].entity
<1>1. users[req[r].user] \in Row /\ req[r].entity \in Row
  BY DEF Typed, TypeOK, IsTable, Prepared, Ready
<1>2. ASSUME NEW stored \in Row, NEW entity \in Row
      PROVE  [column \in DOMAIN stored |->
                IF column = "roles"
                THEN WrittenRelation(stored.roles, stored.roles, entity.roles)
                ELSE WrittenColumn(stored[column], stored[column], entity[column])] = entity
  BY DEF Row, WrittenRelation, WrittenColumn, Inserted, Deleted
<1> QED
  BY <1>1, <1>2 DEF Written

-----------------------------------------------------------------------------
(* Typed *)

LEMMA InitTyped == Init => Typed
<1> SUFFICES ASSUME Init PROVE Typed
  OBVIOUS
<1>1. TypeOK
  BY RolesAssumption DEF Init, TypeOK, IsTable, EmptyTable, Idle, Locals, Statement, Saving
<1>2. Prepared /\ Referenced
  BY DEF Init, Prepared, Ready, Idle, Referenced, EmptyTable
<1> QED
  BY <1>1, <1>2 DEF Typed

LEMMA TablesTyped ==
  ASSUME Typed, NEW r \in Request, Step(r)
  PROVE  /\ IsTable(users', User, Row)
         /\ Referenced'
         /\ DOMAIN users \subseteq DOMAIN users'
         /\ roles' \subseteq Role
         /\ files' \subseteq uploaded' /\ uploaded' \subseteq File
         /\ uploaded \subseteq uploaded'
         /\ rewound' \subseteq DOMAIN users'
<1> USE DEF Typed, TypeOK
<1>1. CASE UNCHANGED <<users, roles, files, uploaded, rewound>>
  BY <1>1 DEF Referenced
<1>2. CASE CreateSave(r)
  <2>1. req[r].user \in User /\ req[r].entity \in Row
    BY <1>2 DEF CreateSave, Prepared, Ready
  <2>2. UNCHANGED <<roles, files, uploaded, rewound>>
    BY <1>2 DEF CreateSave, history
  <2>3. CASE UNCHANGED users
    BY <2>2, <2>3 DEF Referenced
  <2>4. CASE /\ req[r].entity.roles \subseteq roles
             /\ users' = Insert(users, req[r].user, req[r].entity)
    <3>1. /\ IsTable(users', User, Row)
          /\ DOMAIN users' = DOMAIN users \cup {req[r].user}
          /\ users'[req[r].user] = req[r].entity
          /\ \A w \in DOMAIN users \ {req[r].user} : users'[w] = users[w]
      BY <2>1, <2>4, InsertIsTable
    <3> QED
      BY <2>2, <2>4, <3>1 DEF Referenced
  <2> QED
    BY <1>2, <2>3, <2>4 DEF CreateSave
<1>3. CASE SeedUser(r)
  <2>1. req[r].entity \in Row /\ SeedAdmin \in User
    BY <1>3, SeedAssumption DEF SeedUser, Prepared, Ready
  <2>2. UNCHANGED <<roles, files, uploaded, rewound>>
    BY <1>3 DEF SeedUser, history
  <2>3. CASE UNCHANGED users
    BY <2>2, <2>3 DEF Referenced
  <2>4. CASE users' = Insert(users, SeedAdmin, req[r].entity)
    <3>1. /\ IsTable(users', User, Row)
          /\ DOMAIN users' = DOMAIN users \cup {SeedAdmin}
          /\ users'[SeedAdmin] = req[r].entity
          /\ \A w \in DOMAIN users \ {SeedAdmin} : users'[w] = users[w]
      BY <2>1, <2>4, InsertIsTable
    <3>2. req[r].entity.roles = {}
      BY <1>3 DEF SeedUser, Prepared, Ready
    <3> QED
      BY <2>2, <3>1, <3>2 DEF Referenced
  <2> QED
    BY <1>3, <2>3, <2>4 DEF SeedUser
<1>4. ASSUME NEW u \in DOMAIN users, NEW row \in Row, row.roles \subseteq roles,
             users' = [users EXCEPT ![u] = row],
             UNCHANGED roles, files' \subseteq uploaded, UNCHANGED uploaded,
             rewound' \subseteq DOMAIN users
      PROVE  /\ IsTable(users', User, Row)
             /\ Referenced'
             /\ DOMAIN users \subseteq DOMAIN users'
             /\ rewound' \subseteq DOMAIN users'
  <2>1. /\ DOMAIN users' = DOMAIN users /\ users'[u] = row
        /\ \A w \in DOMAIN users \ {u} : users'[w] = users[w]
    BY <1>4
  <2>2. IsTable(users', User, Row)
    BY <1>4, <2>1 DEF IsTable
  <2>3. Referenced'
    BY <1>4, <2>1 DEF Referenced
  <2> QED
    BY <1>4, <2>1, <2>2, <2>3
<1>5. CASE SeedRole(r)
  <2> DEFINE row == [users[SeedAdmin] EXCEPT !.roles = @ \cup {AdminRole}]
  <2>1. SeedAdmin \in DOMAIN users /\ UNCHANGED <<roles, files, uploaded, rewound>>
    BY <1>5 DEF SeedRole, Prepared, Ready
  <2>2. CASE UNCHANGED users
    BY <2>1, <2>2 DEF Referenced
  <2>3. CASE AdminRole \in roles /\ users' = [users EXCEPT ![SeedAdmin] = row]
    <3>1. users[SeedAdmin] \in Row /\ users[SeedAdmin].roles \subseteq roles
      BY <2>1 DEF IsTable, Referenced
    <3>2. row \in Row /\ row.roles = users[SeedAdmin].roles \cup {AdminRole}
      BY <3>1, RolesAssumption DEF Row
    <3> HIDE DEF row
    <3> QED
      BY <1>4, <2>1, <2>3, <3>1, <3>2
  <2> QED
    BY <1>5, <2>2, <2>3 DEF SeedRole
<1>6. CASE SaveWrite(r)
  <2>1. req[r].at = "save.write" /\ req[r].user \in DOMAIN users
    BY <1>6 DEF SaveWrite, Prepared, Ready
  <2>2. Written(r) \in Row /\ Written(r).roles \subseteq roles
    BY <1>6, <2>1, WrittenRow DEF SaveWrite, Accepted, Insertable, WrittenRelation, Referenced
  <2>3. rewound' \subseteq DOMAIN users
    BY <1>6, <2>1 DEF SaveWrite, Rewind
  <2> QED
    BY <1>4, <1>6, <2>1, <2>2, <2>3 DEF SaveWrite
<1>7. CASE UpdatePassword(r)
  <2> PICK u \in DOMAIN users, p \in Password :
        users' = [users EXCEPT ![u].passwordHash = p]
    BY <1>7 DEF UpdatePassword
  <2> DEFINE row == [users[u] EXCEPT !.passwordHash = p]
  <2>1. users[u] \in Row /\ users[u].roles \subseteq roles
    BY DEF IsTable, Referenced
  <2>2. row \in Row /\ row.roles = users[u].roles
    BY <2>1 DEF Row
  <2>3. users' = [users EXCEPT ![u] = row]
    OBVIOUS
  <2> HIDE DEF row
  <2> QED
    BY <1>4, <1>7, <2>1, <2>2, <2>3 DEF UpdatePassword
<1>8. CASE RemoveRole(r)
  <2> PICK role \in roles :
        /\ roles' = roles \ {role}
        /\ users' = [u \in DOMAIN users |-> [users[u] EXCEPT !.roles = @ \ {role}]]
    BY <1>8 DEF RemoveRole
  <2>1. ASSUME NEW u \in DOMAIN users
        PROVE  /\ [users[u] EXCEPT !.roles = @ \ {role}] \in Row
               /\ [users[u] EXCEPT !.roles = @ \ {role}].roles \subseteq roles \ {role}
    BY <2>1 DEF IsTable, Row, Referenced
  <2>2. IsTable(users', User, Row) /\ Referenced'
    BY <2>1 DEF IsTable, Referenced
  <2> QED
    BY <1>8, <2>2 DEF RemoveRole
<1>9. CASE AddRole(r)
  BY <1>9 DEF AddRole, history, Referenced
<1>10. CASE UpdateAvatar(r)
  BY <1>10 DEF UpdateAvatar, history, Referenced
<1>11. CASE Unlink(r)
  BY <1>11 DEF Unlink, history, Referenced
<1> QED
  BY <1>1, <1>2, <1>3, <1>5, <1>6, <1>7, <1>8, <1>9, <1>10, <1>11
     DEF Step, Create, Seed, Update, AssignRoles, SaveLoad, SaveRefused, Fail, history

LEMMA IdleIsReady == Idle \in Locals /\ Idle.at = "idle" /\ \A accounts : Ready(Idle, accounts)
  BY DEF Idle, Locals, Statement, Ready

(* A step leaves its request with locals that fit the statement it is at.  *)
LEMMA RequestStep ==
  ASSUME Typed, NEW r \in Request, Step(r)
  PROVE  \E locals \in Locals : req' = [req EXCEPT ![r] = locals] /\ Ready(locals, DOMAIN users')
<1> USE DEF Typed, TypeOK
<1>0. req \in [Request -> Locals] /\ DOMAIN users \subseteq DOMAIN users'
  BY TablesTyped
<1>1. CASE req' = [req EXCEPT ![r] = Idle]
  BY <1>1, IdleIsReady
<1>2. CASE UNCHANGED req
  <2>1. req[r] \in Locals /\ Ready(req[r], DOMAIN users')
    BY <1>0, <1>2 DEF Prepared, Ready
  <2> QED
    BY <1>0, <1>2, <2>1
<1>3. CASE Create(r)
  <2> PICK u \in User \ DOMAIN users, p \in Password, n \in Name :
        Begin(r, [Idle EXCEPT !.at = "create.save", !.user = u,
          !.entity = [passwordHash |-> p, firstName |-> n, avatarUrl |-> None,
                      roles |-> {DefaultRole} \cap roles]])
    BY <1>3 DEF Create
  <2> DEFINE row == [passwordHash |-> p, firstName |-> n, avatarUrl |-> None,
                     roles |-> {DefaultRole} \cap roles]
             locals == [Idle EXCEPT !.at = "create.save", !.user = u, !.entity = row]
  <2>1. row \in Row /\ row.avatarUrl = None
    BY RolesAssumption DEF Row
  <2> HIDE DEF row
  <2>2. locals \in Locals /\ locals.at = "create.save" /\ locals.user = u
        /\ locals.entity = row
    BY <2>1 DEF Idle, Locals, Statement
  <2>3. Ready(locals, DOMAIN users')
    BY <2>1, <2>2 DEF Ready
  <2> QED
    BY <2>2, <2>3 DEF Begin, row
<1>4. CASE Seed(r)
  <2> PICK p \in Password, n \in Name :
        Begin(r, [Idle EXCEPT !.at = "seed.user", !.user = SeedAdmin,
          !.entity = [passwordHash |-> p, firstName |-> n, avatarUrl |-> None,
                      roles |-> {}]])
    BY <1>4 DEF Seed
  <2> DEFINE row == [passwordHash |-> p, firstName |-> n, avatarUrl |-> None, roles |-> {}]
             locals == [Idle EXCEPT !.at = "seed.user", !.user = SeedAdmin, !.entity = row]
  <2>1. row \in Row /\ row.avatarUrl = None /\ row.roles = {}
    BY DEF Row
  <2> HIDE DEF row
  <2>2. locals \in Locals /\ locals.at = "seed.user" /\ locals.user = SeedAdmin
        /\ locals.entity = row
    BY <2>1, SeedAssumption DEF Idle, Locals, Statement
  <2>3. Ready(locals, DOMAIN users')
    BY <2>1, <2>2, SeedAssumption DEF Ready
  <2> QED
    BY <2>2, <2>3 DEF Begin, row
<1>5. CASE SeedUser(r)
  <2>1. CASE SeedAdmin \in DOMAIN users
    BY <1>1, <1>5, <2>1 DEF SeedUser, Finish
  <2>2. CASE SeedAdmin \notin DOMAIN users
    <3> DEFINE locals == [Idle EXCEPT !.at = "seed.role", !.user = SeedAdmin]
    <3>1. locals \in Locals /\ locals.at = "seed.role"
      BY SeedAssumption DEF Idle, Locals, Statement
    <3>2. SeedAdmin \in DOMAIN users' /\ req' = [req EXCEPT ![r] = locals]
      BY <1>5, <2>2 DEF SeedUser, Insert
    <3>3. Ready(locals, DOMAIN users')
      BY <3>1, <3>2 DEF Ready
    <3> QED
      BY <3>1, <3>2, <3>3
  <2> QED
    BY <2>1, <2>2
<1>6. ASSUME NEW u \in DOMAIN users, NEW column \in Column, NEW value,
             NEW previous \in File \cup {None},
             column = "avatarUrl" \/ previous = None,
             column = "firstName" => value \in Name,
             column = "avatarUrl" => value \in File,
             column = "roles" => value \in SUBSET Role,
             Edit(r, u, column, value, previous)
      PROVE  \E locals \in Locals : req' = [req EXCEPT ![r] = locals] /\ Ready(locals, DOMAIN users')
  <2> DEFINE row == [users[u] EXCEPT ![column] = value]
             locals == [Idle EXCEPT !.at = "save.load", !.user = u, !.column = column,
                          !.entity = row, !.previous = previous]
  <2>1. row \in Row
    BY <1>6, EditedRow DEF IsTable
  <2>2. req' = [req EXCEPT ![r] = locals]
    BY <1>6 DEF Edit, Begin
  <2> HIDE DEF row
  <2>3. /\ locals \in Locals /\ locals.at = "save.load" /\ locals.user = u
        /\ locals.column = column /\ locals.entity = row /\ locals.previous = previous
    BY <2>1 DEF Idle, Locals, Statement, IsTable
  <2>4. Ready(locals, DOMAIN users')
    BY <1>0, <1>6, <2>1, <2>3 DEF Ready
  <2> QED
    BY <2>2, <2>3, <2>4
<1>7. CASE Update(r)
  BY <1>6, <1>7 DEF Update, Column
<1>8. CASE UpdateAvatar(r)
  <2>1. \A u \in DOMAIN users : users[u].avatarUrl \in File \cup {None}
    BY DEF IsTable, Row
  <2> QED
    BY <1>6, <1>8, <2>1 DEF UpdateAvatar, Column
<1>9. CASE AssignRoles(r)
  BY <1>6, <1>9 DEF AssignRoles, Column
<1>10. CASE SaveLoad(r)
  <2> DEFINE locals == [req[r] EXCEPT !.at = "save.write", !.read = users[req[r].user]]
  <2>1. /\ req[r].user \in DOMAIN users /\ req[r].column \in Column
        /\ req[r].entity \in Row /\ users[req[r].user] \in Row
        /\ req[r].column = "avatarUrl" \/ req[r].previous = None
    BY <1>10 DEF SaveLoad, Prepared, Ready, IsTable
  <2>2. /\ locals \in Locals /\ locals.at = "save.write" /\ locals.user = req[r].user
        /\ locals.column = req[r].column /\ locals.entity = req[r].entity
        /\ locals.read = users[req[r].user] /\ locals.previous = req[r].previous
    BY <2>1 DEF Locals, Statement
  <2>3. Ready(locals, DOMAIN users')
    BY <1>0, <2>1, <2>2 DEF Ready
  <2> QED
    BY <1>10, <2>2, <2>3 DEF SaveLoad
<1>11. CASE SaveWrite(r)
  <2>1. CASE req[r].previous = None
    BY <1>1, <1>11, <2>1 DEF SaveWrite, Finish
  <2>2. CASE req[r].previous # None
    <3> DEFINE locals == [Idle EXCEPT !.at = "unlink", !.previous = req[r].previous]
    <3>1. req[r].previous \in File
      BY <2>2 DEF Locals
    <3>2. locals \in Locals /\ locals.at = "unlink" /\ locals.previous = req[r].previous
      BY <3>1 DEF Idle, Locals, Statement
    <3>3. Ready(locals, DOMAIN users')
      BY <3>1, <3>2 DEF Ready
    <3> QED
      BY <1>11, <2>2, <3>2, <3>3 DEF SaveWrite
  <2> QED
    BY <2>1, <2>2
<1> QED
  BY <1>1, <1>2, <1>3, <1>4, <1>5, <1>7, <1>8, <1>9, <1>10, <1>11
     DEF Step, CreateSave, SeedRole, SaveRefused, Unlink, UpdatePassword, RemoveRole,
         AddRole, Fail, Finish

(* Only a save in flight is ever disturbed.                                *)
LEMMA DisturbedSave ==
  ASSUME Typed, NEW r \in Request, Step(r)
  PROVE  disturbed' \subseteq Saving'
<1> PICK locals \in Locals : req' = [req EXCEPT ![r] = locals]
  BY RequestStep
<1>1. \A q \in Request \ {r} : req'[q] = req[q]
  BY DEF Typed, TypeOK
<1>2. CASE UNCHANGED disturbed /\ (r \in Saving => r \in Saving')
  BY <1>1, <1>2 DEF Typed, TypeOK, Saving
<1>3. CASE disturbed' \subseteq (disturbed \cup Saving) \ {r}
  BY <1>1, <1>3 DEF Typed, TypeOK, Saving
<1>4. CASE RemoveRole(r)
  BY <1>4 DEF RemoveRole, Typed, TypeOK, Saving
<1>5. CASE SaveLoad(r)
  <2>1. r \in Saving' /\ UNCHANGED disturbed
    BY <1>5 DEF SaveLoad, history, Saving, Typed, TypeOK, Locals
  <2> QED
    BY <1>2, <2>1
<1>6. CASE req[r] = Idle /\ UNCHANGED disturbed
  BY <1>2, <1>6 DEF Saving, Idle
<1> QED
  BY <1>2, <1>3, <1>4, <1>5, <1>6
     DEF Step, Create, CreateSave, Seed, SeedUser, SeedRole, Update, UpdateAvatar,
         AssignRoles, Edit, Begin, SaveWrite, SaveRefused, Unlink, UpdatePassword,
         AddRole, Fail, history, Disturb, SavingFor, Undisturb, Saving

LEMMA NextIsStep == Next => \E r \in Request : Step(r)
  BY DEF Next, Step

LEMMA TypedStep == Typed /\ [Next]_vars => Typed'
<1> SUFFICES ASSUME Typed, [Next]_vars PROVE Typed'
  OBVIOUS
<1>1. CASE UNCHANGED vars
  BY <1>1 DEF vars, Typed, TypeOK, Prepared, Ready, Referenced, Saving
<1>2. ASSUME NEW r \in Request, Step(r) PROVE Typed'
  <2> PICK locals \in Locals : req' = [req EXCEPT ![r] = locals] /\ Ready(locals, DOMAIN users')
    BY <1>2, RequestStep
  <2>1. DOMAIN users \subseteq DOMAIN users' /\ Referenced'
    BY <1>2, TablesTyped
  <2>2. TypeOK'
    BY <1>2, TablesTyped, DisturbedSave DEF Typed, TypeOK
  <2>3. Prepared'
    <3> SUFFICES ASSUME NEW q \in Request PROVE Ready(req'[q], DOMAIN users')
      BY DEF Prepared
    <3>1. CASE q = r
      BY <3>1 DEF Typed, TypeOK
    <3>2. CASE q # r
      <4>1. req'[q] = req[q] /\ Ready(req[q], DOMAIN users)
        BY <3>2 DEF Typed, TypeOK, Prepared
      <4> QED
        BY <2>1, <4>1 DEF Ready
    <3> QED
      BY <3>1, <3>2
  <2> QED
    BY <2>1, <2>2, <2>3 DEF Typed
<1> QED
  BY <1>1, <1>2, NextIsStep

(* Rows, files and requests stay well formed, for any users, roles, files  *)
(* and overlapping requests (users.service.ts:22-97).                      *)
THEOREM AccountsTypeCorrect == Spec => []TypeOK
<1>1. Init => Typed
  BY InitTyped
<1>2. Typed /\ [Next]_vars => Typed'
  BY TypedStep
<1>3. Typed => TypeOK
  BY DEF Typed
<1> QED
  BY <1>1, <1>2, <1>3, PTL DEF Spec

-----------------------------------------------------------------------------
(* Undisturbed saves *)

(* A step of another request leaves the row and the roles of a save alone, *)
(* or marks that save as disturbed.                                        *)
LEMMA LeftAlone ==
  ASSUME Typed, NEW r \in Request, Step(r), NEW s \in Saving, s # r, s \notin disturbed'
  PROVE  /\ s \notin disturbed
         /\ users'[req[s].user] = users[req[s].user]
         /\ roles \subseteq roles'
<1> USE DEF Typed, TypeOK
<1> DEFINE u == req[s].user
<1>0. u \in DOMAIN users
  BY DEF Prepared, Ready, Saving
<1>1. CASE UNCHANGED <<users, disturbed>> /\ roles \subseteq roles'
  BY <1>1
<1>2. ASSUME NEW w, UNCHANGED roles, Disturb(w, r), \A k \in DOMAIN users \ {w} : users'[k] = users[k]
      PROVE  /\ s \notin disturbed
             /\ users'[u] = users[u]
             /\ roles \subseteq roles'
  <2>1. s \notin disturbed /\ u # w
    BY <1>2 DEF Disturb, SavingFor
  <2> QED
    BY <1>0, <1>2, <2>1
<1>3. CASE CreateSave(r)
  BY <1>0, <1>3 DEF CreateSave, Insert, history
<1>4. CASE SeedUser(r)
  BY <1>0, <1>4 DEF SeedUser, Insert, history
<1>5. CASE SeedRole(r)
  BY <1>2, <1>5 DEF SeedRole, IsTable
<1>6. CASE SaveWrite(r)
  BY <1>2, <1>6 DEF SaveWrite, IsTable
<1>7. CASE UpdatePassword(r)
  BY <1>2, <1>7 DEF UpdatePassword, IsTable
<1>8. CASE RemoveRole(r)
  BY <1>8 DEF RemoveRole
<1>9. CASE SaveRefused(r) \/ Fail(r)
  BY <1>9 DEF SaveRefused, Fail, Undisturb
<1> QED
  BY <1>1, <1>3, <1>4, <1>5, <1>6, <1>7, <1>8, <1>9
     DEF Step, Create, Seed, Update, UpdateAvatar, AssignRoles, SaveLoad, Unlink,
         AddRole, history

(* The two steps that leave their request saving: save reads the row a     *)
(* second time, or the handler has just loaded the user.                   *)
ReadsAgain(r) ==
  /\ r \in Saving
  /\ req[r].at = "save.load"
  /\ req'[r] = [req[r] EXCEPT !.at = "save.write", !.read = users[req[r].user]]

Loads(r, u, column, value) ==
  /\ column = "firstName" => value \in Name
  /\ column = "avatarUrl" =>
       value \in File \ uploaded /\ value \in uploaded' \cap files'
  /\ column = "roles" => value \in SUBSET roles
  /\ req'[r].at = "save.load" /\ req'[r].user = u /\ req'[r].column = column
  /\ req'[r].entity = [users[u] EXCEPT ![column] = value]
  /\ req'[r].previous \in {None, users[u].avatarUrl}

LEMMA BeginsToSave ==
  ASSUME Typed, NEW r \in Request, Step(r), r \in Saving'
  PROVE  /\ UNCHANGED <<users, roles, disturbed>>
         /\ files \subseteq files'
         /\ \/ ReadsAgain(r)
            \/ \E u \in DOMAIN users, column \in Column : \E value : Loads(r, u, column, value)
<1> USE DEF Typed, TypeOK, Loads, ReadsAgain
<1>1. ASSUME req' = [req EXCEPT ![r] = Idle] PROVE FALSE
  BY <1>1 DEF Saving, Idle
<1>2. ASSUME req[r] = Idle, UNCHANGED req PROVE FALSE
  BY <1>2 DEF Saving, Idle
<1>3. CASE SaveLoad(r)
  BY <1>3 DEF SaveLoad, Saving, history
<1>4. ASSUME NEW u \in DOMAIN users, NEW column \in Column, NEW value, NEW previous,
             Edit(r, u, column, value, previous)
      PROVE  /\ req'[r].at = "save.load" /\ req'[r].user = u /\ req'[r].column = column
             /\ req'[r].entity = [users[u] EXCEPT ![column] = value]
             /\ req'[r].previous = previous
  BY <1>4 DEF Edit, Begin, Idle
<1>5. CASE Update(r)
  BY <1>4, <1>5 DEF Update, Column, history
<1>6. CASE UpdateAvatar(r)
  BY <1>4, <1>6 DEF UpdateAvatar, Column, history
<1>7. CASE AssignRoles(r)
  BY <1>4, <1>7 DEF AssignRoles, Column, history
<1>8. ASSUME req'[r].at \notin {"save.load", "save.write"} PROVE FALSE
  BY <1>8 DEF Saving
<1>9. CASE Create(r)
  <2>1. req'[r].at = "create.save"
    BY <1>9 DEF Create, Begin, Idle
  <2> QED
    BY <1>8, <2>1
<1>10. CASE Seed(r)
  <2>1. req'[r].at = "seed.user"
    BY <1>10 DEF Seed, Begin, Idle
  <2> QED
    BY <1>8, <2>1
<1>11. CASE SeedUser(r)
  <2>1. CASE Finish(r)
    BY <1>1, <2>1 DEF Finish
  <2>2. CASE req' = [req EXCEPT ![r] = [Idle EXCEPT !.at = "seed.role", !.user = SeedAdmin]]
    <3>1. req'[r].at = "seed.role"
      BY <2>2 DEF Idle
    <3> QED
      BY <1>8, <3>1
  <2> QED
    BY <1>11, <2>1, <2>2 DEF SeedUser
<1>12. CASE SaveWrite(r)
  <2>1. CASE Finish(r)
    BY <1>1, <2>1 DEF Finish
  <2>2. CASE req'[r].at = "unlink"
    BY <1>8, <2>2
  <2> QED
    BY <1>12, <2>1, <2>2 DEF SaveWrite, Idle
<1> QED
  BY <1>1, <1>2, <1>3, <1>5, <1>6, <1>7, <1>9, <1>10, <1>11, <1>12
     DEF Step, CreateSave, SeedRole, SaveRefused, Unlink, UpdatePassword, RemoveRole,
         AddRole, Fail, Finish

LEMMA UndisturbedStep ==
  ASSUME Typed, Undisturbed, [Next]_vars
  PROVE  Undisturbed'
<1>1. CASE UNCHANGED vars
  BY <1>1 DEF vars, Undisturbed, Saving
<1>2. ASSUME NEW r \in Request, Step(r), NEW s \in Request, s \in Saving', s \notin disturbed'
      PROVE  /\ req'[s].entity =
                  [users'[req'[s].user] EXCEPT ![req'[s].column] = req'[s].entity[req'[s].column]]
             /\ req'[s].entity.roles \subseteq roles'
             /\ req'[s].at = "save.write" => req'[s].read = users'[req'[s].user]
  <2>1. CASE s # r
    <3>1. req'[s] = req[s]
      BY <1>2, <2>1, RequestStep DEF Typed, TypeOK
    <3>2. s \in Saving
      BY <1>2, <3>1 DEF Saving
    <3>3. /\ s \notin disturbed
          /\ users'[req[s].user] = users[req[s].user]
          /\ roles \subseteq roles'
      BY <1>2, <2>1, <3>2, LeftAlone
    <3> QED
      BY <3>1, <3>2, <3>3 DEF Undisturbed
  <2>2. CASE s = r
    <3>1. UNCHANGED <<users, roles, disturbed>>
      BY <1>2, <2>2, BeginsToSave
    <3>2. CASE ReadsAgain(r)
      <4>1. /\ req'[r].user = req[r].user /\ req'[r].column = req[r].column
            /\ req'[r].entity = req[r].entity /\ req'[r].read = users[req[r].user]
        BY <3>2 DEF ReadsAgain, Typed, TypeOK, Locals
      <4> QED
        BY <1>2, <2>2, <3>1, <3>2, <4>1 DEF ReadsAgain, Undisturbed
    <3>3. ASSUME NEW u \in DOMAIN users, NEW column \in Column, NEW value,
                 Loads(r, u, column, value)
          PROVE  /\ req'[s].entity =
                      [users'[req'[s].user] EXCEPT ![req'[s].column] = req'[s].entity[req'[s].column]]
                 /\ req'[s].entity.roles \subseteq roles'
                 /\ req'[s].at # "save.write"
      <4>1. users[u] \in Row /\ users[u].roles \subseteq roles
        BY DEF Typed, TypeOK, IsTable, Referenced
      <4>2. [users[u] EXCEPT ![column] = value][column] = value
        BY <3>3, <4>1 DEF Loads, Row, Column
      <4>3. [users[u] EXCEPT ![column] = value].roles \subseteq roles
        BY <3>3, <4>1 DEF Loads, Row, Column
      <4> QED
        BY <2>2, <3>1, <3>3, <4>2, <4>3 DEF Loads
    <3>4. r \in Saving'
      BY <1>2, <2>2
    <3> QED
      BY <1>2, <3>2, <3>3, <3>4, BeginsToSave
  <2> QED
    BY <2>1, <2>2
<1> QED
  BY <1>1, <1>2, NextIsStep DEF Undisturbed, Saving

(* An edit whose row nobody else writes between its load and its write is  *)
(* accepted and changes its own column and no other, however many other    *)
(* requests are in flight (users.service.ts:38-69, 85-89).                 *)
THEOREM ExactSaves == Spec => []UndisturbedSavesAreExact
<1> DEFINE IInv == Typed /\ Undisturbed
<1>1. Init => IInv
  BY InitTyped DEF Init, Undisturbed, Saving, Idle
<1>2. IInv /\ [Next]_vars => IInv'
  BY TypedStep, UndisturbedStep
<1>3. IInv => UndisturbedSavesAreExact
  <2> SUFFICES ASSUME IInv, NEW r \in Saving \ disturbed, req[r].at = "save.write"
               PROVE  /\ Accepted(r)
                      /\ Written(r) = [users[req[r].user] EXCEPT
                           ![req[r].column] = req[r].entity[req[r].column]]
    BY DEF UndisturbedSavesAreExact
  <2>1. /\ req[r].entity = [users[req[r].user] EXCEPT
             ![req[r].column] = req[r].entity[req[r].column]]
        /\ req[r].entity.roles \subseteq roles
        /\ req[r].read = users[req[r].user]
    BY DEF Undisturbed
  <2>2. Accepted(r)
    BY <2>1 DEF Accepted, Insertable, Inserted
  <2>3. Written(r) = req[r].entity
    BY <2>1, WrittenIsEntity DEF Saving
  <2> QED
    BY <2>1, <2>2, <2>3
<1> QED
  BY <1>1, <1>2, <1>3, PTL DEF Spec

-----------------------------------------------------------------------------
(* Avatars *)

(* Where the avatar of a row comes from.                                   *)
LEMMA AvatarSource ==
  ASSUME Typed, NEW r \in Request, Step(r), NEW u \in DOMAIN users'
  PROVE  \/ u \notin DOMAIN users /\ users'[u].avatarUrl = None
         \/ /\ u \in DOMAIN users /\ users'[u].avatarUrl = users[u].avatarUrl
            /\ u \in rewound => u \in rewound'
         \/ /\ SaveWrite(r) /\ u = req[r].user /\ u \in DOMAIN users
            /\ users'[u].avatarUrl = req[r].entity.avatarUrl
            /\ req[r].column # "avatarUrl" /\ u \in rewound'
         \/ /\ SaveWrite(r) /\ u = req[r].user /\ u \in DOMAIN users
            /\ users'[u].avatarUrl = WrittenColumn(users[u].avatarUrl,
                 req[r].read.avatarUrl, req[r].entity.avatarUrl)
            /\ req[r].column = "avatarUrl"
<1> USE DEF Typed, TypeOK
<1>0. \A w \in DOMAIN users : users[w] \in Row
  BY DEF IsTable
<1>1. CASE UNCHANGED <<users, rewound>>
  BY <1>1
<1>2. CASE CreateSave(r)
  BY <1>2 DEF CreateSave, Insert, Prepared, Ready, history
<1>3. CASE SeedUser(r)
  BY <1>3 DEF SeedUser, Insert, Prepared, Ready, history
<1>4. CASE SeedRole(r)
  BY <1>0, <1>4 DEF SeedRole, Row
<1>5. CASE UpdatePassword(r)
  BY <1>0, <1>5 DEF UpdatePassword, Row
<1>6. CASE RemoveRole(r)
  BY <1>0, <1>6 DEF RemoveRole, Row
<1>7. CASE SaveWrite(r)
  <2>1. /\ req[r].at = "save.write"
        /\ users' = [users EXCEPT ![req[r].user] = Written(r)]
        /\ Rewind(r)
    BY <1>7 DEF SaveWrite
  <2>2. req[r].user \in DOMAIN users
    BY <2>1 DEF Prepared, Ready
  <2>3. Written(r).avatarUrl = WrittenColumn(users[req[r].user].avatarUrl,
          req[r].read.avatarUrl, req[r].entity.avatarUrl)
    BY <2>1, WrittenRow
  <2>4. CASE u # req[r].user
    BY <2>1, <2>4 DEF Rewind
  <2>5. CASE u = req[r].user /\ req[r].column = "avatarUrl"
    BY <1>7, <2>1, <2>2, <2>3, <2>5
  <2>6. CASE u = req[r].user /\ req[r].column # "avatarUrl"
    BY <1>7, <2>1, <2>2, <2>3, <2>6 DEF Rewind, WrittenColumn
  <2> QED
    BY <2>4, <2>5, <2>6
<1> QED
  BY <1>1, <1>2, <1>3, <1>4, <1>5, <1>6, <1>7
     DEF Step, Create, Seed, Update, UpdateAvatar, AssignRoles, SaveLoad, SaveRefused,
         Unlink, AddRole, Fail, history

(* Who deletes a file, and where a deletion comes from.                    *)
LEMMA FileDeleted ==
  ASSUME Typed, NEW r \in Request, Step(r), NEW f \in files, f \notin files'
  PROVE  req[r].at = "unlink" /\ req[r].previous = f /\ UNCHANGED <<users, rewound>>
  BY DEF Typed, TypeOK, Step, Create, CreateSave, Seed, SeedUser, SeedRole, Update,
     UpdateAvatar, AssignRoles, SaveLoad, SaveWrite, SaveRefused, Unlink,
     UpdatePassword, RemoveRole, AddRole, Fail, history

LEMMA UnlinkBegins ==
  ASSUME Typed, NEW r \in Request, Step(r), req'[r].at = "unlink"
  PROVE  /\ r \in Saving /\ SaveWrite(r) /\ req[r].column = "avatarUrl"
         /\ req'[r].previous = req[r].previous /\ req[r].previous \in File
<1> USE DEF Typed, TypeOK
<1>1. CASE SaveWrite(r)
  <2>1. req[r].previous # None /\ req'[r].previous = req[r].previous
    <3>1. CASE req' = [req EXCEPT ![r] = Idle]
      BY <3>1 DEF Idle
    <3>2. CASE /\ req[r].previous # None
               /\ req' = [req EXCEPT ![r] =
                    [Idle EXCEPT !.at = "unlink", !.previous = req[r].previous]]
      <4>1. [Idle EXCEPT !.at = "unlink", !.previous = req[r].previous].previous
              = req[r].previous
        BY DEF Idle
      <4> QED
        BY <3>2, <4>1
    <3> QED
      BY <1>1, <3>1, <3>2 DEF SaveWrite, Finish
  <2>2. r \in Saving /\ req[r].at = "save.write"
    BY <1>1 DEF SaveWrite, Saving
  <2>3. req[r].previous \in File
    BY <2>1 DEF Locals
  <2>4. req[r].column = "avatarUrl"
    BY <2>1, <2>2 DEF Prepared, Ready
  <2> QED
    BY <1>1, <2>1, <2>2, <2>3, <2>4
<1>2. ASSUME req' = [req EXCEPT ![r] = Idle] PROVE FALSE
  BY <1>2 DEF Idle
<1>3. ASSUME req[r] = Idle, UNCHANGED req PROVE FALSE
  BY <1>3 DEF Idle
<1>4. ASSUME NEW locals, req' = [req EXCEPT ![r] = locals], locals.at # "unlink" PROVE FALSE
  BY <1>4
<1>5. ASSUME SaveLoad(r) PROVE FALSE
  <2>1. [req[r] EXCEPT !.at = "save.write", !.read = users[req[r].user]].at = "save.write"
    BY DEF Locals
  <2> QED
    BY <1>4, <1>5, <2>1 DEF SaveLoad
<1>6. ASSUME NEW u, NEW column, NEW value, NEW previous, Edit(r, u, column, value, previous)
      PROVE  FALSE
  BY <1>4, <1>6 DEF Edit, Begin, Idle
<1>7. ASSUME Update(r) \/ UpdateAvatar(r) \/ AssignRoles(r) PROVE FALSE
  BY <1>6, <1>7 DEF Update, UpdateAvatar, AssignRoles
<1>8. ASSUME Create(r) \/ Seed(r) \/ SeedUser(r) PROVE FALSE
  BY <1>2, <1>4, <1>8 DEF Create, Seed, SeedUser, Begin, Finish, Idle
<1> QED
  BY <1>1, <1>2, <1>3, <1>5, <1>7, <1>8
     DEF Step, CreateSave, SeedRole, SaveRefused, Unlink, UpdatePassword, RemoveRole,
         AddRole, Fail, Finish

(* A step gives a file to a user only if it is new or was that user's.     *)
LEMMA BelongsStep ==
  ASSUME Typed, NEW r \in Request, Step(r), NEW f \in File, NEW u \in User, Belongs(f, u)'
  PROVE  \/ Belongs(f, u)
         \/ f \in uploaded' \ uploaded /\ u = req'[r].user
<1> USE DEF Typed, TypeOK
<1>1. CASE u \in DOMAIN users' /\ users'[u].avatarUrl = f
  <2>1. f # None
    BY UnsetAssumption
  <2>2. SaveWrite(r) => r \in Saving
    BY DEF SaveWrite, Saving
  <2> QED
    BY <1>1, <2>1, <2>2, AvatarSource DEF Belongs, WrittenColumn
<1>2. ASSUME NEW s \in Request, s \in Saving', req'[s].user = u,
             req'[s].entity.avatarUrl = f \/ req'[s].previous = f
      PROVE  Belongs(f, u) \/ (f \in uploaded' \ uploaded /\ u = req'[r].user)
  <2>1. CASE s # r
    <3>1. req'[s] = req[s]
      BY <2>1, RequestStep
    <3> QED
      BY <1>2, <3>1 DEF Belongs, Saving
  <2>2. CASE s = r
    <3>1. CASE ReadsAgain(r)
      <4>1. /\ req'[r].user = req[r].user /\ req'[r].entity = req[r].entity
            /\ req'[r].previous = req[r].previous
        BY <3>1 DEF ReadsAgain, Locals
      <4> QED
        BY <1>2, <2>2, <3>1, <4>1 DEF ReadsAgain, Belongs
    <3>2. ASSUME NEW w \in DOMAIN users, NEW column \in Column, NEW value,
                 Loads(r, w, column, value)
          PROVE  Belongs(f, u) \/ (f \in uploaded' \ uploaded /\ u = req'[r].user)
      <4>1. users[w] \in Row /\ f # None
        BY UnsetAssumption DEF IsTable
      <4>2. \/ req'[r].entity.avatarUrl = users[w].avatarUrl
            \/ column = "avatarUrl" /\ req'[r].entity.avatarUrl = value
        BY <3>2, <4>1 DEF Loads, Row, Column
      <4> QED
        BY <1>2, <2>2, <3>2, <4>1, <4>2 DEF Loads, Belongs
    <3>3. r \in Saving'
      BY <1>2, <2>2
    <3> QED
      BY <3>1, <3>2, <3>3, BeginsToSave
  <2> QED
    BY <2>1, <2>2
<1> QED
  BY <1>1, <1>2 DEF Belongs, Saving

LEMMA OwnedStep ==
  ASSUME Typed, FilesAreOwned, NEW r \in Request, Step(r)
  PROVE  FilesAreOwned'
<1>0. uploaded \subseteq uploaded'
  BY TablesTyped
<1>1. ASSUME NEW f \in File, NEW u \in User, Belongs(f, u)' PROVE f \in uploaded'
  BY <1>0, <1>1, BelongsStep DEF FilesAreOwned
<1>2. ASSUME NEW f \in File, NEW u \in User, NEW w \in User, Belongs(f, u)', Belongs(f, w)'
      PROVE  u = w
  <2>1. Belongs(f, u) \/ (f \in uploaded' \ uploaded /\ u = req'[r].user)
    BY <1>2, BelongsStep
  <2>2. Belongs(f, w) \/ (f \in uploaded' \ uploaded /\ w = req'[r].user)
    BY <1>2, BelongsStep
  <2> QED
    BY <2>1, <2>2 DEF FilesAreOwned
<1>3. ASSUME NEW q \in Request, req'[q].at = "unlink" PROVE req'[q].previous \in uploaded'
  <2>1. CASE q # r
    <3>1. req'[q] = req[q]
      BY <2>1, RequestStep DEF Typed, TypeOK
    <3> QED
      BY <1>0, <1>3, <3>1 DEF FilesAreOwned
  <2>2. CASE q = r
    <3>1. r \in Saving /\ req'[r].previous = req[r].previous /\ req[r].previous \in File
      BY <1>3, <2>2, UnlinkBegins
    <3>2. req[r].user \in User
      BY <3>1 DEF Typed, TypeOK, IsTable, Prepared, Ready, Saving
    <3>3. Belongs(req[r].previous, req[r].user)
      BY <3>1 DEF Belongs
    <3> QED
      BY <1>0, <2>2, <3>1, <3>2, <3>3 DEF FilesAreOwned
  <2> QED
    BY <2>1, <2>2
<1> QED
  BY <1>1, <1>2, <1>3 DEF FilesAreOwned

(* What an upload writes is its new file.                                  *)
LEMMA UploadWritesNew ==
  ASSUME Typed, NewFilesAreNew, NEW r \in Request, SaveWrite(r), req[r].column = "avatarUrl"
  PROVE  /\ r \in Uploading
         /\ WrittenColumn(users[req[r].user].avatarUrl, req[r].read.avatarUrl,
                          req[r].entity.avatarUrl) = req[r].entity.avatarUrl
<1>1. r \in Uploading /\ req[r].at = "save.write"
  BY DEF SaveWrite, Uploading, Saving
<1>2. req[r].read.avatarUrl # req[r].entity.avatarUrl
  BY <1>1 DEF NewFilesAreNew
<1> QED
  BY <1>1, <1>2 DEF WrittenColumn

(* After a step no row names the file of another upload in flight.         *)
LEMMA NewStep ==
  ASSUME Typed, FilesAreOwned, NewFilesAreNew, NEW r \in Request, Step(r)
  PROVE  NewFilesAreNew'
<1> USE DEF Typed, TypeOK
<1>0. /\ files \subseteq uploaded /\ uploaded \subseteq File /\ DOMAIN users \subseteq User
      /\ \A q \in Request \ {r} : req'[q] = req[q]
  BY RequestStep DEF IsTable
<1>1. ASSUME NEW s \in Request, s \in Uploading', s # r
      PROVE  LET new == req'[s].entity.avatarUrl IN
             /\ new \in files'
             /\ \A u \in DOMAIN users' : users'[u].avatarUrl # new
             /\ req'[s].previous # new
             /\ req'[s].at = "save.write" => req'[s].read.avatarUrl # new
             /\ \A q \in Request \ {s} :
                  /\ q \in Saving' => req'[q].entity.avatarUrl # new
                  /\ q \in Saving' \/ req'[q].at = "unlink" => req'[q].previous # new
  <2> DEFINE new == req[s].entity.avatarUrl
  <2>1. req'[s] = req[s] /\ s \in Uploading
    BY <1>0, <1>1 DEF Uploading, Saving
  <2>2. /\ new \in files /\ new \in File /\ new # None
        /\ \A u \in DOMAIN users : users[u].avatarUrl # new
        /\ req[s].previous # new
        /\ req[s].at = "save.write" => req[s].read.avatarUrl # new
        /\ \A q \in Request \ {s} :
             /\ q \in Saving => req[q].entity.avatarUrl # new
             /\ q \in Saving \/ req[q].at = "unlink" => req[q].previous # new
    BY <1>0, <2>1, UnsetAssumption DEF NewFilesAreNew
  <2> HIDE DEF new
  <2>3. new \in files'
    BY <1>1, <2>2, FileDeleted
  <2>4. ASSUME NEW u \in DOMAIN users' PROVE users'[u].avatarUrl # new
    <3>1. SaveWrite(r) => r \in Saving /\ r \in Request \ {s}
      BY <1>1 DEF SaveWrite, Saving
    <3>2. SaveWrite(r) => req[r].entity.avatarUrl # new
      BY <2>2, <3>1
    <3>3. \/ users'[u].avatarUrl = None
          \/ u \in DOMAIN users /\ users'[u].avatarUrl = users[u].avatarUrl
          \/ SaveWrite(r) /\ users'[u].avatarUrl = req[r].entity.avatarUrl
      BY AvatarSource DEF WrittenColumn
    <3> QED
      BY <2>2, <3>2, <3>3
  <2>5. ASSUME NEW q \in Request \ {s}
        PROVE  /\ q \in Saving' => req'[q].entity.avatarUrl # new
               /\ q \in Saving' \/ req'[q].at = "unlink" => req'[q].previous # new
    <3>1. CASE q # r
      BY <1>0, <2>2, <3>1 DEF Saving
    <3>2. CASE q = r /\ req'[q].at = "unlink"
      BY <2>2, <3>2, UnlinkBegins DEF Saving
    <3>3. CASE q = r /\ q \in Saving'
      <4>1. CASE ReadsAgain(r)
        <5>1. req'[r].entity = req[r].entity /\ req'[r].previous = req[r].previous
          BY <4>1 DEF ReadsAgain, Locals
        <5> QED
          BY <1>1, <2>2, <3>3, <4>1, <5>1 DEF ReadsAgain
      <4>2. ASSUME NEW w \in DOMAIN users, NEW column \in Column, NEW value,
                   Loads(r, w, column, value)
            PROVE  req'[r].entity.avatarUrl # new /\ req'[r].previous # new
        <5>1. users[w] \in Row
          BY DEF IsTable
        <5>2. \/ req'[r].entity.avatarUrl = users[w].avatarUrl
              \/ column = "avatarUrl" /\ req'[r].entity.avatarUrl = value
          BY <4>2, <5>1 DEF Loads, Row, Column
        <5> QED
          BY <1>0, <2>2, <4>2, <5>2 DEF Loads
      <4>3. r \in Saving'
        BY <3>3
      <4> QED
        BY <3>3, <4>1, <4>2, <4>3, BeginsToSave
    <3> QED
      BY <3>1, <3>2, <3>3
  <2> QED
    BY <2>1, <2>2, <2>3, <2>4, <2>5 DEF new
<1>2. ASSUME r \in Uploading'
      PROVE  LET new == req'[r].entity.avatarUrl IN
             /\ new \in files'
             /\ \A u \in DOMAIN users' : users'[u].avatarUrl # new
             /\ req'[r].previous # new
             /\ req'[r].at = "save.write" => req'[r].read.avatarUrl # new
             /\ \A q \in Request \ {r} :
                  /\ q \in Saving' => req'[q].entity.avatarUrl # new
                  /\ q \in Saving' \/ req'[q].at = "unlink" => req'[q].previous # new
  <2> DEFINE new == req'[r].entity.avatarUrl
  <2>1. r \in Saving' /\ req'[r].column = "avatarUrl"
    BY <1>2 DEF Uploading
  <2>2. UNCHANGED users /\ files \subseteq files'
    BY <2>1, BeginsToSave
  <2>3. CASE ReadsAgain(r)
    <3>1. /\ req'[r].entity = req[r].entity /\ req'[r].previous = req[r].previous
          /\ req'[r].read = users[req[r].user] /\ req'[r].column = req[r].column
      BY <2>3 DEF ReadsAgain, Locals
    <3>2. r \in Uploading /\ req[r].user \in DOMAIN users
      BY <2>1, <2>3, <3>1 DEF ReadsAgain, Uploading, Saving, Prepared, Ready
    <3>3. /\ new \in files
          /\ \A u \in DOMAIN users : users[u].avatarUrl # new
          /\ req[r].previous # new
          /\ \A q \in Request \ {r} :
               /\ q \in Saving => req[q].entity.avatarUrl # new
               /\ q \in Saving \/ req[q].at = "unlink" => req[q].previous # new
      BY <3>1, <3>2 DEF NewFilesAreNew
    <3> HIDE DEF new
    <3> QED
      BY <1>0, <2>2, <3>1, <3>2, <3>3 DEF new, Saving
  <2>4. ASSUME NEW w \in DOMAIN users, NEW column \in Column, NEW value,
               Loads(r, w, column, value)
        PROVE  /\ new \in files' /\ new \in File \ uploaded
               /\ req'[r].previous \in {None, users[w].avatarUrl}
               /\ req'[r].at = "save.load"
    <3>1. users[w] \in Row
      BY DEF IsTable
    <3> QED
      BY <2>1, <2>4, <3>1 DEF Loads, Row
  <2>5. CASE \E w \in DOMAIN users, column \in Column : \E value : Loads(r, w, column, value)
    <3>1. PICK w \in DOMAIN users : /\ new \in files' /\ new \in File \ uploaded
                                    /\ req'[r].previous \in {None, users[w].avatarUrl}
                                    /\ req'[r].at = "save.load"
      BY <2>4, <2>5
    <3> HIDE DEF new
    <3>2. new # None
      BY <3>1, UnsetAssumption
    <3>3. \A u \in DOMAIN users : users[u].avatarUrl # new
      BY <1>0, <3>1 DEF FilesAreOwned, Belongs
    <3>4. ASSUME NEW q \in Request \ {r}
          PROVE  /\ q \in Saving => req[q].entity.avatarUrl # new
                 /\ q \in Saving \/ req[q].at = "unlink" => req[q].previous # new
      <4>1. q \in Saving => req[q].user \in User
        BY <1>0 DEF Prepared, Ready, Saving
      <4> QED
        BY <3>1, <4>1 DEF FilesAreOwned, Belongs
    <3> QED
      BY <1>0, <2>2, <3>1, <3>2, <3>3, <3>4 DEF new, Saving
  <2> QED
    BY <2>1, <2>3, <2>5, BeginsToSave
<1> QED
  BY <1>1, <1>2 DEF NewFilesAreNew, Uploading, Saving

LEMMA OldStep ==
  ASSUME Typed, FilesAreOwned, NewFilesAreNew, OldFilesAreOld, NEW r \in Request, Step(r)
  PROVE  OldFilesAreOld'
<1> SUFFICES ASSUME NEW q \in Request, NEW u \in DOMAIN users' \ rewound',
                    req'[q].at = "unlink"
             PROVE  users'[u].avatarUrl # req'[q].previous
  BY DEF OldFilesAreOld
<1>0. DOMAIN users \subseteq User
  BY DEF Typed, TypeOK, IsTable
<1>1. \/ users'[u].avatarUrl = None
      \/ /\ u \in DOMAIN users \ rewound /\ users'[u].avatarUrl = users[u].avatarUrl
      \/ /\ SaveWrite(r) /\ u = req[r].user /\ r \in Uploading
         /\ users'[u].avatarUrl = req[r].entity.avatarUrl
  BY AvatarSource, UploadWritesNew
<1>2. CASE q # r
  <2>1. req'[q] = req[q]
    BY <1>2, RequestStep DEF Typed, TypeOK
  <2>2. req[q].at = "unlink" /\ req[q].previous \in File
    BY <2>1 DEF Typed, Prepared, Ready
  <2>3. req[q].previous # None
    BY <2>2, UnsetAssumption
  <2>4. r \in Uploading => req[r].entity.avatarUrl # req[q].previous
    BY <1>2, <2>2 DEF NewFilesAreNew
  <2> QED
    BY <1>1, <2>1, <2>2, <2>3, <2>4 DEF OldFilesAreOld
<1>3. CASE q = r
  <2>1. /\ r \in Saving /\ SaveWrite(r) /\ req[r].column = "avatarUrl"
        /\ req'[r].previous = req[r].previous /\ req[r].previous \in File
    BY <1>3, UnlinkBegins
  <2>2. req[r].previous # None
    BY <2>1, UnsetAssumption
  <2>3. req[r].user \in User /\ Belongs(req[r].previous, req[r].user)
    BY <1>0, <2>1 DEF Belongs, Typed, Prepared, Ready, Saving
  <2>4. r \in Uploading => req[r].entity.avatarUrl # req[r].previous
    BY DEF NewFilesAreNew
  <2>5. CASE u \in DOMAIN users /\ u # req[r].user
    <3>1. users[u].avatarUrl # req[r].previous
      BY <1>0, <2>1, <2>3, <2>5 DEF FilesAreOwned, Belongs
    <3> QED
      BY <1>1, <1>3, <2>1, <2>2, <2>5, <3>1
  <2>6. CASE u = req[r].user
    <3>1. r \in Uploading /\ users'[u].avatarUrl = req[r].entity.avatarUrl
      <4>1. r \in Uploading /\ req[r].user \in DOMAIN users
            /\ users' = [users EXCEPT ![req[r].user] = Written(r)]
            /\ req[r].at = "save.write"
        BY <2>1, UploadWritesNew DEF SaveWrite, Typed, Prepared, Ready
      <4> QED
        BY <2>1, <2>6, <4>1, UploadWritesNew, WrittenRow
    <3> QED
      BY <1>3, <2>1, <2>4, <3>1
  <2> QED
    BY <1>1, <1>3, <2>1, <2>2, <2>5, <2>6
<1> QED
  BY <1>2, <1>3

LEMMA AvatarStep ==
  ASSUME Typed, NewFilesAreNew, OldFilesAreOld, AvatarExists, NEW r \in Request, Step(r)
  PROVE  AvatarExists'
<1> SUFFICES ASSUME NEW u \in DOMAIN users' \ rewound'
             PROVE  users'[u].avatarUrl \in files' \cup {None}
  BY DEF AvatarExists
<1>1. CASE users'[u].avatarUrl = None
  BY <1>1
<1>2. CASE u \in DOMAIN users \ rewound /\ users'[u].avatarUrl = users[u].avatarUrl
  <2>1. users[u].avatarUrl \in files \cup {None}
    BY <1>2 DEF AvatarExists
  <2>2. users[u].avatarUrl \in files => users[u].avatarUrl \in files'
    BY <1>2, FileDeleted DEF OldFilesAreOld
  <2> QED
    BY <1>2, <2>1, <2>2
<1>3. CASE SaveWrite(r) /\ r \in Uploading /\ users'[u].avatarUrl = req[r].entity.avatarUrl
  BY <1>3 DEF SaveWrite, NewFilesAreNew
<1> QED
  BY <1>1, <1>2, <1>3, AvatarSource, UploadWritesNew

(* Uploads that overlap, of any number of users, leave every row with a    *)
(* file that exists; only a save of another column can name a deleted one  *)
(* (users.service.ts:51-69, 85-89).                                        *)
THEOREM AvatarsExist == Spec => []AvatarExists
<1> DEFINE IInv == Typed /\ FilesInv
<1>1. Init => IInv
  BY InitTyped DEF Init, FilesInv, FilesAreOwned, NewFilesAreNew, OldFilesAreOld,
     AvatarExists, Belongs, Uploading, Saving, EmptyTable, Idle
<1>2. IInv /\ [Next]_vars => IInv'
  <2> SUFFICES ASSUME IInv, [Next]_vars PROVE IInv'
    OBVIOUS
  <2>1. CASE UNCHANGED vars
    <3>1. FilesInv'
      BY <2>1 DEF vars, FilesInv, FilesAreOwned, NewFilesAreNew, OldFilesAreOld,
         AvatarExists, Belongs, Uploading, Saving
    <3> QED
      BY <3>1, TypedStep
  <2>2. ASSUME NEW r \in Request, Step(r) PROVE FilesInv'
    BY <2>2, OwnedStep, NewStep, OldStep, AvatarStep DEF FilesInv
  <2> QED
    BY <2>1, <2>2, NextIsStep, TypedStep
<1>3. IInv => AvatarExists
  BY DEF FilesInv
<1> QED
  BY <1>1, <1>2, <1>3, PTL DEF Spec

-----------------------------------------------------------------------------
(* Who writes a column *)

(* The column of an undisturbed save is the one that changes, to the value *)
(* the handler has set.                                                    *)
LEMMA SavedColumn ==
  ASSUME Typed, UndisturbedSavesAreExact, NEW r \in Request, SaveWrite(r), r \notin disturbed,
         NEW u \in DOMAIN users, NEW column, column \in DOMAIN users[u],
         users'[u][column] # users[u][column]
  PROVE  MeantFor(r, u, column)
<1>1. /\ req[r].at = "save.write" /\ r \in Saving
      /\ users[u] \in Row /\ req[r].column \in Column
      /\ users' = [users EXCEPT ![req[r].user] = Written(r)]
  BY DEF SaveWrite, Saving, Typed, TypeOK, IsTable, Prepared, Ready
<1>2. u = req[r].user /\ users'[u] = Written(r)
  BY <1>1
<1>3. Written(r) = [users[u] EXCEPT ![req[r].column] = req[r].entity[req[r].column]]
  BY <1>1, <1>2 DEF UndisturbedSavesAreExact
<1>4. column = req[r].column /\ Written(r)[column] = req[r].entity[column]
  BY <1>1, <1>2, <1>3 DEF Row, Column
<1> QED
  BY <1>1, <1>2, <1>4 DEF MeantFor

(* A column is written only by its own operation or by a save that another *)
(* request has disturbed (users.service.ts:38-69, 85-97).                  *)
THEOREM PurposefulWrites == Spec => ColumnsChangeOnPurpose
<1>1. ASSUME Typed, UndisturbedSavesAreExact, [Next]_vars,
             NEW u \in DOMAIN users, NEW column \in DOMAIN users[u],
             users'[u][column] # users[u][column]
      PROVE  \E r \in Request : MeantFor(r, u, column) \/ OfADisturbedSave(r, u)
  <2>0. IsTable(users, User, Row) /\ users[u] \in Row
    BY <1>1 DEF Typed, TypeOK, IsTable
  <2>1. PICK r \in Request : Step(r)
    BY <1>1, NextIsStep DEF vars
  <2>2. CASE SaveWrite(r)
    <3>1. CASE r \notin disturbed
      BY <1>1, <2>2, <3>1, SavedColumn
    <3>2. CASE r \in disturbed
      BY <1>1, <2>0, <2>2, <3>2 DEF SaveWrite, OfADisturbedSave, IsTable
    <3> QED
      BY <3>1, <3>2
  <2>3. CASE UpdatePassword(r)
    <3>1. column = "passwordHash"
      BY <1>1, <2>0, <2>3 DEF UpdatePassword, IsTable, Row
    <3> QED
      BY <2>3, <3>1 DEF MeantFor
  <2>4. CASE RemoveRole(r)
    <3>1. column = "roles"
      BY <1>1, <2>0, <2>4 DEF RemoveRole, IsTable, Row
    <3> QED
      BY <2>4, <3>1 DEF MeantFor
  <2>5. CASE SeedRole(r)
    <3>1. column = "roles"
      BY <1>1, <2>0, <2>5 DEF SeedRole, IsTable, Row
    <3> QED
      BY <2>5, <3>1 DEF MeantFor
  <2>6. CASE CreateSave(r) \/ SeedUser(r)
    <3>1. users'[u] = users[u]
      BY <1>1, <2>6 DEF CreateSave, SeedUser, Insert
    <3> QED
      BY <1>1, <3>1
  <2>7. ASSUME UNCHANGED users PROVE FALSE
    BY <1>1, <2>7
  <2> QED
    BY <2>1, <2>2, <2>3, <2>4, <2>5, <2>6, <2>7 DEF Step, Create, Seed, Update,
      UpdateAvatar, AssignRoles, SaveLoad, SaveRefused, Unlink, AddRole, Fail
<1>2. Typed /\ UndisturbedSavesAreExact /\ [Next]_vars =>
        [\A u \in DOMAIN users : \A column \in DOMAIN users[u] :
           users'[u][column] # users[u][column] =>
             \E r \in Request : MeantFor(r, u, column) \/ OfADisturbedSave(r, u)]_vars
  BY <1>1
<1>3. Spec => []Typed
  BY InitTyped, TypedStep, PTL DEF Spec
<1> QED
  BY <1>2, <1>3, ExactSaves, PTL DEF Spec, ColumnsChangeOnPurpose
=============================================================================
