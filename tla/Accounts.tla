------------------------------ MODULE Accounts ------------------------------
(***************************************************************************)
(* UsersService (src/modules/users/users.service.ts), the avatar files it  *)
(* keeps, and the seed script, over the tables users and user_roles.       *)
(*                                                                         *)
(* update, updateAvatar and assignRoles load a user with its roles, change *)
(* one column of the entity and save it; save compares the entity with the *)
(* row of that moment and writes every difference, whoever caused it.  As  *)
(* in AuthService a request in flight is a slot of `req`, and an action    *)
(* runs from one awaited statement to the next.                            *)
(*                                                                         *)
(* A role is its id; roles are looked up by name and inserted by id, and   *)
(* RolesService adds and removes their rows meanwhile (module Rbac).       *)
(***************************************************************************)
EXTENDS Tables, EntitySave

CONSTANTS
  User,          \* email addresses, one per account
  Password,      \* passwords; a stored hash is the password it verifies
  Name,          \* first names, for all that a profile edit may change
  File,          \* names of avatar files, drawn at random
  Role,          \* ids of roles
  DefaultRole,   \* the role named "user"
  AdminRole,     \* the role named "admin"
  SeedAdmin,     \* email of the seed's admin
  Request,       \* requests that can be in flight at the same time
  Calls,         \* operations the actors of this instance use
  MayFail,       \* whether a statement may fail or the process may die
  None           \* an unset local variable or column

ASSUME RolesAssumption == DefaultRole \in Role /\ AdminRole \in Role
ASSUME SeedAssumption == SeedAdmin \in User
ASSUME UnsetAssumption == None \notin User \cup File

VARIABLES
  users,      \* tables users and user_roles: email -> row
  roles,      \* table roles: the ids in it
  files,      \* files in uploads/avatars
  uploaded,   \* names drawn so far; randomUUID repeats none
  req,        \* the requests in flight
  disturbed,  \* history: requests whose row another one wrote meanwhile
  rewound     \* history: users whose avatar a save of another column wrote back

history == <<disturbed, rewound>>
vars == <<users, roles, files, uploaded, req, disturbed, rewound>>

Row == [passwordHash : Password, firstName : Name,
        avatarUrl : File \cup {None}, roles : SUBSET Role]

Statement == {"idle", "create.save", "save.load", "save.write", "unlink",
              "seed.user", "seed.role"}
Column == {"firstName", "avatarUrl", "roles"}

Locals == [at : Statement, user : User \cup {None}, column : Column \cup {None},
           entity : Row \cup {None}, read : Row \cup {None}, previous : File \cup {None}]

Idle == [at |-> "idle", user |-> None, column |-> None,
         entity |-> None, read |-> None, previous |-> None]

-----------------------------------------------------------------------------
(* Requests *)

Begin(r, locals) == req[r] = Idle /\ req' = [req EXCEPT ![r] = locals]
Finish(r) == req' = [req EXCEPT ![r] = Idle]

Saving == {r \in Request : req[r].at \in {"save.load", "save.write"}}
SavingFor(u) == {r \in Saving : req[r].user = u}

(* A write to the row of u disturbs every other save of it in flight.      *)
Disturb(u, r) ==
  disturbed' = (disturbed \cup SavingFor(u)) \ {r}
Undisturb(r) == disturbed' = disturbed \ {r}

-----------------------------------------------------------------------------
(* create, and the seed script *)

(* The email is free and the default role is looked up; if it has been     *)
(* removed the account gets none.                                          *)
Create(r) ==
  /\ "create" \in Calls
  /\ \E u \in User \ DOMAIN users, p \in Password, n \in Name :
       Begin(r, [Idle EXCEPT !.at = "create.save", !.user = u,
         !.entity = [passwordHash |-> p, firstName |-> n, avatarUrl |-> None,
                     roles |-> {DefaultRole} \cap roles]])
  /\ UNCHANGED <<users, roles, files, uploaded, history>>

(* Mutant: the save of a second registration replaces the first one's row. *)
CreateSaveOverwrites(r) ==
  /\ req[r].at = "create.save"
  /\ users' = IF req[r].entity.roles \subseteq roles
              THEN Insert(users, req[r].user, req[r].entity)
              ELSE users
  /\ Finish(r)
  /\ UNCHANGED <<roles, files, uploaded, history>>

(* save: one transaction inserts the user and its roles, unless the email  *)
(* was taken or the role removed meanwhile.                                *)
CreateSave(r) ==
  /\ req[r].at = "create.save"
  /\ users' = IF req[r].user \notin DOMAIN users /\ req[r].entity.roles \subseteq roles
              THEN Insert(users, req[r].user, req[r].entity)
              ELSE users
  /\ Finish(r)
  /\ UNCHANGED <<roles, files, uploaded, history>>

(* The seed skips when the email exists, and throws without the role.      *)
Seed(r) ==
  /\ "seed" \in Calls
  /\ SeedAdmin \notin DOMAIN users
  /\ AdminRole \in roles
  /\ \E p \in Password, n \in Name :
       Begin(r, [Idle EXCEPT !.at = "seed.user", !.user = SeedAdmin,
         !.entity = [passwordHash |-> p, firstName |-> n, avatarUrl |-> None,
                     roles |-> {}]])
  /\ UNCHANGED <<users, roles, files, uploaded, history>>

SeedUser(r) ==
  /\ req[r].at = "seed.user"
  /\ IF SeedAdmin \in DOMAIN users
     THEN Finish(r) /\ UNCHANGED users
     ELSE /\ users' = Insert(users, SeedAdmin, req[r].entity)
          /\ req' = [req EXCEPT ![r] = [Idle EXCEPT !.at = "seed.role", !.user = SeedAdmin]]
  /\ UNCHANGED <<roles, files, uploaded, history>>

SeedRole(r) ==
  /\ req[r].at = "seed.role"
  /\ users' = IF AdminRole \in roles
              THEN [users EXCEPT ![SeedAdmin].roles = @ \cup {AdminRole}]
              ELSE users
  /\ Disturb(SeedAdmin, r)
  /\ Finish(r)
  /\ UNCHANGED <<roles, files, uploaded, rewound>>

-----------------------------------------------------------------------------
(* update, updateAvatar, assignRoles *)

(* The user is loaded and one column of the entity is set.                 *)
Edit(r, u, column, value, previous) ==
  Begin(r, [Idle EXCEPT !.at = "save.load", !.user = u, !.column = column,
    !.entity = [users[u] EXCEPT ![column] = value], !.previous = previous])

Update(r) ==
  /\ "update" \in Calls
  /\ \E u \in DOMAIN users, n \in Name : Edit(r, u, "firstName", n, None)
  /\ UNCHANGED <<users, roles, files, uploaded, history>>

(* Multer has stored the file before the handler loads the user.           *)
UpdateAvatar(r) ==
  /\ "updateAvatar" \in Calls
  /\ \E u \in DOMAIN users, f \in File \ uploaded :
       /\ Edit(r, u, "avatarUrl", f, users[u].avatarUrl)
       /\ files' = files \cup {f}
       /\ uploaded' = uploaded \cup {f}
  /\ UNCHANGED <<users, roles, history>>

(* Mutant: unknown roles are not refused.                                  *)
AssignUnknownRoles(r) ==
  /\ "assignRoles" \in Calls
  /\ \E u \in DOMAIN users, asked \in SUBSET (roles \cup {None}) :
       Edit(r, u, "roles", asked, None)
  /\ UNCHANGED <<users, roles, files, uploaded, history>>

(* An unknown role is refused; with none named the user loses all.         *)
AssignRoles(r) ==
  /\ "assignRoles" \in Calls
  /\ \E u \in DOMAIN users, asked \in SUBSET roles : Edit(r, u, "roles", asked, None)
  /\ UNCHANGED <<users, roles, files, uploaded, history>>

SaveLoad(r) ==
  /\ req[r].at = "save.load"
  /\ req' = [req EXCEPT ![r].at = "save.write", ![r].read = users[req[r].user]]
  /\ UNCHANGED <<users, roles, files, uploaded, history>>

Accepted(r) ==
  Insertable(users[req[r].user].roles, req[r].read.roles, req[r].entity.roles, roles)

(* Mutant: roles are added to the relation instead of saved.               *)
WrittenByAdding(r) ==
  [req[r].entity EXCEPT !.roles = @ \cup users[req[r].user].roles]

Written(r) ==
  LET stored == users[req[r].user]
      read == req[r].read
      entity == req[r].entity
  IN [column \in DOMAIN stored |->
       IF column = "roles"
       THEN WrittenRelation(stored.roles, read.roles, entity.roles)
       ELSE WrittenColumn(stored[column], read[column], entity[column])]

(* A save of another column writes an avatar back that has been replaced   *)
(* meanwhile; the next upload ends that.                                   *)
Rewind(r) ==
  LET u == req[r].user IN
  rewound' = IF req[r].column = "avatarUrl" THEN rewound \ {u}
             ELSE IF Written(r).avatarUrl # users[u].avatarUrl THEN rewound \cup {u}
             ELSE rewound

(* Mutant: the old avatar is deleted before the new one is stored.         *)
SaveWriteAfterUnlink(r) ==
  /\ req[r].at = "save.write"
  /\ Accepted(r)
  /\ IF req[r].previous # None /\ req[r].previous \in files
     THEN files' = files \ {req[r].previous} /\ UNCHANGED <<users, req, history>>
     ELSE /\ users' = [users EXCEPT ![req[r].user] = Written(r)]
          /\ Rewind(r)
          /\ Disturb(req[r].user, r)
          /\ Finish(r)
          /\ UNCHANGED files
  /\ UNCHANGED <<roles, uploaded>>

(* The transaction; a row that cannot be inserted rolls it back.           *)
SaveWrite(r) ==
  /\ req[r].at = "save.write"
  /\ Accepted(r)
  /\ users' = [users EXCEPT ![req[r].user] = Written(r)]
  /\ Rewind(r)
  /\ Disturb(req[r].user, r)
  /\ IF req[r].previous = None
     THEN Finish(r)
     ELSE req' = [req EXCEPT ![r] =
            [Idle EXCEPT !.at = "unlink", !.previous = req[r].previous]]
  /\ UNCHANGED <<roles, files, uploaded>>

SaveRefused(r) ==
  /\ req[r].at = "save.write"
  /\ ~Accepted(r)
  /\ Finish(r)
  /\ Undisturb(r)
  /\ UNCHANGED <<users, roles, files, uploaded, rewound>>

(* Nobody awaits it: the answer may be out already.                        *)
Unlink(r) ==
  /\ req[r].at = "unlink"
  /\ files' = files \ {req[r].previous}
  /\ Finish(r)
  /\ UNCHANGED <<users, roles, uploaded, history>>

-----------------------------------------------------------------------------
(* Requests of one statement *)

(* updatePassword: an UPDATE of its column only, called by AuthService.    *)
UpdatePassword(r) ==
  /\ "updatePassword" \in Calls
  /\ req[r] = Idle
  /\ \E u \in DOMAIN users, p \in Password :
       /\ users' = [users EXCEPT ![u].passwordHash = p]
       /\ Disturb(u, r)
  /\ UNCHANGED <<roles, files, uploaded, req, rewound>>

(* RolesService: a role goes with its rows of user_roles, or comes.        *)
RemoveRole(r) ==
  /\ "removeRole" \in Calls
  /\ req[r] = Idle
  /\ \E role \in roles :
       /\ roles' = roles \ {role}
       /\ users' = [u \in DOMAIN users |-> [users[u] EXCEPT !.roles = @ \ {role}]]
  /\ disturbed' = disturbed \cup Saving
  /\ UNCHANGED <<files, uploaded, req, rewound>>

AddRole(r) ==
  /\ "addRole" \in Calls
  /\ req[r] = Idle
  /\ \E role \in Role \ roles : roles' = roles \cup {role}
  /\ UNCHANGED <<users, files, uploaded, req, history>>

(* A statement throws, or the process dies: the request ends where it is.  *)
Fail(r) ==
  /\ MayFail
  /\ req[r] # Idle
  /\ Finish(r)
  /\ Undisturb(r)
  /\ UNCHANGED <<users, roles, files, uploaded, rewound>>

-----------------------------------------------------------------------------
(* Specification *)

(* After the migration: both roles, no account, an empty directory.        *)
Init ==
  /\ users = EmptyTable
  /\ roles = {DefaultRole, AdminRole}
  /\ files = {}
  /\ uploaded = {}
  /\ req = [r \in Request |-> Idle]
  /\ disturbed = {}
  /\ rewound = {}

Next == \E r \in Request :
  \/ Create(r) \/ CreateSave(r) \/ Seed(r) \/ SeedUser(r) \/ SeedRole(r)
  \/ Update(r) \/ UpdateAvatar(r) \/ AssignRoles(r)
  \/ SaveLoad(r) \/ SaveWrite(r) \/ SaveRefused(r) \/ Unlink(r)
  \/ UpdatePassword(r) \/ RemoveRole(r) \/ AddRole(r) \/ Fail(r)

Spec == Init /\ [][Next]_vars

-----------------------------------------------------------------------------
(* Properties *)

(* Rows, files and requests are well formed (users.service.ts:22-97).      *)
TypeOK ==
  /\ IsTable(users, User, Row)
  /\ roles \subseteq Role
  /\ files \subseteq uploaded /\ uploaded \subseteq File
  /\ req \in [Request -> Locals]
  /\ disturbed \subseteq Saving
  /\ rewound \subseteq DOMAIN users

(* A save whose row nobody else has written since it was loaded is         *)
(* accepted and changes the column it was asked to change and no other:    *)
(* every lost update needs a second writer between load and write          *)
(* (users.service.ts:38-69, 85-89).                                        *)
UndisturbedSavesAreExact ==
  \A r \in Saving \ disturbed :
    LET q == req[r] IN
    q.at = "save.write" =>
      /\ Accepted(r)
      /\ Written(r) = [users[q.user] EXCEPT ![q.column] = q.entity[q.column]]

(* A column of an account changes only by an operation on that column of   *)
(* that account, and to what it was asked to be; whatever else is written  *)
(* is written by a save whose row another request has written since it was *)
(* loaded.  For passwords this is what AuthService counts on               *)
(* (users.service.ts:38-69, 85-97; roles.service.ts:40-43; seed.ts:32).    *)
MeantFor(r, u, column) ==
  \/ column = "passwordHash" /\ UpdatePassword(r)
  \/ column = "roles" /\ (RemoveRole(r) \/ SeedRole(r))
  \/ /\ req[r].at = "save.write"
     /\ req[r].user = u
     /\ req[r].column = column
     /\ users'[u][column] = req[r].entity[column]
OfADisturbedSave(r, u) ==
  req[r].at = "save.write" /\ req[r].user = u /\ r \in disturbed
ColumnsChangeOnPurpose ==
  [][\A u \in DOMAIN users : \A column \in DOMAIN users[u] :
       users'[u][column] # users[u][column] =>
         \E r \in Request : MeantFor(r, u, column) \/ OfADisturbedSave(r, u)]_vars

(* Uploads that overlap never delete the file the row names, whatever      *)
(* order their saves and clean-ups take; a row names a missing file only   *)
(* after an edit of another column, loaded before the upload, wrote the    *)
(* deleted name back (users.service.ts:51-69, 85-89).                      *)
AvatarExists ==
  \A u \in DOMAIN users :
    users[u].avatarUrl \in files \cup {None} \/ u \in rewound

(* "merges dto into existing user and saves" (users.service.spec.ts:84):   *)
(* an edit of the profile leaves the password alone                        *)
(* (users.service.ts:85-89).                                               *)
EditsKeepPassword ==
  [][\A r \in Request :
       req[r].at = "save.write" /\ req[r].column = "firstName" /\ req'[r] = Idle =>
         users'[req[r].user].passwordHash = users[req[r].user].passwordHash]_vars
=============================================================================
