------------------------------- MODULE Claims -------------------------------
(***************************************************************************)
(* The rights an access token carries: TokenService.signAccessToken's      *)
(* roles and permissions, flattened from the user the handler has loaded   *)
(* (rbac.util.ts), and RolesGuard and PermissionsGuard, which read nothing *)
(* else.  A login, registration or refresh loads the user, awaits argon2   *)
(* or the database, and only then signs; roles and permissions change at   *)
(* any time meanwhile and afterwards.                                      *)
(*                                                                         *)
(* One account; tokens of another never meet its rights.  How the role     *)
(* tables change, statement by statement, is in Rbac and Accounts: here    *)
(* each statement that reaches them is one step with any outcome.          *)
(***************************************************************************)
EXTENDS AccessTokens

CONSTANTS
  Role,        \* roles, by name
  Permission,  \* permissions, by name
  Issuer       \* logins and refreshes that can be in flight together

ASSUME IssuerAssumption == None \notin [roles : SUBSET Role,
  permissions : SUBSET Permission, lost : SUBSET (Role \cup Permission)]

VARIABLES
  grants,   \* tables roles and role_permissions: role -> its permissions
  held,     \* table user_roles: the account's roles
  loaded,   \* what each login or refresh in flight has loaded
  claims,   \* what every signed token says
  fading    \* history: half seconds until a right taken away is to be gone

rights == <<grants, held, loaded, claims, fading>>
claimsVars == <<vars, rights>>

Right == Role \cup Permission

(* `lost` is a history: rights taken away between the load and the         *)
(* signature.                                                              *)
Claim == [roles : SUBSET Role, permissions : SUBSET Permission, lost : SUBSET Right]

FlattenRoleNames(roles) == roles

(* Mutants: the permissions of all roles, not of the user's; the names of  *)
(* the roles instead of their permissions'.                                *)
FlattenAllPermissions(roles) == UNION {grants[x] : x \in DOMAIN grants}
FlattenToNames(roles) == roles

FlattenPermissionNames(roles) == UNION {grants[x] : x \in roles}

(* What the account may do by the tables, and by a token.                  *)
Effective == held \cup {p \in Permission : \E x \in held : p \in grants[x]}
Said(claim) == claim.roles \cup claim.permissions

-----------------------------------------------------------------------------
(* Rights change *)

(* A right the account no longer has may stay in tokens for one lifetime.  *)
TakeAway ==
  LET gone == Effective \ Effective' IN
  /\ fading' = [x \in Right |-> IF x \in gone THEN HalfSeconds(AccessTtl) ELSE fading[x]]
  /\ loaded' = [i \in Issuer |->
       IF loaded[i] = None THEN None
       ELSE [loaded[i] EXCEPT !.lost = @ \cup (gone \cap Said(loaded[i]))]]
  /\ UNCHANGED <<vars, claims>>

(* UsersService.assignRoles, and any other save of the user. *)
AssignRoles ==
  /\ held' \in SUBSET DOMAIN grants
  /\ UNCHANGED grants
  /\ TakeAway

SetPermissions ==
  /\ \E x \in DOMAIN grants, asked \in SUBSET Permission :
       grants' = [grants EXCEPT ![x] = asked]
  /\ UNCHANGED held
  /\ TakeAway

(* RolesService.create, and a save that brings a removed role back. *)
CreateRole ==
  /\ \E x \in Role \ DOMAIN grants, asked \in SUBSET Permission :
       grants' = Insert(grants, x, asked)
  /\ UNCHANGED held
  /\ TakeAway

(* The DELETE of a role takes its junction rows along. *)
RemoveRole ==
  /\ \E x \in DOMAIN grants :
       /\ grants' = [y \in DOMAIN grants \ {x} |-> grants[y]]
       /\ held' = held \ {x}
  /\ TakeAway

-----------------------------------------------------------------------------
(* Issuing *)

(* findByEmail or findByIdOrFail: the user with its roles and their        *)
(* permissions, all eager.  A registration loads its roles by findByNames  *)
(* before the account exists, and its INSERT gives the account those: the  *)
(* `held` it loads is the one the new account begins with.                 *)
Load(i) ==
  /\ loaded[i] = None
  /\ loaded' = [loaded EXCEPT ![i] =
       [roles |-> FlattenRoleNames(held),
        permissions |-> FlattenPermissionNames(held), lost |-> {}]]
  /\ UNCHANGED <<vars, grants, held, claims, fading>>

(* issueTokenPair: the claims are those of the user loaded. *)
Sign(i) ==
  /\ loaded[i] # None
  /\ \E jti \in Jti :
       /\ SignAccessToken(jti)
       /\ claims' = Insert(claims, jti, loaded[i])
  /\ loaded' = [loaded EXCEPT ![i] = None]
  /\ UNCHANGED <<grants, held, fading>>

(* The password is wrong, a statement throws, or the process dies. *)
Abandon(i) ==
  /\ loaded[i] # None
  /\ loaded' = [loaded EXCEPT ![i] = None]
  /\ UNCHANGED <<vars, grants, held, claims, fading>>

-----------------------------------------------------------------------------
(* Requests: JwtAuthGuard and JwtStrategy are AccessTokens' steps.         *)

(* What @Roles and @Permissions ask of a route. *)
Route == [roles : SUBSET Role, permissions : SUBSET Permission]

RolesGuard(claim, route) ==
  route.roles = {} \/ claim.roles \cap route.roles # {}

(* Mutant: a token without permissions is taken for one of an older kind.  *)
LenientPermissionsGuard(claim, route) ==
  claim.permissions = {} \/ route.permissions \subseteq claim.permissions

PermissionsGuard(claim, route) == route.permissions \subseteq claim.permissions

Reach(r, route) ==
  /\ Respond(r)
  /\ RolesGuard(claims[req[r].jti], route)
  /\ PermissionsGuard(claims[req[r].jti], route)
  /\ UNCHANGED rights

Forbid(r, route) ==
  /\ Respond(r)
  /\ \/ ~RolesGuard(claims[req[r].jti], route)
     \/ ~PermissionsGuard(claims[req[r].jti], route)
  /\ UNCHANGED rights

(* The guard's steps.  Logouts only ever refuse requests more and are left *)
(* to AccessTokens.                                                        *)
GuardStep(r) ==
  /\ CanActivate(r) \/ Validate(r) \/ Fail(r)
  /\ UNCHANGED rights

TimePasses ==
  /\ Tick
  /\ fading' = [x \in Right |-> IF fading[x] > 0 THEN fading[x] - 1 ELSE 0]
  /\ UNCHANGED <<grants, held, loaded, claims>>

-----------------------------------------------------------------------------
ClaimsInit ==
  /\ Init
  /\ grants \in [Role -> SUBSET Permission]
  /\ held \in SUBSET Role
  /\ loaded = [i \in Issuer |-> None]
  /\ claims = EmptyTable
  /\ fading = [x \in Right |-> 0]

ClaimsNext ==
  \/ AssignRoles \/ SetPermissions \/ CreateRole \/ RemoveRole
  \/ \E i \in Issuer : Load(i) \/ Sign(i) \/ Abandon(i)
  \/ \E r \in Request : GuardStep(r) \/ \E route \in Route : Reach(r, route) \/ Forbid(r, route)
  \/ TimePasses

ClaimsSpec == ClaimsInit /\ [][ClaimsNext]_claimsVars

-----------------------------------------------------------------------------
(* Tables and claims are well formed, every token has claims, and the      *)
(* account holds only roles that exist.                                    *)
ClaimsTypeOK ==
  /\ TypeOK
  /\ IsTable(grants, Role, SUBSET Permission)
  /\ held \subseteq DOMAIN grants
  /\ loaded \in [Issuer -> Claim \cup {None}]
  /\ IsTable(claims, Jti, Claim)
  /\ DOMAIN claims = DOMAIN exp
  /\ fading \in [Right -> Int]

(* A token outlives none of its rights by more than a lifetime, counted    *)
(* from the moment the right was taken away: "a token stays stale after    *)
(* their roles change" until it expires, to the half second.  Only a right *)
(* that went between the load and the signature of its token may stay for  *)
(* longer (README.md:231-233, auth.service.ts:84-88, 194-200).             *)
StaleRightsFade ==
  \A jti \in DOMAIN claims :
    \A x \in Said(claims[jti]) \ (Effective \cup claims[jti].lost) :
      HalfSeconds(exp[jti]) <= now + fading[x]

(* A request reaches a route only with rights the account has, or had less *)
(* than a lifetime ago: all the permissions @Permissions names and one of  *)
(* the roles @Roles names.  Apart from those lost between load and         *)
(* signature, only a token that expired while Redis was asked says more    *)
(* (roles.guard.ts:10-24, permissions.guard.ts:10-25).                     *)
Recent(jti, x) ==
  \/ x \in Effective \cup claims[jti].lost
  \/ fading[x] > 0
  \/ Expired(jti)

RoutesAskForRecentRights ==
  [][\A r \in Request, route \in Route :
       Reach(r, route) =>
         /\ \A p \in route.permissions : Recent(req[r].jti, p)
         /\ route.roles = {} \/ \E x \in route.roles : Recent(req[r].jti, x)]_claimsVars
=============================================================================
