---------------------------- MODULE ClaimsProofs ----------------------------
(***************************************************************************)
(* Claims for any number of roles, permissions, tokens, logins and         *)
(* requests, and any lifetime of an access token.                          *)
(***************************************************************************)
EXTENDS Claims, AccessTokensProofs

(* What a login has loaded is the account's, or was taken away since.      *)
LoadedSinceThen ==
  \A i \in Issuer : loaded[i] # None =>
    Said(loaded[i]) \subseteq Effective \cup loaded[i].lost

ClaimsInv ==
  /\ ClaimsTypeOK /\ RequestsHold /\ SignedBefore
  /\ LoadedSinceThen
  /\ StaleRightsFade

-----------------------------------------------------------------------------
(* Every step of Claims is a step of AccessTokens or leaves it alone, and  *)
(* only signing and time change what the bound on a token speaks of.       *)
LEMMA ClaimsStepIsTokenStep == ClaimsNext \/ UNCHANGED claimsVars => [Next]_vars
BY DEF ClaimsNext, claimsVars, rights, AssignRoles, SetPermissions, CreateRole,
  RemoveRole, TakeAway, Load, Sign, Abandon, Reach, Forbid, GuardStep, TimePasses, Next

LEMMA TokenPart ==
  ASSUME ClaimsInv, ClaimsNext \/ UNCHANGED claimsVars
  PROVE  TypeOK' /\ RequestsHold' /\ SignedBefore'
<1>1. TokenInv /\ [Next]_vars
  BY ClaimsStepIsTokenStep DEF ClaimsInv, ClaimsTypeOK, TokenInv
<1>2. \/ Tick \/ (\E jti \in Jti : SignAccessToken(jti)) \/ UNCHANGED <<now, exp>>
  BY <1>1 DEF Next, Snapshot, RedisRestart, CanActivate, Validate, Respond, Logout,
    BlacklistToken, Fail, vars
<1> QED
  BY <1>1, <1>2, TypeStep, HoldStep, SignedBeforeStep DEF ClaimsInv, ClaimsTypeOK

(* The effect of a change of rights on the rest (users.service.ts:39-49,   *)
(* roles.service.ts:32-58).                                                *)
LEMMA TakeAwayTypes ==
  ASSUME ClaimsTypeOK, TakeAway
  PROVE  /\ fading' \in [Right -> Int]
         /\ loaded' \in [Issuer -> Claim \cup {None}]
<1> USE AccessTtlAssumption, IssuerAssumption DEF ClaimsTypeOK, TakeAway, HalfSeconds
<1>1. fading' \in [Right -> Int]
  OBVIOUS
<1>2. ASSUME NEW i \in Issuer, loaded[i] # None PROVE loaded'[i] \in Claim
  <2>1. loaded[i] \in Claim
    BY <1>2
  <2>2. (Effective \ Effective') \cap Said(loaded[i]) \subseteq Right
    BY <2>1 DEF Said, Claim, Right
  <2> QED
    BY <1>2, <2>1, <2>2 DEF Claim
<1> QED
  BY <1>1, <1>2

LEMMA ClaimsTypeStep ==
  ASSUME ClaimsInv, ClaimsNext \/ UNCHANGED claimsVars
  PROVE  ClaimsTypeOK'
<1> USE DEF ClaimsInv, ClaimsTypeOK
<1>0. TypeOK'
  BY TokenPart
<1>1. CASE AssignRoles
  BY <1>0, <1>1, TakeAwayTypes DEF AssignRoles, TakeAway, vars
<1>2. CASE SetPermissions
  <2>1. PICK x \in DOMAIN grants, asked \in SUBSET Permission :
          grants' = [grants EXCEPT ![x] = asked]
    BY <1>2 DEF SetPermissions
  <2>2. IsTable(grants', Role, SUBSET Permission) /\ DOMAIN grants' = DOMAIN grants
    BY <2>1 DEF IsTable
  <2> QED
    BY <1>0, <1>2, <2>2, TakeAwayTypes DEF SetPermissions, TakeAway, vars
<1>3. CASE CreateRole
  <2>1. PICK x \in Role, asked \in SUBSET Permission : grants' = Insert(grants, x, asked)
    BY <1>3 DEF CreateRole
  <2>2. /\ IsTable(grants', Role, SUBSET Permission)
        /\ DOMAIN grants' = DOMAIN grants \cup {x}
    BY <2>1 DEF IsTable, Insert
  <2> QED
    BY <1>0, <1>3, <2>2, TakeAwayTypes DEF CreateRole, TakeAway, vars
<1>4. CASE RemoveRole
  <2>1. PICK x \in DOMAIN grants :
          /\ grants' = [y \in DOMAIN grants \ {x} |-> grants[y]]
          /\ held' = held \ {x}
    BY <1>4 DEF RemoveRole
  <2>2. IsTable(grants', Role, SUBSET Permission) /\ DOMAIN grants' = DOMAIN grants \ {x}
    BY <2>1 DEF IsTable
  <2> QED
    BY <1>0, <1>4, <2>1, <2>2, TakeAwayTypes DEF RemoveRole, TakeAway, vars
<1>5. ASSUME NEW i \in Issuer, Load(i) PROVE ClaimsTypeOK'
  <2>1. [roles |-> FlattenRoleNames(held),
         permissions |-> FlattenPermissionNames(held), lost |-> {}] \in Claim
    BY DEF Claim, FlattenRoleNames, FlattenPermissionNames, IsTable
  <2> QED
    BY <1>0, <1>5, <2>1 DEF Load, vars
<1>6. ASSUME NEW i \in Issuer, Sign(i) PROVE ClaimsTypeOK'
  <2>1. PICK jti \in Jti : SignAccessToken(jti) /\ claims' = Insert(claims, jti, loaded[i])
    BY <1>6 DEF Sign
  <2>2. loaded[i] \in Claim
    BY <1>6 DEF Sign
  <2>3. IsTable(claims', Jti, Claim) /\ DOMAIN claims' = DOMAIN claims \cup {jti}
    BY <2>1, <2>2 DEF IsTable, Insert
  <2>4. DOMAIN exp' = DOMAIN exp \cup {jti}
    BY <2>1 DEF SignAccessToken, Insert
  <2> QED
    BY <1>0, <1>6, <2>3, <2>4 DEF Sign
<1>7. ASSUME NEW i \in Issuer, Abandon(i) PROVE ClaimsTypeOK'
  BY <1>0, <1>7 DEF Abandon, vars
<1>8. CASE TimePasses
  <2>1. fading' \in [Right -> Int]
    BY <1>8 DEF TimePasses
  <2> QED
    BY <1>0, <1>8, <2>1 DEF TimePasses, Tick
<1>9. ASSUME NEW r \in Request,
             GuardStep(r) \/ (\E route \in Route : Reach(r, route) \/ Forbid(r, route))
      PROVE  ClaimsTypeOK'
  <2>1. UNCHANGED <<rights, exp>>
    BY <1>9 DEF GuardStep, Reach, Forbid, CanActivate, Validate, Fail, Respond
  <2> QED
    BY <1>0, <2>1 DEF rights
<1>10. CASE UNCHANGED claimsVars
  BY <1>0, <1>10 DEF claimsVars, vars, rights
<1> QED
  BY <1>1, <1>2, <1>3, <1>4, <1>5, <1>6, <1>7, <1>8, <1>9, <1>10 DEF ClaimsNext

(* Whatever changes the roles, a load in flight stays honest about it and  *)
(* a token's bound holds from that moment on (auth.service.ts:84-88).      *)
LEMMA LoadedStep ==
  ASSUME ClaimsInv, ClaimsNext \/ UNCHANGED claimsVars
  PROVE  LoadedSinceThen'
<1> USE DEF ClaimsInv, ClaimsTypeOK, LoadedSinceThen
<1>1. ASSUME TakeAway, NEW i \in Issuer, loaded'[i] # None
      PROVE  Said(loaded'[i]) \subseteq Effective' \cup loaded'[i].lost
  <2> DEFINE gone == (Effective \ Effective') \cap Said(loaded[i])
  <2>1. loaded[i] \in Claim /\ loaded'[i] = [loaded[i] EXCEPT !.lost = @ \cup gone]
    BY <1>1 DEF TakeAway
  <2>2. Said(loaded'[i]) = Said(loaded[i]) /\ loaded'[i].lost = loaded[i].lost \cup gone
    <3> HIDE DEF gone
    <3> QED
      BY <2>1 DEF Said, Claim
  <2>3. Said(loaded[i]) \subseteq Effective \cup loaded[i].lost
    BY <2>1, IssuerAssumption DEF Claim, Right
  <2> QED
    BY <2>2, <2>3
<1>2. CASE AssignRoles \/ SetPermissions \/ CreateRole \/ RemoveRole
  BY <1>1, <1>2 DEF AssignRoles, SetPermissions, CreateRole, RemoveRole
<1>3. ASSUME NEW i \in Issuer, Load(i) PROVE LoadedSinceThen'
  <2>1. Effective' = Effective
    BY <1>3 DEF Load, Effective
  <2>2. Said(loaded'[i]) \subseteq Effective
    BY <1>3 DEF Load, Said, Effective, FlattenRoleNames, FlattenPermissionNames, IsTable
  <2>3. \A j \in Issuer \ {i} : loaded'[j] = loaded[j]
    BY <1>3 DEF Load
  <2> QED
    BY <2>1, <2>2, <2>3
<1>4. ASSUME NEW i \in Issuer, Sign(i) \/ Abandon(i) PROVE LoadedSinceThen'
  <2>1. Effective' = Effective
    BY <1>4 DEF Sign, Abandon, Effective
  <2>2. \A j \in Issuer : loaded'[j] = IF j = i THEN None ELSE loaded[j]
    BY <1>4 DEF Sign, Abandon
  <2> QED
    BY <2>1, <2>2
<1>5. CASE UNCHANGED <<grants, held, loaded>>
  <2>1. Effective' = Effective
    BY <1>5 DEF Effective
  <2> QED
    BY <1>5, <2>1
<1> QED
  BY <1>2, <1>3, <1>4, <1>5 DEF ClaimsNext, Reach, Forbid, GuardStep, TimePasses,
    claimsVars, rights

LEMMA StaleStep ==
  ASSUME ClaimsInv, ClaimsNext \/ UNCHANGED claimsVars
  PROVE  StaleRightsFade'
<1> USE AccessTtlAssumption DEF ClaimsInv, ClaimsTypeOK, HalfSeconds
<1>0. /\ now \in Nat
      /\ \A jti \in DOMAIN claims : /\ jti \in DOMAIN exp /\ exp[jti] \in Int
                                   /\ claims[jti] \in Claim
      /\ \A x \in Right : fading[x] \in Int
  BY DEF TypeOK, IsTable
<1>00. \A jti \in DOMAIN claims : Said(claims[jti]) \subseteq Right
  BY <1>0 DEF Claim, Said, Right
<1>1. CASE TakeAway
  <2> SUFFICES ASSUME NEW jti \in DOMAIN claims,
                      NEW x \in Said(claims[jti]) \ (Effective' \cup claims[jti].lost)
               PROVE  HalfSeconds(exp[jti]) <= now + fading'[x]
    BY <1>1 DEF TakeAway, vars, StaleRightsFade
  <2>1. x \in Right /\ fading'[x] = IF x \in Effective \ Effective'
                                 THEN HalfSeconds(AccessTtl) ELSE fading[x]
    BY <1>1, <1>00 DEF TakeAway
  <2>2. CASE x \in Effective
    BY <1>0, <2>1, <2>2 DEF SignedBefore
  <2>3. CASE x \notin Effective
    BY <2>1, <2>3 DEF StaleRightsFade
  <2> QED
    BY <2>2, <2>3
<1>2. ASSUME NEW i \in Issuer, Sign(i) PROVE StaleRightsFade'
  <2>1. PICK jti \in Jti : SignAccessToken(jti) /\ claims' = Insert(claims, jti, loaded[i])
    BY <1>2 DEF Sign
  <2>2. Said(claims'[jti]) \subseteq Effective \cup claims'[jti].lost
    BY <1>2, <2>1 DEF Sign, LoadedSinceThen, Insert
  <2>3. /\ DOMAIN claims' = DOMAIN claims \cup {jti}
        /\ \A j \in DOMAIN claims : j # jti /\ claims'[j] = claims[j] /\ exp'[j] = exp[j]
    BY <2>1 DEF Insert, SignAccessToken
  <2>4. now' = now /\ fading' = fading /\ Effective' = Effective
    BY <1>2, <2>1 DEF Sign, SignAccessToken, Effective
  <2> QED
    BY <2>2, <2>3, <2>4 DEF StaleRightsFade
<1>3. CASE TimePasses
  <2>1. Effective' = Effective /\ claims' = claims /\ exp' = exp /\ now' = now + 1
    BY <1>3 DEF TimePasses, Tick, Effective
  <2>2. \A x \in Right : fading'[x] = IF fading[x] > 0 THEN fading[x] - 1 ELSE 0
    BY <1>3 DEF TimePasses
  <2> QED
    BY <1>0, <1>00, <2>1, <2>2 DEF StaleRightsFade
<1>4. CASE UNCHANGED <<now, exp, grants, held, claims, fading>>
  <2>1. Effective' = Effective
    BY <1>4 DEF Effective
  <2> QED
    BY <1>4, <2>1 DEF StaleRightsFade
<1> QED
  BY <1>1, <1>2, <1>3, <1>4 DEF ClaimsNext, AssignRoles, SetPermissions, CreateRole,
    RemoveRole, Load, Abandon, Reach, Forbid, GuardStep, CanActivate, Validate, Fail,
    Respond, claimsVars, vars, rights

-----------------------------------------------------------------------------
(* The invariant of loading, signing and changing rights                   *)
(* (auth.service.ts:84-88, 189-200, rbac.util.ts).                         *)
THEOREM ClaimsInvariance == ClaimsSpec => []ClaimsInv
<1>1. ClaimsInit => ClaimsInv
  <2> SUFFICES ASSUME ClaimsInit PROVE ClaimsInv
    OBVIOUS
  <2>1. TypeOK /\ RequestsHold /\ SignedBefore
    BY InitIInv DEF ClaimsInit, IInv, TokenInv, Outlives
  <2>2. ClaimsTypeOK
    BY <2>1 DEF ClaimsInit, Init, ClaimsTypeOK, IsTable, EmptyTable
  <2> QED
    BY <2>1, <2>2 DEF ClaimsInit, ClaimsInv, LoadedSinceThen, StaleRightsFade, EmptyTable
<1>2. ClaimsInv /\ [ClaimsNext]_claimsVars => ClaimsInv'
  BY TokenPart, ClaimsTypeStep, LoadedStep, StaleStep DEF ClaimsInv
<1> QED
  BY <1>1, <1>2, PTL DEF ClaimsSpec

(* Tables, loads and claims stay well formed, and the account holds only   *)
(* roles that exist (users.service.ts:39-49, roles.service.ts:40-43).      *)
THEOREM ClaimsTypeCorrect == ClaimsSpec => []ClaimsTypeOK
<1>1. ClaimsInv => ClaimsTypeOK
  BY DEF ClaimsInv
<1> QED
  BY ClaimsInvariance, <1>1, PTL

(* A right taken away leaves every token within one lifetime, but for the  *)
(* tokens whose load it overtook (README.md:231-233).                      *)
THEOREM StaleRights == ClaimsSpec => []StaleRightsFade
<1>1. ClaimsInv => StaleRightsFade
  BY DEF ClaimsInv
<1> QED
  BY ClaimsInvariance, <1>1, PTL

(* What the guards let a request reach, it had the rights for less than a  *)
(* lifetime ago (roles.guard.ts:10-24, permissions.guard.ts:10-25).        *)
THEOREM RecentRights == ClaimsSpec => RoutesAskForRecentRights
<1>1. ASSUME ClaimsInv, NEW r \in Request, NEW route \in Route, Reach(r, route)
      PROVE  /\ \A p \in route.permissions : Recent(req[r].jti, p)
             /\ route.roles = {} \/ \E x \in route.roles : Recent(req[r].jti, x)
  <2> DEFINE jti == req[r].jti
  <2>1. jti \in DOMAIN claims /\ exp[jti] \in Int /\ now \in Nat /\ claims[jti] \in Claim
    BY <1>1 DEF Reach, Respond, ClaimsInv, ClaimsTypeOK, RequestsHold, TypeOK, IsTable
  <2>2. ASSUME NEW x \in Said(claims[jti]) PROVE Recent(jti, x)
    <3> SUFFICES ASSUME x \notin Effective \cup claims[jti].lost, ~(fading[x] > 0)
                 PROVE  Expired(jti)
      BY DEF Recent
    <3>1. fading[x] \in Int /\ HalfSeconds(exp[jti]) <= now + fading[x]
      BY <1>1, <2>1, <2>2 DEF ClaimsInv, ClaimsTypeOK, StaleRightsFade, Said, Claim, Right
    <3>2. HalfSeconds(exp[jti]) <= now
      BY <2>1, <3>1 DEF HalfSeconds
    <3> QED
      BY <2>1, <3>2, FloorOfSeconds DEF Expired
  <2> QED
    BY <1>1, <2>2 DEF Reach, RolesGuard, PermissionsGuard, Said
<1>2. ClaimsInv => [\A r \in Request, route \in Route :
        Reach(r, route) =>
          /\ \A p \in route.permissions : Recent(req[r].jti, p)
          /\ route.roles = {} \/ \E x \in route.roles : Recent(req[r].jti, x)]_claimsVars
  BY <1>1
<1> QED
  BY ClaimsInvariance, <1>2, PTL DEF RoutesAskForRecentRights
=============================================================================
