------------------------- MODULE AccessTokensProofs -------------------------
(***************************************************************************)
(* AccessTokens for any number of tokens and requests and any lifetimes:   *)
(* what a logout promises holds as long as JWT_ACCESS_TOKEN_TTL is at most *)
(* the lifetime the controller passes to the blacklist.                    *)
(***************************************************************************)
EXTENDS AccessTokens, TLAPS

(* A signature dates from the past, so that an entry written now with a    *)
(* lifetime of at least AccessTtl outlives it, in Redis and, once saved,   *)
(* in its snapshot.                                                        *)
SignedBefore == \A jti \in DOMAIN exp : HalfSeconds(exp[jti] - AccessTtl) <= now

Covers(entries) ==
  \A jti \in DOMAIN entries \cap DOMAIN exp : HalfSeconds(exp[jti]) <= entries[jti]

Outlives ==
  /\ SignedBefore
  /\ loggedOut \ forgotten \subseteq DOMAIN redis
  /\ Covers(redis) /\ Covers(snapshot)

(* A request holds a token that was signed; a late one a logged-out token. *)
RequestsHold ==
  /\ loggedOut \subseteq DOMAIN exp
  /\ DOMAIN redis \subseteq DOMAIN exp /\ DOMAIN snapshot \subseteq DOMAIN exp
  /\ \A r \in Request :
       /\ req[r].at # "idle" => req[r].jti \in DOMAIN exp
       /\ req[r].late => req[r].jti \in loggedOut

TokenInv == TypeOK /\ RequestsHold
IInv == TokenInv /\ Outlives

-----------------------------------------------------------------------------
(* Inserting a row of the right type keeps a table a table. *)
LEMMA TableInsert ==
  ASSUME NEW T, NEW K, NEW R, IsTable(T, K, R), NEW k \in K, NEW v \in R
  PROVE  /\ IsTable(Insert(T, k, v), K, R)
         /\ DOMAIN Insert(T, k, v) = DOMAIN T \cup {k}
         /\ Insert(T, k, v)[k] = v
         /\ \A j \in DOMAIN T : j # k => Insert(T, k, v)[j] = T[j]
BY DEF IsTable, Insert

(* A whole second begins with its first half second. *)
LEMMA FloorOfSeconds ==
  ASSUME NEW t \in Nat
  PROVE  /\ Seconds(t) \in Int
         /\ HalfSeconds(Seconds(t)) <= t
         /\ \A s \in Int : HalfSeconds(s) <= t => s <= Seconds(t)
BY DEF Seconds, HalfSeconds

LEMMA InitIInv == Init => IInv
BY AccessTtlAssumption DEF Init, IInv, TokenInv, TypeOK, RequestsHold, Outlives, SignedBefore,
  Covers, IsTable, EmptyTable, Locals, Stage, Idle

(* Type correctness of every step (JwtStrategy, AuthService.logout,        *)
(* RedisService).                                                          *)
LEMMA TypeStep == TokenInv /\ [Next]_vars => TypeOK'
<1> SUFFICES ASSUME TokenInv, [Next]_vars PROVE TypeOK'
  OBVIOUS
<1> USE AccessTtlAssumption, BlacklistTtlAssumption
      DEF TokenInv, RequestsHold, TypeOK, Locals, Stage, Idle, Finish, store, history
<1>1. CASE Tick
  BY <1>1 DEF Tick
<1>2. ASSUME NEW jti \in Jti, SignAccessToken(jti) PROVE TypeOK'
  <2>0. exp' = Insert(exp, jti, Seconds(now) + AccessTtl)
    BY <1>2 DEF SignAccessToken
  <2>1. IsTable(exp', Jti, Int)
    <3>1. Seconds(now) + AccessTtl \in Int
      BY FloorOfSeconds
    <3>2. IsTable(exp, Jti, Int)
      OBVIOUS
    <3> QED
      BY <2>0, <3>1, <3>2, TableInsert, Zenon
  <2> QED
    BY <2>1, <1>2 DEF SignAccessToken
<1>3. ASSUME NEW r \in Request, CanActivate(r) PROVE TypeOK'
  <2> PICK jti \in DOMAIN exp : req' = [req EXCEPT ![r] =
        [at |-> "guard", jti |-> jti, late |-> jti \in loggedOut]]
    BY <1>3 DEF CanActivate
  <2>1. jti \in Jti /\ (jti \in loggedOut) \in BOOLEAN
    BY DEF IsTable
  <2> QED
    BY <2>1, <1>3 DEF CanActivate
<1>4. ASSUME NEW r \in Request, Validate(r) \/ Respond(r) \/ Logout(r) \/ Fail(r)
      PROVE TypeOK'
  <2>1. \/ Finish(r)
        \/ \E stage \in Stage : req' = [req EXCEPT ![r].at = stage]
    BY <1>4 DEF Validate, Respond, Logout, Fail
  <2>2. req' \in [Request -> Locals]
    <3>1. CASE Finish(r)
      BY <3>1
    <3>2. ASSUME NEW stage \in Stage, req' = [req EXCEPT ![r].at = stage]
          PROVE  req' \in [Request -> Locals]
      BY <3>2
    <3> QED
      BY <2>1, <3>1, <3>2
  <2>3. UNCHANGED <<now, exp, store, history>>
    BY <1>4 DEF Validate, Respond, Logout, Fail
  <2> QED
    BY <2>3, <2>2
<1>5. ASSUME NEW r \in Request, BlacklistToken(r) PROVE TypeOK'
  <2>1. req[r].jti \in Jti
    BY <1>5 DEF BlacklistToken, RequestsHold, IsTable
  <2>2. now + HalfSeconds(BlacklistTtl) \in Nat
    BY DEF HalfSeconds
  <2>3. IsTable(redis', Jti, Nat)
    BY <1>5, <2>1, <2>2, TableInsert DEF BlacklistToken
  <2> QED
    BY <1>5, <2>1, <2>3 DEF BlacklistToken
<1>6. CASE Snapshot \/ RedisRestart
  BY <1>6 DEF Snapshot, RedisRestart
<1>7. CASE UNCHANGED vars
  BY <1>7 DEF vars
<1> QED
  BY <1>1, <1>2, <1>3, <1>4, <1>5, <1>6, <1>7 DEF Next

LEMMA HoldStep == TokenInv /\ [Next]_vars => RequestsHold'
<1> SUFFICES ASSUME TokenInv, [Next]_vars PROVE RequestsHold'
  OBVIOUS
<1> USE DEF TokenInv, TypeOK, RequestsHold, Locals, Idle, Finish, store, history
<1>1. CASE Tick \/ Snapshot \/ RedisRestart
  BY <1>1 DEF Tick, Snapshot, RedisRestart
<1>2. ASSUME NEW jti \in Jti, SignAccessToken(jti) PROVE RequestsHold'
  BY <1>2 DEF SignAccessToken, Insert
<1>3. ASSUME NEW r \in Request, CanActivate(r) PROVE RequestsHold'
  BY <1>3 DEF CanActivate
<1>4. ASSUME NEW r \in Request, Validate(r) \/ Respond(r) \/ Logout(r) \/ Fail(r)
      PROVE RequestsHold'
  BY <1>4 DEF Validate, Respond, Logout, Fail
<1>5. ASSUME NEW r \in Request, BlacklistToken(r) PROVE RequestsHold'
  <2>1. req[r].jti \in DOMAIN exp
    BY <1>5 DEF BlacklistToken
  <2>2. DOMAIN redis' \subseteq DOMAIN redis \cup {req[r].jti}
    BY <1>5 DEF BlacklistToken, Insert
  <2> QED
    BY <1>5, <2>1, <2>2 DEF BlacklistToken
<1>6. CASE UNCHANGED vars
  BY <1>6 DEF vars
<1> QED
  BY <1>1, <1>2, <1>3, <1>4, <1>5, <1>6 DEF Next

(* A signature dates from the past, whatever the lifetimes are. *)
LEMMA SignedBeforeStep ==
  ASSUME TypeOK, SignedBefore, Tick \/ (\E jti \in Jti : SignAccessToken(jti))
                                 \/ UNCHANGED <<now, exp>>
  PROVE  SignedBefore'
<1> USE AccessTtlAssumption DEF SignedBefore, HalfSeconds
<1>0. now \in Nat /\ \A jti \in DOMAIN exp : exp[jti] \in Int
  BY DEF TypeOK, IsTable
<1>1. CASE Tick
  BY <1>0, <1>1 DEF Tick
<1>2. ASSUME NEW jti \in Jti, SignAccessToken(jti) PROVE SignedBefore'
  <2>1. Seconds(now) \in Int /\ HalfSeconds(Seconds(now)) <= now
    BY <1>0, FloorOfSeconds
  <2>2. HalfSeconds(exp'[jti] - AccessTtl) <= now
    BY <1>2, <2>1 DEF Insert, SignAccessToken
  <2>3. DOMAIN exp' = DOMAIN exp \cup {jti} /\ \A j \in DOMAIN exp : exp'[j] = exp[j]
    BY <1>2 DEF Insert, SignAccessToken
  <2> QED
    BY <1>2, <2>2, <2>3 DEF SignAccessToken
<1>3. CASE UNCHANGED <<now, exp>>
  BY <1>3
<1> QED
  BY <1>1, <1>2, <1>3

LEMMA OutlivesStep ==
  AccessTtl <= BlacklistTtl /\ 0 < BlacklistTtl /\ IInv /\ [Next]_vars => Outlives'
<1> SUFFICES ASSUME AccessTtl <= BlacklistTtl, 0 < BlacklistTtl, IInv, [Next]_vars
             PROVE  Outlives'
  OBVIOUS
<1> USE AccessTtlAssumption, BlacklistTtlAssumption
      DEF IInv, TokenInv, Outlives, Covers, HalfSeconds, store, history
<1>0. /\ now \in Nat
      /\ \A jti \in DOMAIN exp : exp[jti] \in Int
      /\ \A jti \in DOMAIN redis : redis[jti] \in Int
  BY DEF TypeOK, IsTable
<1>1. SignedBefore'
  BY SignedBeforeStep DEF Next, Snapshot, RedisRestart, CanActivate, Validate,
    Respond, Logout, BlacklistToken, Fail, vars
<1>2. CASE Tick \/ Snapshot \/ RedisRestart
  BY <1>1, <1>2 DEF Tick, Snapshot, RedisRestart, TypeOK
<1>3. ASSUME NEW jti \in Jti, SignAccessToken(jti) PROVE Outlives'
  <2>1. jti \notin DOMAIN exp /\ jti \notin DOMAIN redis /\ jti \notin DOMAIN snapshot
    BY <1>3 DEF SignAccessToken, RequestsHold
  <2>2. DOMAIN exp' = DOMAIN exp \cup {jti} /\ \A j \in DOMAIN exp : exp'[j] = exp[j]
    BY <1>3 DEF Insert, SignAccessToken
  <2> QED
    BY <1>1, <1>3, <2>1, <2>2 DEF SignAccessToken
<1>4. ASSUME NEW r \in Request, CanActivate(r) \/ Validate(r) \/ Respond(r)
                                  \/ Logout(r) \/ Fail(r)
      PROVE Outlives'
  BY <1>1, <1>4 DEF CanActivate, Validate, Respond, Logout, Fail
<1>5. ASSUME NEW r \in Request, BlacklistToken(r) PROVE Outlives'
  <2>1. redis' = Insert(redis, req[r].jti, now + HalfSeconds(BlacklistTtl))
    BY <1>5 DEF BlacklistToken
  <2>2. req[r].jti \in DOMAIN exp
    BY <1>5 DEF BlacklistToken, RequestsHold
  <2>3. HalfSeconds(exp[req[r].jti]) <= now + HalfSeconds(BlacklistTtl)
    BY <1>0, <2>2 DEF SignedBefore
  <2>4. Covers(redis)'
    BY <1>5, <2>1, <2>3 DEF BlacklistToken, Insert
  <2>5. (loggedOut \ forgotten)' \subseteq DOMAIN redis'
    BY <1>5, <2>1 DEF BlacklistToken, Insert
  <2> QED
    BY <1>1, <1>5, <2>4, <2>5 DEF BlacklistToken
<1>6. CASE UNCHANGED vars
  BY <1>1, <1>6 DEF vars
<1> QED
  BY <1>2, <1>3, <1>4, <1>5, <1>6 DEF Next

-----------------------------------------------------------------------------
(* Tables and requests stay well formed, and only logged-out tokens are    *)
(* ever forgotten (jwt.strategy.ts:24-39, redis.service.ts:9-17).          *)
THEOREM TokensTypeCorrect == Spec => []TypeOK
<1>1. Init => TokenInv
  BY InitIInv DEF IInv
<1>2. TokenInv /\ [Next]_vars => TokenInv'
  BY TypeStep, HoldStep DEF TokenInv
<1>3. TokenInv => TypeOK
  BY DEF TokenInv
<1> QED
  BY <1>1, <1>2, <1>3, PTL DEF Spec

(* The invariant of signing, guard, blacklist and restarts under that      *)
(* condition (token.service.ts:43-64, auth.controller.ts:56-63).           *)
THEOREM Invariance ==
  AccessTtl <= BlacklistTtl /\ 0 < BlacklistTtl /\ Spec => []IInv
<1> SUFFICES ASSUME AccessTtl <= BlacklistTtl, 0 < BlacklistTtl
             PROVE  Spec => []IInv
  OBVIOUS
<1>1. IInv /\ [Next]_vars => IInv'
  BY TypeStep, HoldStep, OutlivesStep DEF IInv, TokenInv
<1> QED
  BY InitIInv, <1>1, PTL DEF Spec

(* With an access-token lifetime no longer than the blacklist's, a         *)
(* logged-out token that no restart of Redis has lost is blacklisted until *)
(* it expires (auth.controller.ts:60-63).                                  *)
THEOREM LoggedOutTokens ==
  AccessTtl <= BlacklistTtl /\ 0 < BlacklistTtl /\ Spec => []LoggedOutIsBlacklisted
<1>1. IInv => LoggedOutIsBlacklisted
  <2> SUFFICES ASSUME IInv, NEW jti \in loggedOut \ forgotten, ~IsTokenBlacklisted(jti)
               PROVE  Expired(jti)
    BY DEF LoggedOutIsBlacklisted
  <2>1. /\ jti \in DOMAIN exp /\ exp[jti] \in Int /\ now \in Nat
        /\ jti \in DOMAIN redis /\ redis[jti] \in Nat
    BY DEF IInv, TokenInv, TypeOK, RequestsHold, Outlives, IsTable
  <2>2. HalfSeconds(exp[jti]) <= redis[jti] /\ redis[jti] <= now
    BY <2>1 DEF IInv, Outlives, Covers, IsTokenBlacklisted
  <2>3. HalfSeconds(exp[jti]) <= now
    BY <2>1, <2>2 DEF HalfSeconds
  <2>4. exp[jti] <= Seconds(now) /\ Seconds(now) \in Int
    BY <2>1, <2>3, FloorOfSeconds
  <2> QED
    BY <2>1, <2>4 DEF Expired
<1> QED
  BY Invariance, <1>1, PTL

(* Then no request that begins after the logout reaches a handler, but for *)
(* one whose token Redis has forgotten or that expired while Redis was     *)
(* asked (jwt.strategy.ts:24-29).                                          *)
THEOREM LateRequests ==
  AccessTtl <= BlacklistTtl /\ 0 < BlacklistTtl /\ Spec => LateRequestsAreRefused
<1>1. IInv /\ LoggedOutIsBlacklisted /\ [Next]_vars =>
        [\A r \in Request :
           req[r].at = "guard" /\ req'[r].at = "admitted" /\ req[r].late =>
             req[r].jti \in forgotten \/ Expired(req[r].jti)]_vars
  <2> SUFFICES ASSUME IInv, LoggedOutIsBlacklisted, Next, NEW r \in Request,
                      req[r].at = "guard", req'[r].at = "admitted", req[r].late
               PROVE  req[r].jti \in forgotten \/ Expired(req[r].jti)
    BY DEF vars
  <2>1. req[r].jti \in loggedOut
    BY DEF IInv, TokenInv, RequestsHold
  <2>2. Validate(r)
    BY DEF Next, Tick, SignAccessToken, Snapshot, RedisRestart, CanActivate, Validate,
      Respond, Logout, BlacklistToken, Fail, Finish, Idle, IInv, TokenInv, TypeOK
  <2>3. ~IsTokenBlacklisted(req[r].jti)
    BY <2>2 DEF Validate, Finish, Idle, IInv, TokenInv, TypeOK
  <2> QED
    BY <2>1, <2>3 DEF LoggedOutIsBlacklisted
<1> QED
  BY Invariance, LoggedOutTokens, <1>1, PTL DEF Spec, LateRequestsAreRefused
=============================================================================
