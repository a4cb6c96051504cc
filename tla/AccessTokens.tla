---------------------------- MODULE AccessTokens ----------------------------
(***************************************************************************)
(* The lifetime of an access token and of the blacklist entry a logout     *)
(* leaves for it: TokenService.signAccessToken, JwtAuthGuard, JwtStrategy, *)
(* AuthController.logout, AuthService.logout, RedisService and a Redis     *)
(* that saves its keys now and then and may restart from them.             *)
(*                                                                         *)
(* `now` counts half seconds, so that a signature or a SET may fall inside *)
(* a second: a JWT counts whole seconds (iat and exp are floors), Redis    *)
(* counts from the instant of the SET.  The server and Redis read the same *)
(* clock.                                                                  *)
(***************************************************************************)
EXTENDS Integers, Tables

CONSTANTS
  Jti,           \* access tokens
  Request,       \* bearer requests that can be in flight at the same time
  AccessTtl,     \* JWT_ACCESS_TOKEN_TTL, in seconds
  BlacklistTtl,  \* what AuthController.logout passes as expSeconds, 15 * 60
  Horizon,       \* bound of an instance: the clock stops here
  MayFail,       \* whether a statement may fail or the server may crash
  None           \* an unset local variable

ASSUME AccessTtlAssumption == AccessTtl \in Int
ASSUME BlacklistTtlAssumption == BlacklistTtl \in Nat
ASSUME NoneAssumption == None \notin Jti

VARIABLES
  now,        \* the clock, in half seconds
  exp,        \* the exp claim of every signed token, in seconds
  redis,      \* blacklist:<jti> -> the instant its entry expires
  snapshot,   \* the keys Redis has saved
  req,        \* the requests in flight
  loggedOut,  \* history: tokens whose logout has answered
  forgotten   \* history: those of them a restart of Redis has lost

store == <<redis, snapshot>>
history == <<loggedOut, forgotten>>
vars == <<now, exp, store, req, history>>

Stage == {"idle", "guard", "admitted", "logout.blacklist"}

Locals == [at : Stage, jti : Jti \cup {None}, late : BOOLEAN]
Idle == [at |-> "idle", jti |-> None, late |-> FALSE]
Finish(r) == req' = [req EXCEPT ![r] = Idle]

Seconds(t) == t \div 2
HalfSeconds(s) == 2 * s

(* jsonwebtoken: a token is expired from the second its exp names.         *)
Expired(jti) == Seconds(now) >= exp[jti]

(* RedisService.isTokenBlacklisted: GET finds the key until its EX is up.  *)
IsTokenBlacklisted(jti) == jti \in DOMAIN redis /\ now < redis[jti]

-----------------------------------------------------------------------------
Init ==
  /\ now = 0
  /\ exp = EmptyTable
  /\ redis = EmptyTable
  /\ snapshot = EmptyTable
  /\ req = [r \in Request |-> Idle]
  /\ loggedOut = {}
  /\ forgotten = {}

Tick ==
  /\ now < Horizon
  /\ now' = now + 1
  /\ UNCHANGED <<exp, store, req, history>>

(* Mutant: the signer rounds the instant of issue up to the next second.   *)
SignAccessTokenRoundedUp(jti) ==
  /\ jti \notin DOMAIN exp
  /\ exp' = Insert(exp, jti, Seconds(now + 1) + AccessTtl)
  /\ UNCHANGED <<now, store, req, history>>

SignAccessToken(jti) ==
  /\ jti \notin DOMAIN exp
  /\ exp' = Insert(exp, jti, Seconds(now) + AccessTtl)
  /\ UNCHANGED <<now, store, req, history>>

(* The guard verifies signature and expiry, then asks Redis.  `late` is a  *)
(* history: the request began after the token's logout had answered.       *)
CanActivate(r) ==
  /\ req[r] = Idle
  /\ \E jti \in DOMAIN exp :
       /\ ~Expired(jti)
       /\ req' = [req EXCEPT ![r] =
            [at |-> "guard", jti |-> jti, late |-> jti \in loggedOut]]
  /\ UNCHANGED <<now, exp, store, history>>

(* Mutants: Redis is not asked; the jti is left out of what is returned.   *)
ValidateWithoutRedis(r) ==
  /\ req[r].at = "guard"
  /\ req' = [req EXCEPT ![r].at = "admitted"]
  /\ UNCHANGED <<now, exp, store, history>>

ValidateDropsJti(r) ==
  /\ req[r].at = "guard"
  /\ IF IsTokenBlacklisted(req[r].jti)
     THEN Finish(r)
     ELSE req' = [req EXCEPT ![r].at = "admitted", ![r].jti = None]
  /\ UNCHANGED <<now, exp, store, history>>

Validate(r) ==
  /\ req[r].at = "guard"
  /\ IF IsTokenBlacklisted(req[r].jti)
     THEN Finish(r)
     ELSE req' = [req EXCEPT ![r].at = "admitted"]
  /\ UNCHANGED <<now, exp, store, history>>

(* Any route but logout: what it does is in the other modules. *)
Respond(r) ==
  /\ req[r].at = "admitted"
  /\ Finish(r)
  /\ UNCHANGED <<now, exp, store, history>>

(* logout revokes the refresh token first (AuthService), then blacklists.  *)
Logout(r) ==
  /\ req[r].at = "admitted"
  /\ req' = [req EXCEPT ![r].at = "logout.blacklist"]
  /\ UNCHANGED <<now, exp, store, history>>

(* SET ... EX; a lifetime that is not positive writes nothing. *)
BlacklistToken(r) ==
  /\ req[r].at = "logout.blacklist"
  /\ redis' = IF BlacklistTtl <= 0 THEN redis
              ELSE Insert(redis, req[r].jti, now + HalfSeconds(BlacklistTtl))
  /\ loggedOut' = loggedOut \cup {req[r].jti}
  /\ forgotten' = forgotten \ {req[r].jti}
  /\ Finish(r)
  /\ UNCHANGED <<now, exp, snapshot>>

(* Redis or the database throws, or the process dies: no route is reached  *)
(* without Redis's answer.                                                 *)
Fail(r) ==
  /\ MayFail
  /\ req[r] # Idle
  /\ Finish(r)
  /\ UNCHANGED <<now, exp, store, history>>

(* Redis saves its keys with the instants they expire at.                  *)
Snapshot ==
  /\ MayFail
  /\ snapshot' = redis
  /\ UNCHANGED <<now, exp, redis, req, history>>

(* Redis dies and is started again on its volume: what it had not saved is *)
(* gone, what it had saved runs out when it would have.                    *)
RedisRestart ==
  /\ MayFail
  /\ redis' = snapshot
  /\ forgotten' = loggedOut \ DOMAIN snapshot
  /\ UNCHANGED <<now, exp, snapshot, req, loggedOut>>

Next ==
  \/ Tick \/ Snapshot \/ RedisRestart
  \/ \E jti \in Jti : SignAccessToken(jti)
  \/ \E r \in Request : \/ CanActivate(r) \/ Validate(r) \/ Respond(r)
                        \/ Logout(r) \/ BlacklistToken(r) \/ Fail(r)

Spec == Init /\ [][Next]_vars

-----------------------------------------------------------------------------
(* Every table and request is well formed. *)
TypeOK ==
  /\ now \in Nat
  /\ IsTable(exp, Jti, Int)
  /\ IsTable(redis, Jti, Nat)
  /\ IsTable(snapshot, Jti, Nat)
  /\ req \in [Request -> Locals]
  /\ loggedOut \subseteq Jti
  /\ forgotten \subseteq loggedOut

(* A token whose logout has answered is blacklisted for as long as its     *)
(* signature is accepted, whatever Redis has lost before that logout or    *)
(* saved after it; only a restart from a snapshot older than the logout    *)
(* brings a token back (auth.controller.ts:60-63, redis.service.ts:9-17).  *)
LoggedOutIsBlacklisted ==
  \A jti \in loggedOut \ forgotten : Expired(jti) \/ IsTokenBlacklisted(jti)

(* A request that began after its token's logout had answered reaches no   *)
(* handler, unless Redis has forgotten that logout or the token expired    *)
(* while Redis was being asked: the guard checks expiry before the await   *)
(* and never again (jwt.strategy.ts:24-29).                                *)
LateRequestsAreRefused ==
  [][\A r \in Request :
       req[r].at = "guard" /\ req'[r].at = "admitted" /\ req[r].late =>
         req[r].jti \in forgotten \/ Expired(req[r].jti)]_vars
=============================================================================
