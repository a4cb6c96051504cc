---------------------------- MODULE AuthService ----------------------------
(***************************************************************************)
(* The session and password operations of AuthService                      *)
(* (src/modules/auth/auth.service.ts) over the tables users,               *)
(* refresh_tokens and auth_tokens and the Redis blacklist.                 *)
(*                                                                         *)
(* No operation runs in a transaction: every `await` on the database or on *)
(* Redis is a point where other requests run.  A request in flight is a    *)
(* slot of `req` that holds the handler's local variables and the          *)
(* statement it is about to execute (`at`); one action executes one        *)
(* statement and everything up to the next one.  A request that is refused *)
(* changes nothing; it is an action only where it ends one already begun.  *)
(*                                                                         *)
(* A raw refresh token, its SHA-256 hash, the id of its row and the jti of *)
(* the access token issued with it are one TokenId, since all of them are  *)
(* drawn together and never collide.  Time appears as Expire and           *)
(* ExpireReset; the access token's own lifetime is in AccessTokens, and    *)
(* leaving it out here only lets bearer requests come later than they may. *)
(***************************************************************************)
EXTENDS Naturals, FiniteSets, Tables

CONSTANTS
  User,        \* email addresses, one per account
  Password,    \* passwords; a stored hash is the password it verifies
  TokenId,     \* rows of refresh_tokens
  Family,      \* refresh-token families, one per login
  ResetId,     \* rows of auth_tokens
  Request,     \* requests that can be in flight at the same time
  Registered,  \* accounts that exist at the start
  Calls,       \* endpoints the clients of this instance call
  MayFail,     \* whether a statement may fail or the server may crash
  None         \* an unset local variable

ASSUME RegisteredAssumption == Registered \subseteq User
ASSUME RequestAssumption == IsFiniteSet(Request)
ASSUME MayFailAssumption == MayFail \in BOOLEAN
ASSUME NoneAssumption ==
  None \notin User \cup Password \cup TokenId \cup Family \cup ResetId

VARIABLES
  users,          \* table users: email -> password
  refreshTokens,  \* table refresh_tokens
  authTokens,     \* table auth_tokens (password resets)
  blacklist,      \* keys blacklist:<jti> of Redis
  req,            \* the requests in flight
  rotations,      \* history: <<parent, child>> of every rotation
  opened,         \* history: who opened a family, and with which password
  purged,         \* history: families that reuse detection has ended
  excused,        \* history: see Settle
  redeemed        \* history: how often a reset token has been marked used

tables == <<users, refreshTokens, authTokens, blacklist>>
history == <<rotations, opened, purged, excused, redeemed>>
vars == <<users, refreshTokens, authTokens, blacklist, req, rotations,
          opened, purged, excused, redeemed>>

RefreshToken ==
  [userId : User, family : Family, revoked : BOOLEAN, expired : BOOLEAN]
AuthToken == [userId : User, used : BOOLEAN, expired : BOOLEAN]

Statement == {"idle", "register.save", "issue", "refresh.reuse",
  "refresh.revoke", "logout.revoke", "logout.blacklist", "logoutAll",
  "reset.password", "reset.used", "change.find", "change.password",
  "session.find", "session.revoke"}

Locals == [at : Statement, user : User \cup {None}, family : Family \cup {None},
  token : TokenId \cup {None}, jti : TokenId \cup {None},
  reset : ResetId \cup {None}, password : Password \cup {None},
  current : Password \cup {None}]

Idle == [at |-> "idle", user |-> None, family |-> None, token |-> None,
  jti |-> None, reset |-> None, password |-> None, current |-> None]

-----------------------------------------------------------------------------
(* Requests *)

Begin(r, locals) == req[r] = Idle /\ req' = [req EXCEPT ![r] = locals]
Advance(r, statement) == req' = [req EXCEPT ![r].at = statement]
Finish(r) == req' = [req EXCEPT ![r] = Idle]

Issuing == {r \in Request : req[r].at \in {"refresh.revoke", "issue"}}

(* Bounds of an instance: a request that will draw an id finds an unused   *)
(* one.  randomBytes and randomUUID do not run out.                        *)
RoomForAToken ==
  Cardinality({r \in Request : req[r].at \in {"register.save", "refresh.revoke", "issue"}})
    < Cardinality(TokenId \ DOMAIN refreshTokens)

RoomForAFamily ==
  Cardinality({r \in Request : req[r].at = "register.save"})
    < Cardinality(Family \ DOMAIN opened)

(* JwtStrategy.validate and the guard before a bearer route: the signature *)
(* says who the user is, Redis whether the jti was logged out.             *)
Authenticated(jti, u) ==
  /\ jti \in DOMAIN refreshTokens
  /\ refreshTokens[jti].userId = u
  /\ jti \notin blacklist
BearerUsers == {u \in User : \E jti \in DOMAIN refreshTokens : Authenticated(jti, u)}

-----------------------------------------------------------------------------
(* The WHERE clauses and the checks of the handlers *)

Issued == DOMAIN refreshTokens
Usable(t) == t \in Issued /\ ~refreshTokens[t].revoked /\ ~refreshTokens[t].expired

(* Mutants: refresh forgets to look at `revoked`, or at expiresAt. *)
RotatableAfterUse(t) == ~refreshTokens[t].expired
RotatableAfterExpiry(t) == ~refreshTokens[t].revoked

(* The checks of refresh on the row it read. *)
Rotatable(t) == ~refreshTokens[t].revoked /\ ~refreshTokens[t].expired

RowsOfFamily(f) == {t \in Issued : refreshTokens[t].family = f}
(* Mutant: the WHERE clause forgets userId. *)
OwnRowByHashOnly(t, u) == {s \in Issued : s = t}

OwnRow(t, u) == {s \in Issued : s = t /\ refreshTokens[s].userId = u}
OpenRowsOf(u) == {t \in Issued : refreshTokens[t].userId = u /\ ~refreshTokens[t].revoked}

ListedSessions(u) == {t \in OpenRowsOf(u) : ~refreshTokens[t].expired}

Revoke(rows) ==
  refreshTokens' = [t \in Issued |->
    IF t \in rows THEN [refreshTokens[t] EXCEPT !.revoked = TRUE]
                  ELSE refreshTokens[t]]

(* Mutant: resetPassword forgets to look at `used`. *)
ResetUsableTwice(k) == k \in DOMAIN authTokens /\ ~authTokens[k].expired

ResetUsable(k) ==
  k \in DOMAIN authTokens /\ ~authTokens[k].used /\ ~authTokens[k].expired

-----------------------------------------------------------------------------
(* History.  A password change leaves to its logoutAll the sessions opened *)
(* with the old password.  `excused` records the families that escape it:  *)
(* those whose refresh or login was in flight when the last request that   *)
(* owed the logoutAll executed it, or, when that request failed instead,   *)
(* every family it would have ended.                                       *)

Stale(f) == opened[f].password # users[opened[f].user]
Owing(u) ==
  {r \in Request : req[r].at \in {"reset.used", "logoutAll"} /\ req[r].user = u}
FamiliesOf(u) == {f \in DOMAIN opened : opened[f].user = u}
InFlight == {req[r].family : r \in Issuing}
Live == {refreshTokens[t].family : t \in {s \in Issued : Usable(s)}}

Settle(r, escaped) ==
  LET u == req[r].user IN
  excused' = IF Owing(u) = {r}
             THEN (excused \ FamiliesOf(u))
                    \cup {f \in FamiliesOf(u) \cap escaped : Stale(f)}
             ELSE excused

-----------------------------------------------------------------------------
(* Issuing tokens *)

(* issueTokenPair: the INSERT; the pair reaches the client after it.       *)
Issue(r) ==
  /\ req[r].at = "issue"
  /\ \E t \in TokenId \ Issued :
       /\ refreshTokens' = Insert(refreshTokens, t,
            [userId |-> req[r].user, family |-> req[r].family,
             revoked |-> FALSE, expired |-> FALSE])
       /\ rotations' = IF req[r].token = None THEN rotations
                       ELSE rotations \cup {<<req[r].token, t>>}
  /\ Finish(r)
  /\ UNCHANGED <<users, authTokens, blacklist, opened, purged, excused, redeemed>>

(* Mutant: the family names the device, which two users may share. *)
OpenFamilyOfDevice(u, p, f) ==
  /\ f \in Family
  /\ opened' = Insert(opened, f, [user |-> u, password |-> p])
  /\ UNCHANGED <<rotations, purged, excused, redeemed>>

(* A login or registration draws a new family. *)
OpenFamily(u, p, f) ==
  /\ f \in Family \ DOMAIN opened
  /\ opened' = Insert(opened, f, [user |-> u, password |-> p])
  /\ UNCHANGED <<rotations, purged, excused, redeemed>>

(* register, up to UsersService.create's look-up of the email. *)
Register(r) ==
  /\ "register" \in Calls
  /\ RoomForAToken
  /\ RoomForAFamily
  /\ \E u \in User \ DOMAIN users, p \in Password :
       Begin(r, [Idle EXCEPT !.at = "register.save", !.user = u, !.password = p])
  /\ UNCHANGED <<tables, history>>

(* UsersService.create's INSERT, refused by the unique index on email when *)
(* another registration came first.                                        *)
RegisterSave(r) ==
  /\ req[r].at = "register.save"
  /\ req[r].user \notin DOMAIN users
  /\ users' = Insert(users, req[r].user, req[r].password)
  /\ \E f \in Family :
       /\ OpenFamily(req[r].user, req[r].password, f)
       /\ req' = [req EXCEPT ![r] =
            [Idle EXCEPT !.at = "issue", !.user = req[r].user, !.family = f]]
  /\ UNCHANGED <<refreshTokens, authTokens, blacklist>>

RegisterConflict(r) ==
  /\ req[r].at = "register.save"
  /\ req[r].user \in DOMAIN users
  /\ Finish(r)
  /\ UNCHANGED <<tables, history>>

(* LocalStrategy and login: whoever knows the stored password. *)
Login(r) ==
  /\ "login" \in Calls
  /\ RoomForAToken
  /\ RoomForAFamily
  /\ \E u \in DOMAIN users, f \in Family :
       /\ OpenFamily(u, users[u], f)
       /\ Begin(r, [Idle EXCEPT !.at = "issue", !.user = u, !.family = f])
  /\ UNCHANGED tables

-----------------------------------------------------------------------------
(* refresh *)

(* The row is read once; its checks use what was read. *)
Refresh(r) ==
  /\ "refresh" \in Calls
  /\ RoomForAToken
  /\ \E t \in Issued :
       /\ Rotatable(t)
       /\ Begin(r, [Idle EXCEPT !.at = "refresh.revoke", !.token = t,
            !.user = refreshTokens[t].userId, !.family = refreshTokens[t].family])
  /\ UNCHANGED <<tables, history>>

(* Mutants: the presented token is not revoked; the family is not passed   *)
(* on to issueTokenPair.                                                   *)
RefreshKeepsToken(r) ==
  /\ req[r].at = "refresh.revoke"
  /\ Advance(r, "issue")
  /\ UNCHANGED <<tables, history>>

RefreshLosesFamily(r) ==
  /\ req[r].at = "refresh.revoke"
  /\ Revoke({req[r].token})
  /\ req' = [req EXCEPT ![r].at = "issue", ![r].family = None]
  /\ UNCHANGED <<users, authTokens, blacklist, history>>

RefreshRevoke(r) ==
  /\ req[r].at = "refresh.revoke"
  /\ Revoke({req[r].token})
  /\ Advance(r, "issue")
  /\ UNCHANGED <<users, authTokens, blacklist, history>>

(* A revoked token is presented: reuse, whether or not it has expired. *)
RefreshReplay(r) ==
  /\ "refresh" \in Calls
  /\ \E t \in Issued :
       /\ refreshTokens[t].revoked
       /\ Begin(r, [Idle EXCEPT !.at = "refresh.reuse", !.token = t,
            !.user = refreshTokens[t].userId, !.family = refreshTokens[t].family])
  /\ UNCHANGED <<tables, history>>

(* History: reuse detection ends a family of which nothing is in flight;   *)
(* otherwise see EndedButForThoseInFlight.                                 *)
Purge(f) == purged' = purged \cup ({f} \ InFlight)

(* Mutant: only the replayed row is revoked. *)
RevokeReplayedRow(r) ==
  /\ req[r].at = "refresh.reuse"
  /\ Revoke({req[r].token})
  /\ Purge(req[r].family)
  /\ Finish(r)
  /\ UNCHANGED <<users, authTokens, blacklist, rotations, opened, excused, redeemed>>

RevokeFamily(r) ==
  /\ req[r].at = "refresh.reuse"
  /\ Revoke(RowsOfFamily(req[r].family))
  /\ Purge(req[r].family)
  /\ Finish(r)
  /\ UNCHANGED <<users, authTokens, blacklist, rotations, opened, excused, redeemed>>

-----------------------------------------------------------------------------
(* logout, logoutAll, revokeSession: the sessions a user ends *)

(* The refresh token in the body is any string, also one never issued. *)
Logout(r) ==
  /\ "logout" \in Calls
  /\ \E u \in User, jti \in Issued, t \in TokenId :
       /\ Authenticated(jti, u)
       /\ Begin(r, [Idle EXCEPT !.at = "logout.revoke", !.user = u,
            !.jti = jti, !.token = t])
  /\ UNCHANGED <<tables, history>>

LogoutRevoke(r) ==
  /\ req[r].at = "logout.revoke"
  /\ Revoke(OwnRow(req[r].token, req[r].user))
  /\ Advance(r, "logout.blacklist")
  /\ UNCHANGED <<users, authTokens, blacklist, history>>

LogoutBlacklist(r) ==
  /\ req[r].at = "logout.blacklist"
  /\ blacklist' = blacklist \cup {req[r].jti}
  /\ Finish(r)
  /\ UNCHANGED <<users, refreshTokens, authTokens, history>>

LogoutAll(r) ==
  /\ "logoutAll" \in Calls
  /\ \E u \in BearerUsers :
       Begin(r, [Idle EXCEPT !.at = "logoutAll", !.user = u])
  /\ UNCHANGED <<tables, history>>

(* logoutAll, called by its endpoint and last by a password change; the    *)
(* user cache it deletes afterwards is written nowhere.                    *)
RevokeAll(r) ==
  /\ req[r].at = "logoutAll"
  /\ Revoke(OpenRowsOf(req[r].user))
  /\ Settle(r, InFlight)
  /\ Finish(r)
  /\ UNCHANGED <<users, authTokens, blacklist, rotations, opened, purged, redeemed>>

RevokeSession(r) ==
  /\ "revokeSession" \in Calls
  /\ \E u \in BearerUsers, t \in TokenId :
       Begin(r, [Idle EXCEPT !.at = "session.find", !.user = u, !.token = t])
  /\ UNCHANGED <<tables, history>>

(* The session is found among the user's own rows, or it is 404. *)
SessionFind(r) ==
  /\ req[r].at = "session.find"
  /\ IF OwnRow(req[r].token, req[r].user) # {}
     THEN Advance(r, "session.revoke")
     ELSE Finish(r)
  /\ UNCHANGED <<tables, history>>

SessionRevoke(r) ==
  /\ req[r].at = "session.revoke"
  /\ Revoke({req[r].token})
  /\ Finish(r)
  /\ UNCHANGED <<users, authTokens, blacklist, history>>

-----------------------------------------------------------------------------
(* Passwords *)

ForgotPassword ==
  /\ "forgotPassword" \in Calls
  /\ \E u \in DOMAIN users, k \in ResetId \ DOMAIN authTokens :
       authTokens' = Insert(authTokens, k,
         [userId |-> u, used |-> FALSE, expired |-> FALSE])
  /\ UNCHANGED <<users, refreshTokens, blacklist, req, history>>

ResetPassword(r) ==
  /\ "resetPassword" \in Calls
  /\ \E k \in DOMAIN authTokens, p \in Password :
       /\ ResetUsable(k)
       /\ Begin(r, [Idle EXCEPT !.at = "reset.password", !.reset = k,
            !.user = authTokens[k].userId, !.password = p])
  /\ UNCHANGED <<tables, history>>

ResetUpdate(r) ==
  /\ req[r].at = "reset.password"
  /\ users' = [users EXCEPT ![req[r].user] = req[r].password]
  /\ Advance(r, "reset.used")
  /\ UNCHANGED <<refreshTokens, authTokens, blacklist, history>>

(* Mutant: the reset ends without logoutAll. *)
ResetUsedOnly(r) ==
  /\ req[r].at = "reset.used"
  /\ authTokens' = [authTokens EXCEPT ![req[r].reset].used = TRUE]
  /\ redeemed' = [redeemed EXCEPT ![req[r].reset] = @ + 1]
  /\ Finish(r)
  /\ UNCHANGED <<users, refreshTokens, blacklist, rotations, opened, purged, excused>>

ResetUsed(r) ==
  /\ req[r].at = "reset.used"
  /\ authTokens' = [authTokens EXCEPT ![req[r].reset].used = TRUE]
  /\ redeemed' = [redeemed EXCEPT ![req[r].reset] = @ + 1]
  /\ Advance(r, "logoutAll")
  /\ UNCHANGED <<users, refreshTokens, blacklist, rotations, opened, purged, excused>>

ChangePassword(r) ==
  /\ "changePassword" \in Calls
  /\ \E u \in BearerUsers, p, q \in Password :
       Begin(r, [Idle EXCEPT !.at = "change.find", !.user = u,
         !.current = p, !.password = q])
  /\ UNCHANGED <<tables, history>>

(* The stored password is read and verified, then the new one is hashed. *)
ChangeVerify(r) ==
  /\ req[r].at = "change.find"
  /\ IF users[req[r].user] = req[r].current
     THEN Advance(r, "change.password")
     ELSE Finish(r)
  /\ UNCHANGED <<tables, history>>

(* Mutant: the change ends without logoutAll. *)
ChangeUpdateOnly(r) ==
  /\ req[r].at = "change.password"
  /\ users' = [users EXCEPT ![req[r].user] = req[r].password]
  /\ Finish(r)
  /\ UNCHANGED <<refreshTokens, authTokens, blacklist, history>>

ChangeUpdate(r) ==
  /\ req[r].at = "change.password"
  /\ users' = [users EXCEPT ![req[r].user] = req[r].password]
  /\ Advance(r, "logoutAll")
  /\ UNCHANGED <<refreshTokens, authTokens, blacklist, history>>

-----------------------------------------------------------------------------
(* Time and failure *)

Expire ==
  /\ \E t \in Issued :
       /\ ~refreshTokens[t].expired
       /\ refreshTokens' = [refreshTokens EXCEPT ![t].expired = TRUE]
  /\ UNCHANGED <<users, authTokens, blacklist, req, history>>

ExpireReset ==
  /\ \E k \in DOMAIN authTokens :
       /\ ~authTokens[k].expired
       /\ authTokens' = [authTokens EXCEPT ![k].expired = TRUE]
  /\ UNCHANGED <<users, refreshTokens, blacklist, req, history>>

(* A statement throws, or the process dies: the request ends where it is. *)
Fail(r) ==
  /\ MayFail
  /\ req[r] # Idle
  /\ Settle(r, Live \cup InFlight)
  /\ Finish(r)
  /\ UNCHANGED <<tables, rotations, opened, purged, redeemed>>
-----------------------------------------------------------------------------
(* Specification *)

Init ==
  /\ users \in [Registered -> Password]
  /\ refreshTokens = EmptyTable
  /\ authTokens = EmptyTable
  /\ blacklist = {}
  /\ req = [r \in Request |-> Idle]
  /\ rotations = {}
  /\ opened = EmptyTable
  /\ purged = {}
  /\ excused = {}
  /\ redeemed = [k \in ResetId |-> 0]

Call(r) ==
  \/ Register(r) \/ Login(r) \/ Refresh(r) \/ RefreshReplay(r)
  \/ Logout(r) \/ LogoutAll(r) \/ RevokeSession(r)
  \/ ResetPassword(r) \/ ChangePassword(r)

Proceed(r) ==
  \/ RegisterSave(r) \/ RegisterConflict(r) \/ Issue(r)
  \/ RefreshRevoke(r) \/ RevokeFamily(r)
  \/ LogoutRevoke(r) \/ LogoutBlacklist(r) \/ RevokeAll(r)
  \/ SessionFind(r) \/ SessionRevoke(r)
  \/ ResetUpdate(r) \/ ResetUsed(r) \/ ChangeVerify(r) \/ ChangeUpdate(r)

Next ==
  \/ \E r \in Request : Call(r) \/ Proceed(r) \/ Fail(r)
  \/ ForgotPassword \/ Expire \/ ExpireReset

Spec == Init /\ [][Next]_vars

(* The event loop resumes every request whose statement has returned; no   *)
(* client is bound to call anything.                                       *)
FairSpec == Spec /\ \A r \in Request : WF_vars(Proceed(r))

-----------------------------------------------------------------------------
(* Properties *)

(* The tables hold well-formed rows and each request the locals of its     *)
(* handler (auth.service.ts:41-220).                                       *)
TypeOK ==
  /\ IsTable(users, User, Password)
  /\ IsTable(refreshTokens, TokenId, RefreshToken)
  /\ IsTable(authTokens, ResetId, AuthToken)
  /\ blacklist \subseteq TokenId
  /\ req \in [Request -> Locals]
  /\ rotations \subseteq TokenId \X TokenId
  /\ IsTable(opened, Family, [user : User, password : Password])
  /\ purged \subseteq Family
  /\ excused \subseteq Family
  /\ redeemed \in [ResetId -> Nat]

(* A token that has been exchanged for another is revoked, and the new one *)
(* belongs to the same family: presenting the old one is always seen as    *)
(* reuse (auth.service.ts:74-78, 86-88).                                   *)
RotatedIsRevoked ==
  \A link \in rotations :
    /\ link[1] \in Issued /\ link[2] \in Issued
    /\ refreshTokens[link[1]].revoked
    /\ refreshTokens[link[1]].family = refreshTokens[link[2]].family

(* A token is exchanged more than once only by refreshes that overlap: the *)
(* exchanges made and under way never outnumber the requests that can be   *)
(* in flight together (auth.service.ts:68-88).                             *)
Exchanges(t) == Cardinality({link \in rotations : link[1] = t})
                  + Cardinality({r \in Issuing : req[r].token = t})
ForksNeedARace == \A t \in Issued : Exchanges(t) <= Cardinality(Request)

(* Two exchanges of one token divide its family.                          *)
Forked(f) == \E t \in RowsOfFamily(f) : Exchanges(t) > 1

(* A login has one session: a second token of its family that is not       *)
(* revoked exists only where two refreshes exchanged one token together    *)
(* (auth.service.ts:68-88, 163-164).                                       *)
TwoSessionsNeedAFork ==
  \A s, t \in Issued :
    /\ refreshTokens[s].family = refreshTokens[t].family
    /\ ~refreshTokens[s].revoked
    /\ ~refreshTokens[t].revoked
    => s = t \/ Forked(refreshTokens[s].family)

(* Revoking a session by its row, or logging out with its token, ends the  *)
(* login it stands for: nothing usable and nothing in flight remains in    *)
(* the row's family.  Not so only if the row was no longer the newest one  *)
(* (it has been exchanged, or a refresh of it is under way), or if         *)
(* overlapping refreshes had forked the family before                      *)
(* (auth.service.ts:91-93, 163-164, 180-187).                              *)
RevokesItsRow(r) ==
  /\ refreshTokens' # refreshTokens
  /\ \/ req[r].at = "session.revoke" /\ req'[r] = Idle
     \/ req[r].at = "logout.revoke" /\ req'[r].at = "logout.blacklist"
RevokedSessionEnds ==
  [][\A r \in Request : RevokesItsRow(r) =>
       LET t == req[r].token
           f == refreshTokens[t].family
       IN  f \notin Live' \cup InFlight' \/ Exchanges(t) > 0 \/ Forked(f)]_vars

(* Reuse detection ends the session of the token presented, and logoutAll  *)
(* every session of its user, but for one whose refresh, or whose login,   *)
(* was in flight at that moment: that one goes on with the token it is     *)
(* about to get (auth.service.ts:74-77, 100-101).                          *)
Ending(r, f) == \/ RevokeFamily(r) /\ f = req[r].family
                \/ RevokeAll(r) /\ f \in FamiliesOf(req[r].user)
EndedButForThoseInFlight ==
  [][\A r \in Request, f \in Family :
       Ending(r, f) => f \notin Live' \cup InFlight' \/ f \in InFlight]_vars

(* Every row of a family, and every request about to add one, belongs to   *)
(* the account that opened the family, although issueTokenPair takes user  *)
(* and family from different places (auth.service.ts:84-88, 189-212).      *)
FamilyHasOneOwner ==
  /\ \A t \in Issued :
       /\ refreshTokens[t].family \in DOMAIN opened
       /\ refreshTokens[t].userId = opened[refreshTokens[t].family].user
  /\ \A r \in Issuing :
       /\ req[r].family \in DOMAIN opened
       /\ req[r].user = opened[req[r].family].user

(* A usable session opened with another password than the stored one is    *)
(* either about to be revoked by a logoutAll already under way, or escaped *)
(* the last one by being in flight or by its failure                       *)
(* (auth.service.ts:129-143, 150-161).                                     *)
StaleSessionsAreExcused ==
  \A t \in Issued :
    LET row == refreshTokens[t] IN
    Usable(t) => \/ opened[row.family].password = users[row.userId]
                 \/ row.family \in excused
                 \/ Owing(row.userId) # {}

(* Once a reset token is marked used and no request holds it any more, no  *)
(* request ever acts on it again (auth.service.ts:131-141).                *)
Spent(k) ==
  /\ k \in DOMAIN authTokens
  /\ authTokens[k].used
  /\ \A r \in Request : req[r].reset # k
SpentResetStaysSpent == [][\A k \in ResetId : Spent(k) => Spent(k)']_vars

(* A reset token is redeemed more than once only by requests that passed   *)
(* the check of `used` together: those that have marked it used and those  *)
(* on their way to it never outnumber the requests that can be in flight   *)
(* at once.  One that fails before it marks the token leaves it as it was  *)
(* (auth.service.ts:131-141).                                              *)
Redeeming(k) ==
  {r \in Request : req[r].reset = k /\ req[r].at \in {"reset.password", "reset.used"}}
ResetsNeedARace ==
  \A k \in ResetId : redeemed[k] + Cardinality(Redeeming(k)) <= Cardinality(Request)

(* A session is revoked only by a step of a request made in the name of    *)
(* its owner: nobody ends another user's sessions (auth.service.ts:76, 87, *)
(* 93, 101, 182-186).                                                      *)
RevokedOnlyForOwner ==
  [][\A t \in Issued :
       ~refreshTokens[t].revoked /\ refreshTokens'[t].revoked =>
         \E r \in Request : /\ req[r].user = refreshTokens[t].userId
                            /\ req'[r] # req[r]]_vars

(* Every usable session with an outdated password ends, or is one of those *)
(* that escape: a request that changed the password goes on to its         *)
(* logoutAll (auth.service.ts:140-142, 159-160).                           *)
Outdated(f) == f \in Live /\ Stale(f) /\ f \notin excused
OutdatedSessionsEnd == \A f \in Family : Outdated(f) ~> ~Outdated(f)

-----------------------------------------------------------------------------
(* A family that reuse detection has ended while nothing of it was in      *)
(* flight stays dead: none of its tokens is ever valid again, however the  *)
(* requests for it overlap (auth.service.ts:62-64, 74-78).                 *)
PurgedFamilyStaysDead ==
  \A t \in Issued :
    refreshTokens[t].family \in purged => refreshTokens[t].revoked

-----------------------------------------------------------------------------
(* Claims of a comment and of a test, which overlapping requests break.    *)

(* "one row per refresh-token family" (auth.service.ts:163). *)
OneSessionPerFamily ==
  \A u \in DOMAIN users : \A s, t \in ListedSessions(u) :
    refreshTokens[s].family = refreshTokens[t].family => s = t

(* "rejects an expired or already-used token"                              *)
(* (auth.service.spec.ts:197, for auth.service.ts:135-137): no password    *)
(* changes on the strength of a token already marked used.                 *)
UsedResetIsRefused ==
  [][\A r \in Request :
       req[r].at = "reset.password" /\ req'[r].at = "reset.used" =>
         ~authTokens[req[r].reset].used]_vars

-----------------------------------------------------------------------------
(* Refinement: what clients may rely on about a login's sessions. *)

Status(f) == IF f \notin DOMAIN opened THEN "unused"
             ELSE IF f \in Live \cup InFlight THEN "open" ELSE "closed"

SF == INSTANCE SessionFamilies WITH
        status <- [f \in Family |-> Status(f)],
        holder <- [f \in Family |-> IF f \in DOMAIN opened
                                    THEN opened[f].user ELSE None]
RefinesSessionFamilies == SF!Spec
=============================================================================
