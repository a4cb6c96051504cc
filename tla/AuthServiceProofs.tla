------------------------- MODULE AuthServiceProofs -------------------------
(***************************************************************************)
(* AuthService for every set of users, passwords, ids and requests.        *)
(***************************************************************************)
EXTENDS AuthService, FiniteSetTheorems, TLAPS

(* What a handler has put in its local variables when it reaches a         *)
(* statement.                                                              *)
Prepared(q) ==
  /\ q.at = "register.save" => q.user \in User /\ q.password \in Password
  /\ q.at \in {"refresh.reuse", "refresh.revoke", "issue"} =>
       q.user \in User /\ q.family \in Family
  /\ q.at = "refresh.revoke" => q.token \in TokenId
  /\ q.at \in {"logout.revoke", "logout.blacklist"} => q.jti \in TokenId
  /\ q.at \in {"reset.password", "change.find", "change.password"} =>
       q.password \in Password

Typed == TypeOK /\ \A r \in Request : Prepared(req[r])

-----------------------------------------------------------------------------
(* Inserting a row of the right type keeps a table a table. *)
LEMMA TableInsert ==
  ASSUME NEW T, NEW K, NEW R, IsTable(T, K, R), NEW k \in K, NEW v \in R
  PROVE  IsTable(Insert(T, k, v), K, R)
BY DEF IsTable, Insert

(* No request has prepared anything before it begins. *)
LEMMA IdleIsPrepared == Idle \in Locals /\ Prepared(Idle)
BY DEF Idle, Locals, Statement, Prepared

(* An UPDATE of `revoked` keeps refresh_tokens a table of the same rows.   *)
LEMMA RevokeRows ==
  ASSUME IsTable(refreshTokens, TokenId, RefreshToken), NEW rows, Revoke(rows)
  PROVE  /\ IsTable(refreshTokens', TokenId, RefreshToken)
         /\ DOMAIN refreshTokens' = Issued
         /\ \A t \in Issued :
              /\ refreshTokens'[t].userId = refreshTokens[t].userId
              /\ refreshTokens'[t].family = refreshTokens[t].family
              /\ refreshTokens'[t].expired = refreshTokens[t].expired
              /\ refreshTokens'[t].revoked = (refreshTokens[t].revoked \/ t \in rows)
<1> USE DEF IsTable, Issued, Revoke, RefreshToken
<1>1. DOMAIN refreshTokens' = Issued
  OBVIOUS
<1>2. ASSUME NEW t \in Issued
      PROVE  /\ refreshTokens'[t] \in RefreshToken
             /\ refreshTokens'[t].userId = refreshTokens[t].userId
             /\ refreshTokens'[t].family = refreshTokens[t].family
             /\ refreshTokens'[t].expired = refreshTokens[t].expired
             /\ refreshTokens'[t].revoked = (refreshTokens[t].revoked \/ t \in rows)
  <2>1. CASE t \in rows
    BY <2>1
  <2>2. CASE t \notin rows
    BY <2>2
  <2> QED
    BY <2>1, <2>2
<1>3. refreshTokens' \in [Issued -> RefreshToken]
  BY <1>1, <1>2
<1> QED
  BY <1>1, <1>2, <1>3

(* The three ways an action moves a request keep it well formed.           *)
LEMMA MoveRequest ==
  ASSUME Typed, NEW r \in Request, NEW q \in Locals, Prepared(q),
         req' = [req EXCEPT ![r] = q]
  PROVE  req' \in [Request -> Locals] /\ \A s \in Request : Prepared(req'[s])
BY DEF Typed, TypeOK

LEMMA AdvanceRequest ==
  ASSUME Typed, NEW r \in Request, NEW s \in Statement, Advance(r, s),
         Prepared([req[r] EXCEPT !.at = s])
  PROVE  req' \in [Request -> Locals] /\ \A p \in Request : Prepared(req'[p])
<1>1. [req[r] EXCEPT !.at = s] \in Locals
  BY DEF Typed, TypeOK, Locals
<1>2. req' = [req EXCEPT ![r] = [req[r] EXCEPT !.at = s]]
  BY DEF Advance
<1> QED
  BY <1>1, <1>2, MoveRequest

LEMMA FinishRequest ==
  ASSUME Typed, NEW r \in Request, Finish(r)
  PROVE  req' \in [Request -> Locals] /\ \A s \in Request : Prepared(req'[s])
BY MoveRequest, IdleIsPrepared DEF Finish

-----------------------------------------------------------------------------
(* Type correctness *)

LEMMA InitTyped == Init => Typed
<1> SUFFICES ASSUME Init PROVE Typed
  OBVIOUS
<1>1. IsTable(users, User, Password)
  BY RegisteredAssumption DEF Init, IsTable
<1>2. /\ IsTable(refreshTokens, TokenId, RefreshToken)
      /\ IsTable(authTokens, ResetId, AuthToken)
      /\ IsTable(opened, Family, [user : User, password : Password])
  BY DEF Init, IsTable, EmptyTable
<1>3. req \in [Request -> Locals] /\ \A r \in Request : Prepared(req[r])
  BY IdleIsPrepared DEF Init
<1> QED
  BY <1>1, <1>2, <1>3 DEF Init, Typed, TypeOK

(* A reset token is redeemed by the UPDATE that marks it used.             *)
LEMMA RedeemedStep ==
  ASSUME redeemed \in [ResetId -> Nat], [Next]_vars
  PROVE  /\ redeemed' \in [ResetId -> Nat]
         /\ \/ UNCHANGED redeemed
            \/ \E r \in Request :
                 /\ ResetUsed(r)
                 /\ redeemed' = [redeemed EXCEPT ![req[r].reset] = @ + 1]
<1>1. \/ UNCHANGED redeemed
      \/ \E r \in Request :
           /\ ResetUsed(r)
           /\ redeemed' = [redeemed EXCEPT ![req[r].reset] = @ + 1]
  BY DEF Next, Call, Register, Login, Refresh, RefreshReplay, Logout, LogoutAll,
    RevokeSession, ResetPassword, ChangePassword, Proceed, RegisterSave, RegisterConflict,
    Issue, RefreshRevoke, RevokeFamily, LogoutRevoke, LogoutBlacklist, RevokeAll,
    SessionFind, SessionRevoke, ResetUpdate, ResetUsed, ChangeVerify, ChangeUpdate,
    Fail, ForgotPassword, Expire, ExpireReset, OpenFamily, history, vars
<1> QED
  BY <1>1

(* Each step keeps tables, requests and histories well formed (every       *)
(* handler of auth.service.ts).                                            *)
LEMMA TypedStep == Typed /\ [Next]_vars => Typed'
<1> SUFFICES ASSUME Typed, [Next]_vars PROVE Typed'
  OBVIOUS
<1> DEFINE RequestsOK == req' \in [Request -> Locals] /\ \A r \in Request : Prepared(req'[r])
<1>0. /\ IsTable(users, User, Password)
      /\ IsTable(refreshTokens, TokenId, RefreshToken)
      /\ IsTable(authTokens, ResetId, AuthToken)
      /\ IsTable(opened, Family, [user : User, password : Password])
      /\ req \in [Request -> Locals]
      /\ \A r \in Request : Prepared(req[r])
      /\ redeemed' \in [ResetId -> Nat]
  BY RedeemedStep DEF Typed, TypeOK
<1>1. ASSUME NEW r \in Request, Register(r) PROVE Typed'
  <2> PICK u \in User, p \in Password :
        req' = [req EXCEPT ![r] =
          [Idle EXCEPT !.at = "register.save", !.user = u, !.password = p]]
    BY <1>1 DEF Register, Begin
  <2>1. RequestsOK
    BY MoveRequest DEF Idle, Locals, Statement, Prepared
  <2> QED
    BY <1>0, <1>1, <2>1 DEF Register, Typed, TypeOK, tables, history
<1>2. ASSUME NEW r \in Request, RegisterSave(r) PROVE Typed'
  <2>1. req[r].user \in User /\ req[r].password \in Password
    BY <1>0, <1>2 DEF RegisterSave, Prepared
  <2> PICK f \in Family :
        /\ OpenFamily(req[r].user, req[r].password, f)
        /\ req' = [req EXCEPT ![r] =
             [Idle EXCEPT !.at = "issue", !.user = req[r].user, !.family = f]]
    BY <1>2 DEF RegisterSave
  <2>2. RequestsOK
    BY <2>1, MoveRequest DEF Idle, Locals, Statement, Prepared
  <2>3. IsTable(users', User, Password)
    BY <1>0, <1>2, <2>1, TableInsert DEF RegisterSave
  <2>4. IsTable(opened', Family, [user : User, password : Password])
    BY <1>0, <2>1, TableInsert DEF OpenFamily
  <2> QED
    BY <1>0, <1>2, <2>2, <2>3, <2>4 DEF RegisterSave, OpenFamily, Typed, TypeOK
<1>3. ASSUME NEW r \in Request, Login(r) PROVE Typed'
  <2> PICK u \in DOMAIN users, f \in Family :
        /\ OpenFamily(u, users[u], f)
        /\ Begin(r, [Idle EXCEPT !.at = "issue", !.user = u, !.family = f])
    BY <1>3 DEF Login
  <2>1. u \in User /\ users[u] \in Password
    BY <1>0 DEF IsTable
  <2>2. RequestsOK
    BY <2>1, MoveRequest DEF Begin, Idle, Locals, Statement, Prepared
  <2>3. IsTable(opened', Family, [user : User, password : Password])
    BY <1>0, <2>1, TableInsert DEF OpenFamily
  <2> QED
    BY <1>0, <1>3, <2>2, <2>3 DEF Login, OpenFamily, Typed, TypeOK, tables
<1>4. ASSUME NEW r \in Request, Refresh(r) \/ RefreshReplay(r) PROVE Typed'
  <2> PICK t \in Issued, stage \in {"refresh.revoke", "refresh.reuse"} :
        Begin(r, [Idle EXCEPT !.at = stage, !.token = t,
          !.user = refreshTokens[t].userId, !.family = refreshTokens[t].family])
    BY <1>4 DEF Refresh, RefreshReplay
  <2>1. /\ t \in TokenId /\ refreshTokens[t].userId \in User
        /\ refreshTokens[t].family \in Family
    BY <1>0 DEF IsTable, Issued, RefreshToken
  <2>2. RequestsOK
    BY <2>1, MoveRequest DEF Begin, Idle, Locals, Statement, Prepared
  <2> QED
    BY <1>0, <1>4, <2>2 DEF Refresh, RefreshReplay, Typed, TypeOK, tables, history
<1>5. ASSUME NEW r \in Request, Logout(r) PROVE Typed'
  <2> PICK u \in User, jti \in Issued, t \in TokenId :
        Begin(r, [Idle EXCEPT !.at = "logout.revoke", !.user = u,
          !.jti = jti, !.token = t])
    BY <1>5 DEF Logout
  <2>1. jti \in TokenId
    BY <1>0 DEF IsTable, Issued
  <2>2. RequestsOK
    BY <2>1, MoveRequest DEF Begin, Idle, Locals, Statement, Prepared
  <2> QED
    BY <1>0, <1>5, <2>2 DEF Logout, Typed, TypeOK, tables, history
<1>6. ASSUME NEW r \in Request, LogoutAll(r) PROVE Typed'
  <2> PICK u \in User : Begin(r, [Idle EXCEPT !.at = "logoutAll", !.user = u])
    BY <1>6 DEF LogoutAll, BearerUsers
  <2>1. RequestsOK
    BY MoveRequest DEF Begin, Idle, Locals, Statement, Prepared
  <2> QED
    BY <1>0, <1>6, <2>1 DEF LogoutAll, Typed, TypeOK, tables, history
<1>7. ASSUME NEW r \in Request, RevokeSession(r) PROVE Typed'
  <2> PICK u \in User, t \in TokenId :
        Begin(r, [Idle EXCEPT !.at = "session.find", !.user = u, !.token = t])
    BY <1>7 DEF RevokeSession, BearerUsers
  <2>1. RequestsOK
    BY MoveRequest DEF Begin, Idle, Locals, Statement, Prepared
  <2> QED
    BY <1>0, <1>7, <2>1 DEF RevokeSession, Typed, TypeOK, tables, history
<1>8. ASSUME NEW r \in Request, ResetPassword(r) PROVE Typed'
  <2> PICK k \in DOMAIN authTokens, p \in Password :
        Begin(r, [Idle EXCEPT !.at = "reset.password", !.reset = k,
          !.user = authTokens[k].userId, !.password = p])
    BY <1>8 DEF ResetPassword
  <2>1. k \in ResetId /\ authTokens[k].userId \in User
    BY <1>0 DEF IsTable, AuthToken
  <2>2. RequestsOK
    BY <2>1, MoveRequest DEF Begin, Idle, Locals, Statement, Prepared
  <2> QED
    BY <1>0, <1>8, <2>2 DEF ResetPassword, Typed, TypeOK, tables, history
<1>9. ASSUME NEW r \in Request, ChangePassword(r) PROVE Typed'
  <2> PICK u \in User, p \in Password, q \in Password :
        Begin(r, [Idle EXCEPT !.at = "change.find", !.user = u,
          !.current = p, !.password = q])
    BY <1>9 DEF ChangePassword, BearerUsers
  <2>1. RequestsOK
    BY MoveRequest DEF Begin, Idle, Locals, Statement, Prepared
  <2> QED
    BY <1>0, <1>9, <2>1 DEF ChangePassword, Typed, TypeOK, tables, history
<1>10. ASSUME NEW r \in Request, RegisterConflict(r) PROVE Typed'
  BY <1>0, <1>10, FinishRequest DEF RegisterConflict, Typed, TypeOK, tables, history
<1>11. ASSUME NEW r \in Request, Issue(r) PROVE Typed'
  <2>1. req[r].user \in User /\ req[r].family \in Family
    BY <1>0, <1>11 DEF Issue, Prepared
  <2>2. IsTable(refreshTokens', TokenId, RefreshToken)
    <3> PICK t \in TokenId \ Issued : refreshTokens' = Insert(refreshTokens, t,
          [userId |-> req[r].user, family |-> req[r].family,
           revoked |-> FALSE, expired |-> FALSE])
      BY <1>11 DEF Issue
    <3>1. [userId |-> req[r].user, family |-> req[r].family,
           revoked |-> FALSE, expired |-> FALSE] \in RefreshToken
      BY <2>1 DEF RefreshToken
    <3> QED
      BY <1>0, <3>1, TableInsert
  <2>3. rotations' \subseteq TokenId \X TokenId
    BY <1>0, <1>11 DEF Issue, Typed, TypeOK, Locals
  <2> QED
    BY <1>0, <1>11, <2>2, <2>3, FinishRequest DEF Issue, Typed, TypeOK
<1>12. ASSUME NEW r \in Request, RefreshRevoke(r) PROVE Typed'
  <2>1. RequestsOK
    BY <1>0, <1>12, AdvanceRequest DEF RefreshRevoke, Statement, Prepared, Typed, TypeOK, Locals
  <2> QED
    BY <1>0, <1>12, <2>1, RevokeRows DEF RefreshRevoke, Typed, TypeOK, history
<1>13. ASSUME NEW r \in Request, RevokeFamily(r) PROVE Typed'
  <2>1. req[r].family \in Family
    BY <1>0, <1>13 DEF RevokeFamily, Prepared
  <2> QED
    BY <1>0, <1>13, <2>1, RevokeRows, FinishRequest DEF RevokeFamily, Purge, Typed, TypeOK
<1>14. ASSUME NEW r \in Request, LogoutRevoke(r) PROVE Typed'
  <2>1. RequestsOK
    BY <1>0, <1>14, AdvanceRequest DEF LogoutRevoke, Statement, Prepared, Typed, TypeOK, Locals
  <2> QED
    BY <1>0, <1>14, <2>1, RevokeRows DEF LogoutRevoke, Typed, TypeOK, history
<1>15. ASSUME NEW r \in Request, LogoutBlacklist(r) PROVE Typed'
  <2>1. req[r].jti \in TokenId
    BY <1>0, <1>15 DEF LogoutBlacklist, Prepared
  <2> QED
    BY <1>0, <1>15, <2>1, FinishRequest DEF LogoutBlacklist, Typed, TypeOK, history
<1>16. ASSUME NEW r \in Request, RevokeAll(r) PROVE Typed'
  <2>1. excused' \subseteq Family
    BY <1>0, <1>16 DEF RevokeAll, Settle, FamiliesOf, Typed, TypeOK, IsTable
  <2> QED
    BY <1>0, <1>16, <2>1, RevokeRows, FinishRequest DEF RevokeAll, Typed, TypeOK
<1>17. ASSUME NEW r \in Request, SessionFind(r) PROVE Typed'
  <2>1. RequestsOK
    <3>1. CASE Finish(r)
      BY <3>1, FinishRequest
    <3>2. CASE Advance(r, "session.revoke")
      BY <1>0, <3>2, AdvanceRequest DEF Statement, Prepared, Typed, TypeOK, Locals
    <3> QED
      BY <1>17, <3>1, <3>2 DEF SessionFind
  <2> QED
    BY <1>0, <1>17, <2>1 DEF SessionFind, Typed, TypeOK, tables, history
<1>18. ASSUME NEW r \in Request, SessionRevoke(r) PROVE Typed'
  BY <1>0, <1>18, RevokeRows, FinishRequest DEF SessionRevoke, Typed, TypeOK, history
<1>19. ASSUME NEW r \in Request, ResetUpdate(r) PROVE Typed'
  <2>1. RequestsOK
    BY <1>0, <1>19, AdvanceRequest DEF ResetUpdate, Statement, Prepared, Typed, TypeOK, Locals
  <2>2. IsTable(users', User, Password)
    BY <1>0, <1>19 DEF ResetUpdate, Prepared, IsTable
  <2> QED
    BY <1>0, <1>19, <2>1, <2>2 DEF ResetUpdate, Typed, TypeOK, history
<1>20. ASSUME NEW r \in Request, ResetUsed(r) PROVE Typed'
  <2>1. RequestsOK
    BY <1>0, <1>20, AdvanceRequest DEF ResetUsed, Statement, Prepared, Typed, TypeOK, Locals
  <2>2. IsTable(authTokens', ResetId, AuthToken)
    BY <1>0, <1>20 DEF ResetUsed, AuthToken, IsTable
  <2> QED
    BY <1>0, <1>20, <2>1, <2>2 DEF ResetUsed, Typed, TypeOK, history
<1>21. ASSUME NEW r \in Request, ChangeVerify(r) PROVE Typed'
  <2>1. RequestsOK
    <3>1. CASE Finish(r)
      BY <3>1, FinishRequest
    <3>2. CASE Advance(r, "change.password")
      BY <1>0, <1>21, <3>2, AdvanceRequest
        DEF ChangeVerify, Statement, Prepared, Typed, TypeOK, Locals
    <3> QED
      BY <1>21, <3>1, <3>2 DEF ChangeVerify
  <2> QED
    BY <1>0, <1>21, <2>1 DEF ChangeVerify, Typed, TypeOK, tables, history
<1>22. ASSUME NEW r \in Request, ChangeUpdate(r) PROVE Typed'
  <2>1. RequestsOK
    BY <1>0, <1>22, AdvanceRequest DEF ChangeUpdate, Statement, Prepared, Typed, TypeOK, Locals
  <2>2. IsTable(users', User, Password)
    BY <1>0, <1>22 DEF ChangeUpdate, Prepared, IsTable
  <2> QED
    BY <1>0, <1>22, <2>1, <2>2 DEF ChangeUpdate, Typed, TypeOK, history
<1>23. ASSUME NEW r \in Request, Fail(r) PROVE Typed'
  <2>1. excused' \subseteq Family
    BY <1>0, <1>23 DEF Fail, Settle, FamiliesOf, Typed, TypeOK, IsTable
  <2> QED
    BY <1>0, <1>23, <2>1, FinishRequest DEF Fail, Typed, TypeOK, tables
<1>24. CASE ForgotPassword
  <2>1. IsTable(authTokens', ResetId, AuthToken)
    <3> PICK u \in DOMAIN users, k \in ResetId \ DOMAIN authTokens :
          authTokens' = Insert(authTokens, k,
            [userId |-> u, used |-> FALSE, expired |-> FALSE])
      BY <1>24 DEF ForgotPassword
    <3>1. [userId |-> u, used |-> FALSE, expired |-> FALSE] \in AuthToken
      BY <1>0 DEF AuthToken, IsTable
    <3> QED
      BY <1>0, <3>1, TableInsert
  <2> QED
    BY <1>0, <1>24, <2>1 DEF ForgotPassword, Typed, TypeOK, history
<1>25. CASE Expire
  <2>1. IsTable(refreshTokens', TokenId, RefreshToken)
    BY <1>0, <1>25 DEF Expire, Issued, IsTable, RefreshToken
  <2> QED
    BY <1>0, <1>25, <2>1 DEF Expire, Typed, TypeOK, history
<1>26. CASE ExpireReset
  <2>1. IsTable(authTokens', ResetId, AuthToken)
    BY <1>0, <1>26 DEF ExpireReset, IsTable, AuthToken
  <2> QED
    BY <1>0, <1>26, <2>1 DEF ExpireReset, Typed, TypeOK, history
<1>27. CASE UNCHANGED vars
  BY <1>27 DEF vars, Typed, TypeOK
<1> QED
  BY <1>1, <1>2, <1>3, <1>4, <1>5, <1>6, <1>7, <1>8, <1>9, <1>10, <1>11, <1>12,
     <1>13, <1>14, <1>15, <1>16, <1>17, <1>18, <1>19, <1>20, <1>21, <1>22,
     <1>23, <1>24, <1>25, <1>26, <1>27 DEF Next, Call, Proceed

(* Every reachable state is well formed. *)
THEOREM TypeCorrect == Spec => []TypeOK
<1>1. Typed => TypeOK
  BY DEF Typed
<1> QED
  BY InitTyped, TypedStep, <1>1, PTL DEF Spec

-----------------------------------------------------------------------------
(* Rotation and ownership *)

(* No row of refresh_tokens is deleted, given to another user or family,   *)
(* or made usable again.                                                   *)
RowsGrow ==
  /\ Issued \subseteq DOMAIN refreshTokens'
  /\ \A t \in Issued :
       /\ refreshTokens'[t].userId = refreshTokens[t].userId
       /\ refreshTokens'[t].family = refreshTokens[t].family
       /\ refreshTokens[t].revoked => refreshTokens'[t].revoked
       /\ refreshTokens[t].expired => refreshTokens'[t].expired

(* A row appears only by issueTokenPair's INSERT; every other statement    *)
(* works on the rows there are.                                            *)
LEMMA RowsStep ==
  Typed /\ [Next]_vars =>
    /\ RowsGrow
    /\ \/ DOMAIN refreshTokens' = Issued
       \/ \E r \in Request : Issue(r)
<1> SUFFICES ASSUME Typed, [Next]_vars
             PROVE  RowsGrow /\ (\/ DOMAIN refreshTokens' = Issued
                                 \/ \E r \in Request : Issue(r))
  OBVIOUS
<1>0. IsTable(refreshTokens, TokenId, RefreshToken)
  BY DEF Typed, TypeOK
<1>1. ASSUME UNCHANGED refreshTokens
      PROVE  RowsGrow /\ DOMAIN refreshTokens' = Issued
  BY <1>1 DEF RowsGrow, Issued
<1>2. ASSUME NEW rows, Revoke(rows)
      PROVE  RowsGrow /\ DOMAIN refreshTokens' = Issued
  BY <1>0, <1>2, RevokeRows DEF RowsGrow
<1>3. ASSUME NEW r \in Request, Issue(r) PROVE RowsGrow
  BY <1>3 DEF Issue, RowsGrow, Issued, Insert
<1>4. CASE Expire
  BY <1>0, <1>4 DEF Expire, RowsGrow, Issued, IsTable, RefreshToken
<1>5. ASSUME NEW r \in Request, Call(r)
      PROVE  UNCHANGED refreshTokens
  BY <1>5 DEF Call, Register, Login, Refresh, RefreshReplay, Logout, LogoutAll,
    RevokeSession, ResetPassword, ChangePassword, tables
<1>6. ASSUME NEW r \in Request, Proceed(r)
      PROVE  Issue(r) \/ UNCHANGED refreshTokens \/ \E rows : Revoke(rows)
  BY <1>6 DEF Proceed, RegisterSave, RegisterConflict, RefreshRevoke, RevokeFamily,
    LogoutRevoke, LogoutBlacklist, RevokeAll, SessionFind, SessionRevoke,
    ResetUpdate, ResetUsed, ChangeVerify, ChangeUpdate, tables
<1>7. ASSUME NEW r \in Request, Fail(r) PROVE UNCHANGED refreshTokens
  BY <1>7 DEF Fail, tables
<1>8. CASE ForgotPassword \/ ExpireReset \/ UNCHANGED vars
  BY <1>1, <1>8 DEF ForgotPassword, ExpireReset, vars
<1> QED
  BY <1>1, <1>2, <1>3, <1>4, <1>5, <1>6, <1>7, <1>8 DEF Next

(* A request comes to rotate or issue only by the actions that say so.     *)
LEMMA IssuingStep ==
  ASSUME Typed, [Next]_vars, NEW r \in Request
  PROVE  \/ req'[r] = req[r] \/ req'[r].at \notin {"refresh.revoke", "issue"}
         \/ Refresh(r) \/ RefreshRevoke(r) \/ Login(r) \/ RegisterSave(r)
<1>1. req \in [Request -> Locals]
  BY DEF Typed, TypeOK
<1>2. ASSUME NEW s \in Request, Call(s) \/ Proceed(s) \/ Fail(s), s # r
      PROVE  req'[r] = req[r]
  BY <1>1, <1>2 DEF Call, Register, Login, Refresh, RefreshReplay, Logout, LogoutAll,
    RevokeSession, ResetPassword, ChangePassword, Proceed, RegisterSave, RegisterConflict,
    Issue, RefreshRevoke, RevokeFamily, LogoutRevoke, LogoutBlacklist, RevokeAll,
    SessionFind, SessionRevoke, ResetUpdate, ResetUsed, ChangeVerify, ChangeUpdate,
    Fail, Begin, Advance, Finish
<1>3. ASSUME Call(r)
      PROVE  Refresh(r) \/ Login(r) \/ req'[r].at \notin {"refresh.revoke", "issue"}
  BY <1>1, <1>3 DEF Call, Register, RefreshReplay, Logout, LogoutAll,
    RevokeSession, ResetPassword, ChangePassword, Begin, Idle
<1>4. ASSUME Proceed(r) \/ Fail(r)
      PROVE  RefreshRevoke(r) \/ RegisterSave(r)
               \/ req'[r].at \notin {"refresh.revoke", "issue"}
  BY <1>1, <1>4 DEF Proceed, RegisterConflict, Issue, RevokeFamily, LogoutRevoke,
    LogoutBlacklist, RevokeAll, SessionFind, SessionRevoke, ResetUpdate, ResetUsed,
    ChangeVerify, ChangeUpdate, Fail, Advance, Finish, Idle, Locals
<1>5. CASE ForgotPassword \/ Expire \/ ExpireReset \/ UNCHANGED vars
  BY <1>5 DEF ForgotPassword, Expire, ExpireReset, vars
<1> QED
  BY <1>2, <1>3, <1>4, <1>5 DEF Next

(* A refresh under way holds a row of the family it will issue for, and    *)
(* once it has revoked that row the row stays revoked.                     *)
Rotating ==
  \A r \in Request :
    /\ req[r].at = "refresh.revoke" =>
         /\ req[r].token \in Issued
         /\ refreshTokens[req[r].token].family = req[r].family
    /\ req[r].at = "issue" /\ req[r].token # None =>
         /\ req[r].token \in Issued
         /\ refreshTokens[req[r].token].family = req[r].family
         /\ refreshTokens[req[r].token].revoked

RotationInv == Typed /\ Rotating /\ RotatedIsRevoked

LEMMA RotatingStep == RotationInv /\ [Next]_vars => Rotating'
<1> SUFFICES ASSUME RotationInv, [Next]_vars, NEW r \in Request PROVE
      /\ req'[r].at = "refresh.revoke" =>
           /\ req'[r].token \in DOMAIN refreshTokens'
           /\ refreshTokens'[req'[r].token].family = req'[r].family
      /\ req'[r].at = "issue" /\ req'[r].token # None =>
           /\ req'[r].token \in DOMAIN refreshTokens'
           /\ refreshTokens'[req'[r].token].family = req'[r].family
           /\ refreshTokens'[req'[r].token].revoked
  BY DEF Rotating, Issued
<1>0. Typed /\ RowsGrow
  BY RowsStep DEF RotationInv
<1>1. CASE req'[r] = req[r]
  BY <1>0, <1>1 DEF RotationInv, Rotating, RowsGrow
<1>2. CASE req'[r].at \notin {"refresh.revoke", "issue"}
  BY <1>2
<1>3. CASE Refresh(r)
  <2> PICK t \in Issued :
        Begin(r, [Idle EXCEPT !.at = "refresh.revoke", !.token = t,
          !.user = refreshTokens[t].userId, !.family = refreshTokens[t].family])
    BY <1>3 DEF Refresh
  <2>1. /\ req'[r].at = "refresh.revoke"
        /\ req'[r].token = t /\ req'[r].family = refreshTokens[t].family
    BY <1>0 DEF Begin, Idle, Typed, TypeOK
  <2> QED
    BY <1>0, <2>1 DEF RowsGrow
<1>4. CASE RefreshRevoke(r)
  <2>1. /\ req'[r].at = "issue"
        /\ req'[r].token = req[r].token /\ req'[r].family = req[r].family
    BY <1>0, <1>4 DEF RefreshRevoke, Advance, Typed, TypeOK, Locals
  <2>2. /\ req[r].token \in Issued
        /\ refreshTokens[req[r].token].family = req[r].family
    BY <1>4 DEF RefreshRevoke, RotationInv, Rotating
  <2>3. refreshTokens'[req[r].token].revoked
    <3>1. IsTable(refreshTokens, TokenId, RefreshToken) /\ Revoke({req[r].token})
      BY <1>0, <1>4 DEF RefreshRevoke, Typed, TypeOK
    <3>2. \A t \in Issued : refreshTokens'[t].revoked =
            (refreshTokens[t].revoked \/ t \in {req[r].token})
      BY <3>1, RevokeRows, Zenon
    <3>3. req[r].token \in {req[r].token}
      OBVIOUS
    <3> QED
      BY <2>2, <3>2, <3>3, Zenon
  <2> QED
    BY <1>0, <2>1, <2>2, <2>3 DEF RowsGrow
<1>5. CASE Login(r) \/ RegisterSave(r)
  <2>1. req'[r].at = "issue" /\ req'[r].token = None
    BY <1>0, <1>5 DEF Login, RegisterSave, Begin, Idle, Typed, TypeOK
  <2> QED
    BY <2>1
<1>6. \/ req'[r] = req[r] \/ req'[r].at \notin {"refresh.revoke", "issue"}
      \/ Refresh(r) \/ RefreshRevoke(r) \/ Login(r) \/ RegisterSave(r)
  BY <1>0, IssuingStep
<1> QED
  BY <1>1, <1>2, <1>3, <1>4, <1>5, <1>6

LEMMA RotatedStep == RotationInv /\ [Next]_vars => RotatedIsRevoked'
<1> SUFFICES ASSUME RotationInv, [Next]_vars PROVE RotatedIsRevoked'
  OBVIOUS
<1>0. Typed /\ RowsGrow
  BY RowsStep DEF RotationInv
<1>1. ASSUME NEW link \in rotations
      PROVE /\ link[1] \in DOMAIN refreshTokens' /\ link[2] \in DOMAIN refreshTokens'
            /\ refreshTokens'[link[1]].revoked
            /\ refreshTokens'[link[1]].family = refreshTokens'[link[2]].family
  BY <1>0 DEF RotationInv, RotatedIsRevoked, RowsGrow
<1>2. CASE rotations' = rotations
  BY <1>1, <1>2 DEF RotatedIsRevoked, Issued
<1>3. ASSUME NEW r \in Request, Issue(r) PROVE RotatedIsRevoked'
  <2> PICK t \in TokenId \ Issued :
        /\ refreshTokens' = Insert(refreshTokens, t,
             [userId |-> req[r].user, family |-> req[r].family,
              revoked |-> FALSE, expired |-> FALSE])
        /\ rotations' = IF req[r].token = None THEN rotations
                        ELSE rotations \cup {<<req[r].token, t>>}
    BY <1>3 DEF Issue
  <2>1. CASE req[r].token = None
    BY <1>2, <2>1
  <2>2. CASE req[r].token # None
    <3>1. /\ req[r].token \in Issued
          /\ refreshTokens[req[r].token].family = req[r].family
          /\ refreshTokens[req[r].token].revoked
      BY <1>3, <2>2 DEF Issue, RotationInv, Rotating
    <3>2. /\ t \in DOMAIN refreshTokens'
          /\ refreshTokens'[t].family = req[r].family
      BY DEF Insert
    <3>3. rotations' = rotations \cup {<<req[r].token, t>>}
      BY <2>2
    <3> DEFINE new == <<req[r].token, t>>
    <3>4. /\ new[1] \in DOMAIN refreshTokens' /\ new[2] \in DOMAIN refreshTokens'
          /\ refreshTokens'[new[1]].revoked
          /\ refreshTokens'[new[1]].family = refreshTokens'[new[2]].family
      BY <1>0, <3>1, <3>2 DEF RowsGrow
    <3> QED
      BY <1>1, <3>3, <3>4 DEF RotatedIsRevoked, Issued
  <2> QED
    BY <2>1, <2>2
<1>4. rotations' = rotations \/ \E r \in Request : Issue(r)
  BY DEF Next, Call, Register, Login, Refresh, RefreshReplay, Logout, LogoutAll,
    RevokeSession, ResetPassword, ChangePassword, Proceed, RegisterSave, RegisterConflict,
    RefreshRevoke, RevokeFamily, LogoutRevoke, LogoutBlacklist, RevokeAll,
    SessionFind, SessionRevoke, ResetUpdate, ResetUsed, ChangeVerify, ChangeUpdate,
    Fail, ForgotPassword, Expire, ExpireReset, OpenFamily, history, vars
<1> QED
  BY <1>2, <1>3, <1>4

(* A rotated token is revoked, for good, before its successor exists       *)
(* (auth.service.ts:86-88).                                                *)
THEOREM Rotation == Spec => []RotatedIsRevoked
<1>1. Init => RotationInv
  BY InitTyped DEF Init, RotationInv, Rotating, RotatedIsRevoked, Idle
<1>2. RotationInv /\ [Next]_vars => RotationInv'
  BY TypedStep, RotatingStep, RotatedStep DEF RotationInv
<1>3. RotationInv => RotatedIsRevoked
  BY DEF RotationInv
<1> QED
  BY <1>1, <1>2, <1>3, PTL DEF Spec

(* No family is opened twice: once opened, it keeps its user and password. *)
OpenedGrows ==
  /\ DOMAIN opened \subseteq DOMAIN opened'
  /\ \A f \in DOMAIN opened : opened'[f] = opened[f]

LEMMA OpenedStep ==
  Typed /\ [Next]_vars =>
    /\ OpenedGrows
    /\ \/ opened' = opened
       \/ \E r \in Request : Login(r) \/ RegisterSave(r)
<1> SUFFICES ASSUME Typed, [Next]_vars
             PROVE  OpenedGrows /\ (\/ opened' = opened
                                    \/ \E r \in Request : Login(r) \/ RegisterSave(r))
  OBVIOUS
<1>1. ASSUME NEW r \in Request, Login(r) \/ RegisterSave(r) PROVE OpenedGrows
  BY <1>1 DEF Login, RegisterSave, OpenFamily, OpenedGrows, Insert
<1>2. opened' = opened \/ \E r \in Request : Login(r) \/ RegisterSave(r)
  BY DEF Next, Call, Register, Refresh, RefreshReplay, Logout, LogoutAll,
    RevokeSession, ResetPassword, ChangePassword, Proceed, RegisterConflict, Issue,
    RefreshRevoke, RevokeFamily, LogoutRevoke, LogoutBlacklist, RevokeAll,
    SessionFind, SessionRevoke, ResetUpdate, ResetUsed, ChangeVerify, ChangeUpdate,
    Fail, ForgotPassword, Expire, ExpireReset, history, vars
<1> QED
  BY <1>1, <1>2 DEF OpenedGrows

(* What a login or registration hands to issueTokenPair.                   *)
LEMMA FamilyOpened ==
  ASSUME Typed, NEW r \in Request, Login(r) \/ RegisterSave(r)
  PROVE  \E f \in Family \ DOMAIN opened, u \in User, p \in Password :
           /\ opened' = Insert(opened, f, [user |-> u, password |-> p])
           /\ u \in DOMAIN users' /\ users'[u] = p
           /\ req' = [req EXCEPT ![r] =
                [Idle EXCEPT !.at = "issue", !.user = u, !.family = f]]
           /\ UNCHANGED refreshTokens
<1>0. IsTable(users, User, Password) /\ \A s \in Request : Prepared(req[s])
  BY DEF Typed, TypeOK
<1>1. CASE Login(r)
  <2> PICK u \in DOMAIN users, f \in Family :
        /\ OpenFamily(u, users[u], f)
        /\ Begin(r, [Idle EXCEPT !.at = "issue", !.user = u, !.family = f])
    BY <1>1 DEF Login
  <2>1. u \in User /\ users[u] \in Password
    BY <1>0 DEF IsTable
  <2>2. f \notin DOMAIN opened
        /\ opened' = Insert(opened, f, [user |-> u, password |-> users[u]])
    BY DEF OpenFamily
  <2>3. users' = users /\ refreshTokens' = refreshTokens
    BY <1>1 DEF Login, tables
  <2> QED
    BY <2>1, <2>2, <2>3 DEF Begin
<1>2. CASE RegisterSave(r)
  <2> DEFINE u == req[r].user
             p == req[r].password
  <2> PICK f \in Family :
        /\ OpenFamily(u, p, f)
        /\ req' = [req EXCEPT ![r] =
             [Idle EXCEPT !.at = "issue", !.user = u, !.family = f]]
    BY <1>2 DEF RegisterSave
  <2>1. u \in User /\ p \in Password
    BY <1>0, <1>2 DEF RegisterSave, Prepared
  <2>2. f \notin DOMAIN opened /\ opened' = Insert(opened, f, [user |-> u, password |-> p])
    BY DEF OpenFamily
  <2>3. refreshTokens' = refreshTokens /\ users' = Insert(users, u, p)
    BY <1>2 DEF RegisterSave
  <2>4. u \in DOMAIN users' /\ users'[u] = p
    BY <2>3 DEF Insert
  <2> QED
    BY <2>1, <2>2, <2>3, <2>4
<1> QED
  BY <1>1, <1>2

OwnerInv == Typed /\ FamilyHasOneOwner

LEMMA OwnerStep == OwnerInv /\ [Next]_vars => FamilyHasOneOwner'
<1> SUFFICES ASSUME OwnerInv, [Next]_vars PROVE FamilyHasOneOwner'
  OBVIOUS
<1>0. Typed /\ RowsGrow /\ OpenedGrows
  BY RowsStep, OpenedStep DEF OwnerInv
<1>1. ASSUME NEW t \in Issued
      PROVE  /\ refreshTokens'[t].family \in DOMAIN opened'
             /\ refreshTokens'[t].userId = opened'[refreshTokens'[t].family].user
  BY <1>0 DEF OwnerInv, FamilyHasOneOwner, RowsGrow, OpenedGrows
<1>2. ASSUME NEW r \in Request, Issue(r), NEW t \in DOMAIN refreshTokens' \ Issued
      PROVE  /\ refreshTokens'[t].family \in DOMAIN opened'
             /\ refreshTokens'[t].userId = opened'[refreshTokens'[t].family].user
  <2>1. /\ req[r].family \in DOMAIN opened
        /\ req[r].user = opened[req[r].family].user
    BY <1>2 DEF Issue, Issuing, OwnerInv, FamilyHasOneOwner
  <2>2. refreshTokens'[t].family = req[r].family /\ refreshTokens'[t].userId = req[r].user
    BY <1>2 DEF Issue, Insert, Issued
  <2> QED
    BY <1>0, <2>1, <2>2 DEF OpenedGrows
<1>3. \A t \in DOMAIN refreshTokens' :
        /\ refreshTokens'[t].family \in DOMAIN opened'
        /\ refreshTokens'[t].userId = opened'[refreshTokens'[t].family].user
  BY <1>0, <1>1, <1>2, RowsStep
<1>4. ASSUME NEW r \in Request, req'[r].at \in {"refresh.revoke", "issue"}
      PROVE  /\ req'[r].family \in DOMAIN opened'
             /\ req'[r].user = opened'[req'[r].family].user
  <2>1. CASE req'[r] = req[r]
    BY <1>0, <1>4, <2>1 DEF OwnerInv, FamilyHasOneOwner, Issuing, OpenedGrows
  <2>2. CASE Refresh(r)
    <3> PICK t \in Issued :
          Begin(r, [Idle EXCEPT !.at = "refresh.revoke", !.token = t,
            !.user = refreshTokens[t].userId, !.family = refreshTokens[t].family])
      BY <2>2 DEF Refresh
    <3>1. /\ req'[r].user = refreshTokens[t].userId
          /\ req'[r].family = refreshTokens[t].family
      BY <1>0 DEF Begin, Idle, Typed, TypeOK
    <3> QED
      BY <1>0, <3>1 DEF OwnerInv, FamilyHasOneOwner, OpenedGrows
  <2>3. CASE RefreshRevoke(r)
    <3>1. req'[r].user = req[r].user /\ req'[r].family = req[r].family
      BY <1>0, <2>3 DEF RefreshRevoke, Advance, Typed, TypeOK, Locals
    <3>2. r \in Issuing
      BY <2>3 DEF RefreshRevoke, Issuing
    <3> QED
      BY <1>0, <3>1, <3>2 DEF OwnerInv, FamilyHasOneOwner, OpenedGrows
  <2>4. CASE Login(r) \/ RegisterSave(r)
    <3> PICK f \in Family \ DOMAIN opened, u \in User, p \in Password :
          /\ opened' = Insert(opened, f, [user |-> u, password |-> p])
          /\ req' = [req EXCEPT ![r] =
               [Idle EXCEPT !.at = "issue", !.user = u, !.family = f]]
      BY <1>0, <2>4, FamilyOpened
    <3>1. req'[r].user = u /\ req'[r].family = f
      BY <1>0 DEF Idle, Typed, TypeOK
    <3>2. f \in DOMAIN opened' /\ opened'[f].user = u
      BY DEF Insert
    <3> QED
      BY <3>1, <3>2
  <2> QED
    BY <1>0, <1>4, <2>1, <2>2, <2>3, <2>4, IssuingStep
<1> QED
  BY <1>3, <1>4 DEF FamilyHasOneOwner, Issued, Issuing

LEMMA OwnerInvariance == Spec => []OwnerInv
<1>1. Init => OwnerInv
  BY InitTyped DEF Init, OwnerInv, FamilyHasOneOwner, Issued, Issuing, EmptyTable, Idle
<1>2. OwnerInv /\ [Next]_vars => OwnerInv'
  BY TypedStep, OwnerStep DEF OwnerInv
<1> QED
  BY <1>1, <1>2, PTL DEF Spec

(* Sessions never change hands (auth.service.ts:84-88, 189-212).           *)
THEOREM Ownership == Spec => []FamilyHasOneOwner
<1>1. OwnerInv => FamilyHasOneOwner
  BY DEF OwnerInv
<1> QED
  BY OwnerInvariance, <1>1, PTL

-----------------------------------------------------------------------------
(* Who revokes, and which reset tokens count *)

(* A request about to revoke one row, or a family, acts for its owner:     *)
(* refresh and its replay took the user from the row, revokeSession found  *)
(* the row among the user's own.                                           *)
Entitled ==
  \A r \in Request :
    /\ req[r].at \in {"refresh.revoke", "session.revoke"} =>
         /\ req[r].token \in Issued
         /\ refreshTokens[req[r].token].userId = req[r].user
    /\ req[r].at = "refresh.reuse" =>
         /\ req[r].family \in DOMAIN opened
         /\ opened[req[r].family].user = req[r].user

EntitledInv == OwnerInv /\ Entitled

(* A request comes to these statements only by the actions that say so.    *)
LEMMA RevokingStep ==
  ASSUME Typed, [Next]_vars, NEW r \in Request
  PROVE  \/ req'[r] = req[r]
         \/ req'[r].at \notin {"refresh.revoke", "session.revoke", "refresh.reuse"}
         \/ Refresh(r) \/ RefreshReplay(r) \/ SessionFind(r)
<1>1. req \in [Request -> Locals]
  BY DEF Typed, TypeOK
<1>2. ASSUME NEW s \in Request, Call(s) \/ Proceed(s) \/ Fail(s), s # r
      PROVE  req'[r] = req[r]
  BY <1>1, <1>2 DEF Call, Register, Login, Refresh, RefreshReplay, Logout, LogoutAll,
    RevokeSession, ResetPassword, ChangePassword, Proceed, RegisterSave, RegisterConflict,
    Issue, RefreshRevoke, RevokeFamily, LogoutRevoke, LogoutBlacklist, RevokeAll,
    SessionFind, SessionRevoke, ResetUpdate, ResetUsed, ChangeVerify, ChangeUpdate,
    Fail, Begin, Advance, Finish
<1>3. ASSUME Call(r)
      PROVE  Refresh(r) \/ RefreshReplay(r)
               \/ req'[r].at \notin {"refresh.revoke", "session.revoke", "refresh.reuse"}
  BY <1>1, <1>3 DEF Call, Register, Login, Logout, LogoutAll,
    RevokeSession, ResetPassword, ChangePassword, Begin, Idle
<1>4. ASSUME Proceed(r) \/ Fail(r)
      PROVE  SessionFind(r)
               \/ req'[r].at \notin {"refresh.revoke", "session.revoke", "refresh.reuse"}
  <2>1. CASE Finish(r)
    BY <1>1, <2>1 DEF Finish, Idle
  <2>2. ASSUME NEW s \in Statement, Advance(r, s)
        PROVE  req'[r].at = s
    BY <1>1, <2>2 DEF Advance, Locals
  <2>3. CASE RegisterSave(r)
    BY <1>1, <2>3 DEF RegisterSave, Idle
  <2>4. CASE RefreshRevoke(r) \/ LogoutRevoke(r)
    BY <2>2, <2>4 DEF RefreshRevoke, LogoutRevoke, Statement
  <2>5. CASE ResetUpdate(r) \/ ResetUsed(r) \/ ChangeUpdate(r)
    BY <2>2, <2>5 DEF ResetUpdate, ResetUsed, ChangeUpdate, Statement
  <2>6. CASE ChangeVerify(r)
    BY <2>1, <2>2, <2>6 DEF ChangeVerify, Statement
  <2> QED
    BY <1>4, <2>1, <2>3, <2>4, <2>5, <2>6
       DEF Proceed, RegisterConflict, Issue, RevokeFamily, LogoutBlacklist, RevokeAll,
           SessionRevoke, Fail
<1>5. CASE ForgotPassword \/ Expire \/ ExpireReset \/ UNCHANGED vars
  BY <1>5 DEF ForgotPassword, Expire, ExpireReset, vars
<1> QED
  BY <1>2, <1>3, <1>4, <1>5 DEF Next

LEMMA EntitledStep == EntitledInv /\ [Next]_vars => Entitled'
<1> SUFFICES ASSUME EntitledInv, [Next]_vars, NEW r \in Request PROVE
      /\ req'[r].at \in {"refresh.revoke", "session.revoke"} =>
           /\ req'[r].token \in DOMAIN refreshTokens'
           /\ refreshTokens'[req'[r].token].userId = req'[r].user
      /\ req'[r].at = "refresh.reuse" =>
           /\ req'[r].family \in DOMAIN opened'
           /\ opened'[req'[r].family].user = req'[r].user
  BY DEF Entitled, Issued
<1>0. Typed /\ RowsGrow /\ OpenedGrows
  BY RowsStep, OpenedStep DEF EntitledInv, OwnerInv
<1>1. CASE req'[r] = req[r]
  BY <1>0, <1>1 DEF EntitledInv, Entitled, RowsGrow, OpenedGrows
<1>2. CASE req'[r].at \notin {"refresh.revoke", "session.revoke", "refresh.reuse"}
  BY <1>2
<1>3. CASE Refresh(r) \/ RefreshReplay(r)
  <2> PICK t \in Issued, stage \in {"refresh.revoke", "refresh.reuse"} :
        Begin(r, [Idle EXCEPT !.at = stage, !.token = t,
          !.user = refreshTokens[t].userId, !.family = refreshTokens[t].family])
    BY <1>3 DEF Refresh, RefreshReplay
  <2>1. /\ req'[r].token = t
        /\ req'[r].user = refreshTokens[t].userId
        /\ req'[r].family = refreshTokens[t].family
        /\ req'[r].at # "session.revoke"
    BY <1>0 DEF Begin, Idle, Typed, TypeOK
  <2>2. /\ refreshTokens[t].family \in DOMAIN opened
        /\ refreshTokens[t].userId = opened[refreshTokens[t].family].user
    BY DEF EntitledInv, OwnerInv, FamilyHasOneOwner
  <2> QED
    BY <1>0, <2>1, <2>2 DEF RowsGrow, OpenedGrows
<1>4. CASE SessionFind(r)
  <2>1. CASE Finish(r)
    BY <1>0, <2>1 DEF Finish, Idle, Typed, TypeOK
  <2>2. CASE OwnRow(req[r].token, req[r].user) # {} /\ Advance(r, "session.revoke")
    <3>1. /\ req[r].token \in Issued
          /\ refreshTokens[req[r].token].userId = req[r].user
      BY <2>2 DEF OwnRow
    <3>2. /\ req'[r].at = "session.revoke"
          /\ req'[r].token = req[r].token /\ req'[r].user = req[r].user
      BY <1>0, <2>2 DEF Advance, Typed, TypeOK, Locals
    <3> QED
      BY <1>0, <3>1, <3>2 DEF RowsGrow
  <2> QED
    BY <1>4, <2>1, <2>2 DEF SessionFind
<1> QED
  BY <1>0, <1>1, <1>2, <1>3, <1>4, RevokingStep

(* The WHERE clause of each statement that revokes selects rows of the     *)
(* user its request acts for.                                              *)
LEMMA OwnersRevoke ==
  ASSUME EntitledInv, NEW r \in Request, Proceed(r), NEW t \in Issued,
         ~refreshTokens[t].revoked, refreshTokens'[t].revoked
  PROVE  req[r].user = refreshTokens[t].userId /\ req'[r] # req[r]
<1>0. /\ IsTable(refreshTokens, TokenId, RefreshToken)
      /\ req \in [Request -> Locals]
  BY DEF EntitledInv, OwnerInv, Typed, TypeOK
<1>1. ASSUME NEW rows, Revoke(rows) PROVE t \in rows
  BY <1>0, <1>1, RevokeRows
<1>2. refreshTokens' # refreshTokens
  OBVIOUS
<1>3. ASSUME Finish(r), req[r].at # "idle" PROVE req'[r] # req[r]
  BY <1>0, <1>3 DEF Finish, Idle
<1>4. ASSUME NEW s, Advance(r, s), req[r].at # s PROVE req'[r] # req[r]
  BY <1>0, <1>4 DEF Advance, Locals
<1>5. CASE RefreshRevoke(r)
  <2>1. t = req[r].token
    BY <1>1, <1>5 DEF RefreshRevoke
  <2> QED
    BY <1>4, <1>5, <2>1 DEF RefreshRevoke, EntitledInv, Entitled
<1>6. CASE SessionRevoke(r)
  <2>1. t = req[r].token
    BY <1>1, <1>6 DEF SessionRevoke
  <2> QED
    BY <1>3, <1>6, <2>1 DEF SessionRevoke, EntitledInv, Entitled
<1>7. CASE RevokeFamily(r)
  <2>1. refreshTokens[t].family = req[r].family
    BY <1>1, <1>7 DEF RevokeFamily, RowsOfFamily
  <2>2. opened[req[r].family].user = req[r].user
    BY <1>7 DEF RevokeFamily, EntitledInv, Entitled
  <2>3. refreshTokens[t].userId = opened[refreshTokens[t].family].user
    BY DEF EntitledInv, OwnerInv, FamilyHasOneOwner
  <2> QED
    BY <1>3, <1>7, <2>1, <2>2, <2>3 DEF RevokeFamily
<1>8. CASE LogoutRevoke(r)
  <2>1. t \in OwnRow(req[r].token, req[r].user)
    BY <1>1, <1>8 DEF LogoutRevoke
  <2> QED
    BY <1>4, <1>8, <2>1 DEF LogoutRevoke, OwnRow
<1>9. CASE RevokeAll(r)
  <2>1. t \in OpenRowsOf(req[r].user)
    BY <1>1, <1>9 DEF RevokeAll
  <2> QED
    BY <1>3, <1>9, <2>1 DEF RevokeAll, OpenRowsOf
<1>10. ASSUME Issue(r) PROVE FALSE
  BY <1>10 DEF Issue, Insert, Issued
<1> QED
  BY <1>2, <1>5, <1>6, <1>7, <1>8, <1>9, <1>10
     DEF Proceed, RegisterSave, RegisterConflict, LogoutBlacklist, SessionFind,
         ResetUpdate, ResetUsed, ChangeVerify, ChangeUpdate, tables

(* Nobody ends another user's sessions (auth.service.ts:76, 87, 93, 101,   *)
(* 182-186).                                                               *)
THEOREM OwnersOnly == Spec => RevokedOnlyForOwner
<1>1. Init => EntitledInv
  BY InitTyped DEF Init, EntitledInv, Entitled, OwnerInv, FamilyHasOneOwner, Issued,
    Issuing, EmptyTable, Idle
<1>2. EntitledInv /\ [Next]_vars => EntitledInv'
  BY TypedStep, OwnerStep, EntitledStep DEF EntitledInv, OwnerInv
<1>3. EntitledInv /\ [Next]_vars =>
        [\A t \in Issued :
           ~refreshTokens[t].revoked /\ refreshTokens'[t].revoked =>
             \E r \in Request : /\ req[r].user = refreshTokens[t].userId
                                /\ req'[r] # req[r]]_vars
  <2> SUFFICES ASSUME EntitledInv, Next, NEW t \in Issued,
                      ~refreshTokens[t].revoked, refreshTokens'[t].revoked
               PROVE  \E r \in Request : /\ req[r].user = refreshTokens[t].userId
                                         /\ req'[r] # req[r]
    BY DEF vars
  <2>1. PICK r \in Request : Proceed(r)
    <3>1. ASSUME NEW r \in Request, Call(r) \/ Fail(r) PROVE FALSE
      BY <3>1 DEF Call, Register, Login, Refresh, RefreshReplay, Logout, LogoutAll,
        RevokeSession, ResetPassword, ChangePassword, Fail, tables
    <3>2. ASSUME ForgotPassword \/ ExpireReset PROVE FALSE
      BY <3>2 DEF ForgotPassword, ExpireReset
    <3>3. ASSUME Expire PROVE FALSE
      BY <3>3 DEF Expire, EntitledInv, OwnerInv, Typed, TypeOK, IsTable, RefreshToken, Issued
    <3> QED
      BY <3>1, <3>2, <3>3 DEF Next
  <2> QED
    BY <2>1, OwnersRevoke
<1> QED
  BY <1>1, <1>2, <1>3, PTL DEF Spec, RevokedOnlyForOwner

(* auth_tokens loses no row, and `used` is never taken back.               *)
LEMMA ResetRowsStep ==
  ASSUME Typed, Next, NEW k \in DOMAIN authTokens, authTokens[k].used
  PROVE  k \in DOMAIN authTokens' /\ authTokens'[k].used
<1>0. IsTable(authTokens, ResetId, AuthToken)
  BY DEF Typed, TypeOK
<1>1. ASSUME NEW r \in Request, ResetUsed(r)
      PROVE  k \in DOMAIN authTokens' /\ authTokens'[k].used
  BY <1>0, <1>1 DEF ResetUsed, IsTable, AuthToken
<1>2. CASE ForgotPassword
  BY <1>2 DEF ForgotPassword, Insert
<1>3. CASE ExpireReset
  BY <1>0, <1>3 DEF ExpireReset, IsTable, AuthToken
<1>4. ASSUME NEW r \in Request, Call(r) \/ Proceed(r) \/ Fail(r), ~ResetUsed(r)
      PROVE  UNCHANGED authTokens
  BY <1>4 DEF Call, Register, Login, Refresh, RefreshReplay, Logout, LogoutAll,
    RevokeSession, ResetPassword, ChangePassword, Proceed, RegisterSave, RegisterConflict,
    Issue, RefreshRevoke, RevokeFamily, LogoutRevoke, LogoutBlacklist, RevokeAll,
    SessionFind, SessionRevoke, ResetUpdate, ChangeVerify, ChangeUpdate, Fail, tables
<1>5. CASE Expire
  BY <1>5 DEF Expire
<1> QED
  BY <1>1, <1>2, <1>3, <1>4, <1>5 DEF Next

(* Only resetPassword makes a request hold a reset token, and the look-up  *)
(* demands an unused one.                                                  *)
LEMMA HeldReset ==
  ASSUME Typed, Next, NEW r \in Request, NEW k \in ResetId, req'[r].reset = k
  PROVE  req[r].reset = k \/ ResetUsable(k)
<1>0. req \in [Request -> Locals] /\ None # k
  BY NoneAssumption DEF Typed, TypeOK
<1>1. CASE req'[r] = req[r]
  BY <1>1
<1>2. ASSUME NEW s \in Statement, Advance(r, s) PROVE req[r].reset = k
  BY <1>0, <1>2 DEF Advance, Locals
<1>3. ASSUME NEW locals, locals.reset = None, req' = [req EXCEPT ![r] = locals] PROVE FALSE
  BY <1>0, <1>3
<1>4. CASE ResetPassword(r)
  <2> PICK j \in DOMAIN authTokens, p \in Password :
        /\ ResetUsable(j)
        /\ Begin(r, [Idle EXCEPT !.at = "reset.password", !.reset = j,
             !.user = authTokens[j].userId, !.password = p])
    BY <1>4 DEF ResetPassword
  <2>1. req'[r].reset = j
    BY <1>0 DEF Begin, Idle
  <2> QED
    BY <2>1
<1>5. ASSUME Call(r), ~ResetPassword(r) PROVE FALSE
  BY <1>3, <1>5 DEF Call, Register, Login, Refresh, RefreshReplay, Logout, LogoutAll,
    RevokeSession, ChangePassword, Begin, Idle
<1>6. ASSUME Proceed(r) \/ Fail(r) PROVE req[r].reset = k
  <2>1. CASE Finish(r)
    BY <1>3, <2>1 DEF Finish, Idle
  <2>2. CASE RegisterSave(r)
    BY <1>3, <2>2 DEF RegisterSave, Idle
  <2> QED
    BY <1>2, <1>6, <2>1, <2>2 DEF Statement, Proceed, RegisterConflict, Issue,
      RefreshRevoke, RevokeFamily, LogoutRevoke, LogoutBlacklist, RevokeAll, SessionFind,
      SessionRevoke, ResetUpdate, ResetUsed, ChangeVerify, ChangeUpdate, Fail
<1>7. ASSUME NEW s \in Request, Call(s) \/ Proceed(s) \/ Fail(s), s # r
      PROVE  req'[r] = req[r]
  BY <1>0, <1>7 DEF Call, Register, Login, Refresh, RefreshReplay, Logout, LogoutAll,
    RevokeSession, ResetPassword, ChangePassword, Proceed, RegisterSave, RegisterConflict,
    Issue, RefreshRevoke, RevokeFamily, LogoutRevoke, LogoutBlacklist, RevokeAll,
    SessionFind, SessionRevoke, ResetUpdate, ResetUsed, ChangeVerify, ChangeUpdate,
    Fail, Begin, Advance, Finish
<1>8. CASE ForgotPassword \/ Expire \/ ExpireReset
  BY <1>8 DEF ForgotPassword, Expire, ExpireReset
<1> QED
  BY <1>1, <1>4, <1>5, <1>6, <1>7, <1>8 DEF Next

(* A reset token that is marked used and that no request still holds       *)
(* changes no password any more (auth.service.ts:131-141).                 *)
THEOREM SpentResets == Spec => SpentResetStaysSpent
<1>1. Typed /\ [Next]_vars => [\A k \in ResetId : Spent(k) => Spent(k)']_vars
  <2> SUFFICES ASSUME Typed, Next, NEW k \in ResetId, Spent(k) PROVE Spent(k)'
    BY DEF vars
  <2>1. k \in DOMAIN authTokens' /\ authTokens'[k].used
    BY ResetRowsStep DEF Spent
  <2>2. ASSUME NEW r \in Request PROVE req'[r].reset # k
    BY HeldReset DEF Spent, ResetUsable
  <2> QED
    BY <2>1, <2>2 DEF Spent
<1> QED
  BY InitTyped, TypedStep, <1>1, PTL DEF Spec, SpentResetStaysSpent

-----------------------------------------------------------------------------
(* Sessions opened with an outdated password *)

(* The strengthening speaks of families, so that it also covers a session  *)
(* whose row is not inserted yet, and every family belongs to an account.  *)
StaleAccounted ==
  /\ \A f \in DOMAIN opened : opened[f].user \in DOMAIN users
  /\ \A f \in Live \cup InFlight :
       Stale(f) => f \in excused \/ Owing(opened[f].user) # {}

ExcusedInv == OwnerInv /\ StaleAccounted

LEMMA LiveIsOpened ==
  OwnerInv => Live \cup InFlight \subseteq DOMAIN opened
BY DEF OwnerInv, FamilyHasOneOwner, Live, InFlight, Usable

(* Sessions come from sessions, or from a login or registration.           *)
LEMMA LiveStep ==
  ASSUME OwnerInv, [Next]_vars, NEW f \in Live' \cup InFlight'
  PROVE  \/ f \in Live \cup InFlight
         \/ f \notin DOMAIN opened /\ \E r \in Request : Login(r) \/ RegisterSave(r)
<1>0. Typed /\ RowsGrow
  BY RowsStep DEF OwnerInv
<1>1. ASSUME NEW t \in DOMAIN refreshTokens', refreshTokens'[t].family = f,
             ~refreshTokens'[t].revoked, ~refreshTokens'[t].expired
      PROVE  f \in Live \cup InFlight
  <2>1. CASE t \in Issued
    <3>1. Usable(t) /\ refreshTokens[t].family = f
      BY <1>0, <1>1, <2>1 DEF RowsGrow, Usable
    <3> QED
      BY <2>1, <3>1 DEF Live
  <2>2. ASSUME t \notin Issued, NEW r \in Request, Issue(r)
        PROVE  f \in InFlight
    <3>1. req[r].family = f /\ r \in Issuing
      BY <1>1, <2>2 DEF Issue, Insert, Issued, Issuing
    <3> QED
      BY <3>1 DEF InFlight
  <2> QED
    BY <1>0, <1>1, <2>1, <2>2, RowsStep
<1>2. ASSUME NEW r \in Request, req'[r].at \in {"refresh.revoke", "issue"}, req'[r].family = f
      PROVE  \/ f \in Live \cup InFlight
             \/ f \notin DOMAIN opened /\ (Login(r) \/ RegisterSave(r))
  <2>1. CASE req'[r] = req[r]
    BY <1>2, <2>1 DEF InFlight, Issuing
  <2>2. CASE Refresh(r)
    <3> PICK t \in Issued :
          /\ Rotatable(t)
          /\ Begin(r, [Idle EXCEPT !.at = "refresh.revoke", !.token = t,
               !.user = refreshTokens[t].userId, !.family = refreshTokens[t].family])
      BY <2>2 DEF Refresh
    <3>1. req'[r].family = refreshTokens[t].family
      BY <1>0 DEF Begin, Idle, Typed, TypeOK
    <3>2. Usable(t)
      BY DEF Rotatable, Usable
    <3> QED
      BY <1>2, <3>1, <3>2 DEF Live
  <2>3. CASE RefreshRevoke(r)
    <3>1. req'[r].family = req[r].family /\ r \in Issuing
      BY <1>0, <2>3 DEF RefreshRevoke, Advance, Issuing, Typed, TypeOK, Locals
    <3> QED
      BY <1>2, <3>1 DEF InFlight
  <2>4. CASE Login(r) \/ RegisterSave(r)
    <3> PICK g \in Family \ DOMAIN opened, u \in User :
          req' = [req EXCEPT ![r] = [Idle EXCEPT !.at = "issue", !.user = u, !.family = g]]
      BY <1>0, <2>4, FamilyOpened
    <3>1. req'[r].family = g
      BY <1>0 DEF Idle, Typed, TypeOK
    <3> QED
      BY <1>2, <2>4, <3>1
  <2> QED
    BY <1>0, <1>2, <2>1, <2>2, <2>3, <2>4, IssuingStep
<1> QED
  BY <1>1, <1>2 DEF Live, InFlight, Usable, Issued, Issuing

(* A request that owes a logoutAll owes it until it executes it or fails.  *)
LEMMA OwingStep ==
  ASSUME Typed, [Next]_vars, NEW u, NEW r \in Owing(u)
  PROVE  r \in Owing(u)' \/ RevokeAll(r) \/ Fail(r)
<1>0. /\ req \in [Request -> Locals] /\ r \in Request /\ req[r].user = u
      /\ req[r].at \in {"reset.used", "logoutAll"}
  BY DEF Typed, TypeOK, Owing
<1>1. CASE req'[r] = req[r]
  BY <1>0, <1>1 DEF Owing
<1>2. CASE ResetUsed(r)
  BY <1>0, <1>2 DEF ResetUsed, Advance, Owing, Locals
<1>3. ASSUME NEW s \in Request, Call(s) \/ Proceed(s) \/ Fail(s), s # r
      PROVE  req'[r] = req[r]
  BY <1>0, <1>3 DEF Call, Register, Login, Refresh, RefreshReplay, Logout, LogoutAll,
    RevokeSession, ResetPassword, ChangePassword, Proceed, RegisterSave, RegisterConflict,
    Issue, RefreshRevoke, RevokeFamily, LogoutRevoke, LogoutBlacklist, RevokeAll,
    SessionFind, SessionRevoke, ResetUpdate, ResetUsed, ChangeVerify, ChangeUpdate,
    Fail, Begin, Advance, Finish
<1>4. ASSUME Call(r) PROVE FALSE
  <2>1. req[r] = Idle
    BY <1>4 DEF Call, Register, Login, Refresh, RefreshReplay, Logout, LogoutAll,
      RevokeSession, ResetPassword, ChangePassword, Begin
  <2> QED
    BY <1>0, <2>1 DEF Idle
<1>5. ASSUME Proceed(r) PROVE ResetUsed(r) \/ RevokeAll(r)
  BY <1>0, <1>5 DEF Proceed, RegisterSave, RegisterConflict, Issue, RefreshRevoke,
    RevokeFamily, LogoutRevoke, LogoutBlacklist, SessionFind, SessionRevoke,
    ResetUpdate, ChangeVerify, ChangeUpdate
<1>6. CASE ForgotPassword \/ Expire \/ ExpireReset \/ UNCHANGED vars
  BY <1>1, <1>6 DEF ForgotPassword, Expire, ExpireReset, vars
<1> QED
  BY <1>1, <1>2, <1>3, <1>4, <1>5, <1>6 DEF Next

(* A password changes only by a step after which a logoutAll is owed.      *)
LEMMA PasswordStep ==
  ASSUME Typed, [Next]_vars
  PROVE  /\ DOMAIN users \subseteq DOMAIN users'
         /\ \A u \in DOMAIN users : users'[u] = users[u] \/ Owing(u)' # {}
<1>0. req \in [Request -> Locals]
  BY DEF Typed, TypeOK
<1>1. CASE UNCHANGED users
  BY <1>1
<1>2. ASSUME NEW r \in Request, ResetUpdate(r) \/ ChangeUpdate(r)
      PROVE  /\ DOMAIN users \subseteq DOMAIN users'
             /\ \A u \in DOMAIN users : users'[u] = users[u] \/ Owing(u)' # {}
  <2> PICK h : h = req[r].user
    OBVIOUS
  <2>1. /\ req'[r].at \in {"reset.used", "logoutAll"}
        /\ req'[r].user = h
    BY <1>0, <1>2 DEF ResetUpdate, ChangeUpdate, Advance, Locals
  <2>2. users' = [users EXCEPT ![h] = req[r].password]
    BY <1>2 DEF ResetUpdate, ChangeUpdate
  <2>3. r \in Owing(h)'
    BY <2>1 DEF Owing
  <2> QED
    BY <2>2, <2>3
<1>3. ASSUME NEW r \in Request, RegisterSave(r)
      PROVE  /\ DOMAIN users \subseteq DOMAIN users'
             /\ \A u \in DOMAIN users : users'[u] = users[u]
  BY <1>3 DEF RegisterSave, Insert
<1>4. ASSUME NEW r \in Request, Call(r) \/ Proceed(r) \/ Fail(r)
      PROVE  ResetUpdate(r) \/ ChangeUpdate(r) \/ RegisterSave(r) \/ UNCHANGED users
  BY <1>4 DEF Call, Register, Login, Refresh, RefreshReplay, Logout, LogoutAll,
    RevokeSession, ResetPassword, ChangePassword, Proceed, RegisterConflict, Issue,
    RefreshRevoke, RevokeFamily, LogoutRevoke, LogoutBlacklist, RevokeAll, SessionFind,
    SessionRevoke, ResetUsed, ChangeVerify, Fail, tables
<1>5. CASE ForgotPassword \/ Expire \/ ExpireReset \/ UNCHANGED vars
  BY <1>1, <1>5 DEF ForgotPassword, Expire, ExpireReset, vars
<1> QED
  BY <1>1, <1>2, <1>3, <1>4, <1>5 DEF Next

(* Whoever stops owing the last logoutAll of a user accounts for the       *)
(* sessions that escape it.                                                *)
LEMMA SettleStep ==
  ASSUME ExcusedInv, NEW r \in Request, RevokeAll(r) \/ Fail(r),
         NEW f \in Live \cup InFlight, f \in Live' \cup InFlight', Stale(f)
  PROVE  (f \in excused \/ Owing(opened[f].user) # {})'
<1> PICK u, holder : u = req[r].user /\ holder = opened[f].user
  OBVIOUS
<1> SUFFICES f \in excused' \/ Owing(holder)' # {}
  <2>1. opened' = opened
    BY DEF RevokeAll, Fail
  <2> QED
    BY <2>1
<1>0. /\ Typed /\ req \in [Request -> Locals]
      /\ IsTable(refreshTokens, TokenId, RefreshToken)
      /\ f \in DOMAIN opened
  BY LiveIsOpened DEF ExcusedInv, OwnerInv, Typed, TypeOK
<1>1. \A s \in Request \ {r} : req'[s] = req[s]
  BY <1>0 DEF RevokeAll, Fail, Finish
<1>2. ASSUME NEW s \in Owing(holder), s # r PROVE Owing(holder)' # {}
  <2>1. s \in Owing(holder)'
    BY <1>1, <1>2 DEF Owing
  <2> QED
    BY <2>1
<1>3. f \in excused \/ Owing(holder) # {}
  BY DEF ExcusedInv, StaleAccounted
<1>4. CASE excused' = excused /\ Owing(holder) # {r}
  BY <1>2, <1>3, <1>4
<1>5. CASE holder # u
  <2>1. r \notin Owing(holder)
    BY <1>5 DEF Owing
  <2>2. f \in excused => f \in excused'
    BY <1>5 DEF RevokeAll, Fail, Settle, FamiliesOf
  <2> QED
    BY <1>2, <1>3, <2>1, <2>2
<1>6. CASE holder = u /\ Owing(u) # {r}
  <2>1. excused' = excused
    BY <1>6 DEF RevokeAll, Fail, Settle
  <2> QED
    BY <1>4, <1>6, <2>1
<1>7. CASE holder = u /\ Owing(u) = {r}
  <2>1. f \in FamiliesOf(u)
    BY <1>0, <1>7 DEF FamiliesOf
  <2>2. CASE Fail(r)
    <3>1. excused' = (excused \ FamiliesOf(u))
            \cup {g \in FamiliesOf(u) \cap (Live \cup InFlight) : Stale(g)}
      BY <1>7, <2>2 DEF Fail, Settle
    <3> QED
      BY <2>1, <3>1
  <2>3. CASE RevokeAll(r)
    <3>1. excused' = (excused \ FamiliesOf(u))
            \cup {g \in FamiliesOf(u) \cap InFlight : Stale(g)}
      BY <1>7, <2>3 DEF RevokeAll, Settle
    <3>2. ASSUME f \in Live' PROVE FALSE
      <4> PICK t \in DOMAIN refreshTokens' :
            /\ refreshTokens'[t].family = f
            /\ ~refreshTokens'[t].revoked
        BY <3>2 DEF Live, Usable, Issued
      <4>1. Revoke(OpenRowsOf(u))
        BY <2>3 DEF RevokeAll
      <4>2. t \in Issued /\ refreshTokens[t].family = f
        BY <1>0, <4>1, RevokeRows
      <4>3. ~refreshTokens[t].revoked /\ t \notin OpenRowsOf(u)
        BY <1>0, <4>1, <4>2, RevokeRows
      <4>4. refreshTokens[t].userId = u
        BY <1>7, <4>2 DEF ExcusedInv, OwnerInv, FamilyHasOneOwner
      <4> QED
        BY <4>2, <4>3, <4>4 DEF OpenRowsOf
    <3>3. ASSUME f \in InFlight' PROVE f \in InFlight
      <4> PICK s \in Request :
            req'[s].at \in {"refresh.revoke", "issue"} /\ req'[s].family = f
        BY <3>3 DEF InFlight, Issuing
      <4>1. s # r
        BY <1>0, <2>3 DEF RevokeAll, Finish, Idle
      <4> QED
        BY <1>1, <4>1 DEF InFlight, Issuing
    <3> QED
      BY <2>1, <3>1, <3>2, <3>3
  <2> QED
    BY <2>2, <2>3
<1> QED
  BY <1>5, <1>6, <1>7

LEMMA StaleStep == ExcusedInv /\ [Next]_vars => StaleAccounted'
<1> SUFFICES ASSUME ExcusedInv, [Next]_vars PROVE StaleAccounted'
  OBVIOUS
<1>0. OwnerInv /\ Typed /\ OpenedGrows
  BY OpenedStep DEF ExcusedInv, OwnerInv
<1>1. ASSUME NEW r \in Request, Login(r) \/ RegisterSave(r), NEW f \in DOMAIN opened' \ DOMAIN opened
      PROVE  opened'[f].user \in DOMAIN users' /\ ~Stale(f)'
  <2> PICK g \in Family \ DOMAIN opened, u \in User, p \in Password :
        /\ opened' = Insert(opened, g, [user |-> u, password |-> p])
        /\ u \in DOMAIN users' /\ users'[u] = p
    BY <1>0, <1>1, FamilyOpened
  <2>1. f = g /\ opened'[f] = [user |-> u, password |-> p]
    BY <1>1 DEF Insert
  <2> QED
    BY <2>1 DEF Stale
<1>2. ASSUME NEW f \in DOMAIN opened' PROVE opened'[f].user \in DOMAIN users'
  <2>1. CASE f \in DOMAIN opened
    BY <1>0, <2>1, PasswordStep DEF ExcusedInv, StaleAccounted, OpenedGrows
  <2>2. CASE f \notin DOMAIN opened
    BY <1>0, <1>1, <1>2, <2>2, OpenedStep
  <2> QED
    BY <2>1, <2>2
<1>3. ASSUME NEW f \in Live' \cup InFlight', Stale(f)'
      PROVE  (f \in excused \/ Owing(opened[f].user) # {})'
  <2>1. CASE f \notin DOMAIN opened
    <3>1. PICK r \in Request : Login(r) \/ RegisterSave(r)
      BY <1>0, <1>3, <2>1, LiveIsOpened, LiveStep
    <3>2. f \in DOMAIN opened'
      <4>1. OwnerInv'
        BY <1>0, TypedStep, OwnerStep DEF OwnerInv
      <4>2. (Live \cup InFlight)' \subseteq DOMAIN opened'
        BY <4>1 DEF OwnerInv, FamilyHasOneOwner, Live, InFlight, Usable
      <4> QED
        BY <1>3, <4>2
    <3> QED
      BY <1>1, <1>3, <2>1, <3>1, <3>2
  <2>2. CASE f \in DOMAIN opened
    <3> PICK holder : holder = opened[f].user
      OBVIOUS
    <3>0. f \in Live \cup InFlight /\ holder \in DOMAIN users /\ opened'[f] = opened[f]
      BY <1>0, <1>3, <2>2, LiveStep DEF ExcusedInv, StaleAccounted, OpenedGrows
    <3>1. CASE ~Stale(f)
      <4>1. users'[holder] # users[holder]
        BY <1>3, <3>0, <3>1 DEF Stale
      <4> QED
        BY <1>0, <3>0, <4>1, PasswordStep
    <3>2. ASSUME Stale(f), NEW r \in Request, RevokeAll(r) \/ Fail(r)
          PROVE  (f \in excused \/ Owing(opened[f].user) # {})'
      BY <1>3, <3>0, <3>2, SettleStep
    <3>3. ASSUME Stale(f), \A r \in Request : ~RevokeAll(r) /\ ~Fail(r)
          PROVE  f \in excused' \/ Owing(holder)' # {}
      <4>1. excused' = excused
        BY <3>3 DEF Next, Call, Register, Login, Refresh, RefreshReplay, Logout, LogoutAll,
          RevokeSession, ResetPassword, ChangePassword, Proceed, RegisterSave,
          RegisterConflict, Issue, RefreshRevoke, RevokeFamily, LogoutRevoke,
          LogoutBlacklist, SessionFind, SessionRevoke, ResetUpdate, ResetUsed,
          ChangeVerify, ChangeUpdate, ForgotPassword, Expire, ExpireReset, OpenFamily,
          history, vars
      <4>2. ASSUME NEW r \in Owing(holder) PROVE r \in Owing(holder)'
        <5>1. r \in Request
          BY DEF Owing
        <5> QED
          BY <1>0, <3>3, <5>1, OwingStep
      <4>3. f \in excused \/ Owing(holder) # {}
        BY <3>0, <3>3 DEF ExcusedInv, StaleAccounted
      <4> QED
        BY <4>1, <4>2, <4>3
    <3> QED
      BY <3>0, <3>1, <3>2, <3>3
  <2> QED
    BY <2>1, <2>2
<1> QED
  BY <1>2, <1>3 DEF StaleAccounted

(* A usable session opened with an outdated password escaped the logoutAll *)
(* or will meet it (auth.service.ts:129-143, 150-161).                     *)
THEOREM StaleSessions == Spec => []StaleSessionsAreExcused
<1>1. Init => ExcusedInv
  BY InitTyped DEF Init, ExcusedInv, StaleAccounted, OwnerInv, FamilyHasOneOwner, Issued,
    Issuing, EmptyTable, Idle, Live, InFlight
<1>2. ExcusedInv /\ [Next]_vars => ExcusedInv'
  BY TypedStep, OwnerStep, StaleStep DEF ExcusedInv, OwnerInv
<1>3. ExcusedInv => StaleSessionsAreExcused
  <2> SUFFICES ASSUME ExcusedInv, NEW t \in Issued, Usable(t)
               PROVE  \/ opened[refreshTokens[t].family].password
                           = users[refreshTokens[t].userId]
                      \/ refreshTokens[t].family \in excused
                      \/ Owing(refreshTokens[t].userId) # {}
    BY DEF StaleSessionsAreExcused
  <2>1. refreshTokens[t].family \in Live
    BY DEF Live
  <2>2. refreshTokens[t].userId = opened[refreshTokens[t].family].user
    BY DEF ExcusedInv, OwnerInv, FamilyHasOneOwner
  <2> QED
    BY <2>1, <2>2 DEF ExcusedInv, StaleAccounted, Stale
<1> QED
  BY <1>1, <1>2, <1>3, PTL DEF Spec

-----------------------------------------------------------------------------
(* Forks of a family *)

Made(t) == {link \in rotations : link[1] = t}
UnderWay(t) == {r \in Issuing : req[r].token = t}

(* Once a token has been exchanged it is revoked, and the exchanges of a   *)
(* revoked token can only be completed, never begun.                       *)
ForksInv == RotationInv /\ IsFiniteSet(rotations) /\ ForksNeedARace

LEMMA RotationsStep ==
  ASSUME Typed, [Next]_vars
  PROVE  \/ UNCHANGED rotations
         \/ \E r \in Request : /\ Issue(r) /\ req[r].token # None
                              /\ \E t \in TokenId \ Issued :
                                   rotations' = rotations \cup {<<req[r].token, t>>}
<1>1. (\E r \in Request : Issue(r)) \/ UNCHANGED rotations
  BY DEF Next, Call, Register, Login, Refresh, RefreshReplay, Logout, LogoutAll,
    RevokeSession, ResetPassword, ChangePassword, Proceed, RegisterSave, RegisterConflict,
    RefreshRevoke, RevokeFamily, LogoutRevoke, LogoutBlacklist, RevokeAll,
    SessionFind, SessionRevoke, ResetUpdate, ResetUsed, ChangeVerify, ChangeUpdate,
    Fail, ForgotPassword, Expire, ExpireReset, OpenFamily, history, vars
<1>2. ASSUME NEW r \in Request, Issue(r), rotations' # rotations
      PROVE  /\ req[r].token # None
             /\ \E t \in TokenId \ Issued :
                  rotations' = rotations \cup {<<req[r].token, t>>}
  BY <1>2 DEF Issue
<1> QED
  BY <1>1, <1>2

(* A request comes to exchange a token only while it is not revoked.       *)
LEMMA UnderWayStep ==
  ASSUME Typed, [Next]_vars, NEW t \in Issued, refreshTokens[t].revoked
  PROVE  UnderWay(t)' \subseteq UnderWay(t)
<1> SUFFICES ASSUME NEW r \in Request, req'[r].at \in {"refresh.revoke", "issue"},
                    req'[r].token = t
             PROVE  req[r].at \in {"refresh.revoke", "issue"} /\ req[r].token = t
  BY DEF UnderWay, Issuing
<1>0. req \in [Request -> Locals] /\ t # None
  BY NoneAssumption DEF Typed, TypeOK, IsTable, Issued
<1>1. CASE req'[r] = req[r]
  BY <1>1
<1>2. ASSUME Refresh(r) PROVE FALSE
  <2> PICK s \in Issued :
        /\ Rotatable(s)
        /\ Begin(r, [Idle EXCEPT !.at = "refresh.revoke", !.token = s,
             !.user = refreshTokens[s].userId, !.family = refreshTokens[s].family])
    BY <1>2 DEF Refresh
  <2>1. req'[r].token = s
    BY <1>0 DEF Begin, Idle
  <2> QED
    BY <2>1 DEF Rotatable
<1>3. CASE RefreshRevoke(r)
  BY <1>0, <1>3 DEF RefreshRevoke, Advance, Locals
<1>4. ASSUME Login(r) \/ RegisterSave(r) PROVE FALSE
  <2> PICK f \in Family \ DOMAIN opened, u \in User, p \in Password :
        req' = [req EXCEPT ![r] = [Idle EXCEPT !.at = "issue", !.user = u, !.family = f]]
    BY <1>4, FamilyOpened
  <2>1. req'[r].token = None
    BY <1>0 DEF Idle
  <2> QED
    BY <1>0, <2>1
<1> QED
  BY <1>1, <1>2, <1>3, <1>4, IssuingStep

(* An INSERT completes one exchange under way.                             *)
LEMMA IssueCompletes ==
  ASSUME Typed, [Next]_vars, NEW r \in Request, Issue(r), NEW t \in Issued,
         req[r].token = t, refreshTokens[t].revoked, IsFiniteSet(UnderWay(t))
  PROVE  Cardinality(UnderWay(t)') + 1 <= Cardinality(UnderWay(t))
<1>1. r \in UnderWay(t)
  BY DEF Issue, UnderWay, Issuing
<1>2. r \notin UnderWay(t)'
  BY DEF Issue, Finish, Idle, UnderWay, Issuing, Typed, TypeOK
<1>3. UnderWay(t)' \subseteq UnderWay(t) \ {r}
  BY <1>2, UnderWayStep
<1>4. /\ IsFiniteSet(UnderWay(t) \ {r})
      /\ Cardinality(UnderWay(t) \ {r}) = Cardinality(UnderWay(t)) - 1
  BY <1>1, FS_RemoveElement
<1>5. Cardinality(UnderWay(t)') <= Cardinality(UnderWay(t) \ {r})
  BY <1>3, <1>4, FS_Subset
<1>6. /\ Cardinality(UnderWay(t)) \in Nat
      /\ Cardinality(UnderWay(t)') \in Nat
  <2>1. IsFiniteSet(UnderWay(t)')
    BY <1>3, <1>4, FS_Subset
  <2> QED
    BY <2>1, FS_CardinalityType
<1> QED
  BY <1>4, <1>5, <1>6

LEMMA ForksStep == ForksInv /\ [Next]_vars => IsFiniteSet(rotations') /\ ForksNeedARace'
<1> SUFFICES ASSUME ForksInv, [Next]_vars
             PROVE  IsFiniteSet(rotations') /\ ForksNeedARace'
  OBVIOUS
<1>0. /\ Typed /\ RowsGrow /\ IsFiniteSet(rotations)
      /\ RotationInv' /\ RotationInv
  BY TypedStep, RotatingStep, RotatedStep, RowsStep DEF ForksInv, RotationInv
<1>1. IsFiniteSet(rotations')
  BY <1>0, RotationsStep, FS_AddElement
<1>2. ASSUME NEW t
      PROVE  /\ IsFiniteSet(Made(t)) /\ Cardinality(Made(t)) \in Nat
             /\ IsFiniteSet(Made(t)') /\ Cardinality(Made(t)') \in Nat
             /\ IsFiniteSet(UnderWay(t)) /\ Cardinality(UnderWay(t)) \in Nat
             /\ IsFiniteSet(UnderWay(t)') /\ Cardinality(UnderWay(t)') \in Nat
             /\ Cardinality(UnderWay(t)') <= Cardinality(Request)
             /\ Cardinality(Request) \in Nat
  <2>1. /\ Made(t) \subseteq rotations /\ Made(t)' \subseteq rotations'
        /\ UnderWay(t) \subseteq Request /\ UnderWay(t)' \subseteq Request
    BY DEF Made, UnderWay, Issuing
  <2>2. /\ IsFiniteSet(Made(t)) /\ IsFiniteSet(Made(t)')
        /\ IsFiniteSet(UnderWay(t)) /\ IsFiniteSet(UnderWay(t)')
        /\ Cardinality(UnderWay(t)') <= Cardinality(Request)
    BY <1>0, <1>1, <2>1, FS_Subset, RequestAssumption
  <2> QED
    BY <2>2, FS_CardinalityType, RequestAssumption
<1>3. ASSUME NEW t \in DOMAIN refreshTokens'
      PROVE  Cardinality(Made(t)') + Cardinality(UnderWay(t)') <= Cardinality(Request)
  <2>1. CASE Made(t)' = {}
    <3>1. Cardinality(Made(t)') = 0
      BY <2>1, FS_EmptySet
    <3> QED
      BY <1>2, <3>1
  <2>2. CASE Made(t)' # {} /\ Made(t)' = Made(t)
    <3>1. t \in Issued /\ refreshTokens[t].revoked
      BY <1>0, <2>2 DEF Made, RotationInv, RotatedIsRevoked
    <3>2. Cardinality(UnderWay(t)') <= Cardinality(UnderWay(t))
      BY <1>0, <1>2, <3>1, UnderWayStep, FS_Subset
    <3>3. Cardinality(Made(t)) + Cardinality(UnderWay(t)) <= Cardinality(Request)
      BY <3>1 DEF ForksInv, ForksNeedARace, Exchanges, Made, UnderWay
    <3>4. Cardinality(Made(t)') = Cardinality(Made(t))
      BY <2>2
    <3> QED
      BY <1>2, <3>2, <3>3, <3>4
  <2>3. CASE Made(t)' # Made(t)
    <3>1. rotations' # rotations
      BY <2>3 DEF Made
    <3> PICK r \in Request, s \in TokenId \ Issued :
          /\ Issue(r) /\ req[r].token # None
          /\ rotations' = rotations \cup {<<req[r].token, s>>}
      BY <1>0, <3>1, RotationsStep
    <3>2. req[r].token = t /\ Made(t)' = Made(t) \cup {<<t, s>>}
      BY <2>3 DEF Made
    <3>3. t \in Issued /\ refreshTokens[t].revoked
      BY <1>0, <3>2 DEF Issue, RotationInv, Rotating
    <3>4. Cardinality(Made(t)') <= Cardinality(Made(t)) + 1
      <4>1. IsFiniteSet(Made(t)) /\ Cardinality(Made(t)) \in Nat
        BY <1>2
      <4>2. Cardinality(Made(t) \cup {<<t, s>>}) =
              IF <<t, s>> \in Made(t) THEN Cardinality(Made(t)) ELSE Cardinality(Made(t)) + 1
        BY <4>1, FS_AddElement, Zenon
      <4> QED
        BY <3>2, <4>1, <4>2
    <3>5. Cardinality(UnderWay(t)') + 1 <= Cardinality(UnderWay(t))
      BY <1>0, <1>2, <3>2, <3>3, IssueCompletes
    <3>6. Cardinality(Made(t)) + Cardinality(UnderWay(t)) <= Cardinality(Request)
      BY <3>3 DEF ForksInv, ForksNeedARace, Exchanges, Made, UnderWay
    <3> QED
      BY <1>2, <3>4, <3>5, <3>6
  <2> QED
    BY <2>1, <2>2, <2>3
<1> QED
  BY <1>1, <1>3 DEF ForksNeedARace, Exchanges, Made, UnderWay, Issued

(* A token is exchanged at most once per request that can run at a time    *)
(* (auth.service.ts:68-88).                                                *)
THEOREM Forks == Spec => []ForksNeedARace
<1>1. Init => ForksInv
  <2> SUFFICES ASSUME Init PROVE ForksInv
    OBVIOUS
  <2>1. RotationInv
    BY InitTyped DEF Init, RotationInv, Rotating, RotatedIsRevoked, Idle
  <2>2. IsFiniteSet(rotations)
    BY FS_EmptySet DEF Init
  <2>3. Issued = {}
    BY DEF Init, Issued, EmptyTable
  <2> QED
    BY <2>1, <2>2, <2>3 DEF ForksInv, ForksNeedARace
<1>2. ForksInv /\ [Next]_vars => ForksInv'
  BY TypedStep, RotatingStep, RotatedStep, ForksStep DEF ForksInv, RotationInv
<1>3. ForksInv => ForksNeedARace
  BY DEF ForksInv
<1> QED
  BY <1>1, <1>2, <1>3, PTL DEF Spec
=============================================================================
