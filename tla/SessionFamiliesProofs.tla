----------------------- MODULE SessionFamiliesProofs -----------------------
(***************************************************************************)
(* AuthService implements SessionFamilies: whatever requests overlap and   *)
(* whatever fails, a family that has closed never opens again, and a step  *)
(* closes families of one user only.                                       *)
(***************************************************************************)
EXTENDS AuthServiceProofs

Active == Live \cup InFlight

FamilyInv == RotationInv /\ FamilyHasOneOwner

LEMMA FamilyInvariance == Spec => []FamilyInv
<1>1. Init => FamilyInv
  BY InitTyped DEF Init, FamilyInv, RotationInv, Rotating, RotatedIsRevoked,
    FamilyHasOneOwner, Issued, Issuing, EmptyTable, Idle
<1>2. FamilyInv /\ [Next]_vars => FamilyInv'
  BY TypedStep, RotatingStep, RotatedStep, OwnerStep DEF FamilyInv, RotationInv, OwnerInv
<1> QED
  BY <1>1, <1>2, PTL DEF Spec

-----------------------------------------------------------------------------
(* A family has a usable row, or a request that will add one, only if it   *)
(* had one or the other before, or is opened by this step.                 *)
LEMMA ActiveStep ==
  ASSUME FamilyInv, [Next]_vars, NEW f \in DOMAIN opened, f \in Active'
  PROVE  f \in Active
<1>0. Typed /\ RowsGrow
  BY RowsStep DEF FamilyInv, RotationInv
<1>1. ASSUME NEW t \in DOMAIN refreshTokens', refreshTokens'[t].family = f,
             ~refreshTokens'[t].revoked, ~refreshTokens'[t].expired
      PROVE  f \in Active
  <2>1. CASE t \in Issued
    BY <1>0, <1>1, <2>1 DEF RowsGrow, Active, Live, Usable
  <2>2. ASSUME NEW r \in Request, Issue(r), t \notin Issued PROVE f \in Active
    <3>1. refreshTokens'[t].family = req[r].family
      BY <1>1, <2>2 DEF Issue, Insert, Issued
    <3> QED
      BY <1>1, <2>2, <3>1 DEF Issue, Issuing, Active, InFlight
  <2> QED
    BY <1>0, <2>1, <2>2, RowsStep
<1>2. ASSUME NEW r \in Request, req'[r].at \in {"refresh.revoke", "issue"},
             req'[r].family = f
      PROVE  f \in Active
  <2>1. CASE req'[r] = req[r]
    BY <1>2, <2>1 DEF Active, InFlight, Issuing
  <2>2. CASE Refresh(r)
    <3> PICK t \in Issued :
          /\ Rotatable(t)
          /\ Begin(r, [Idle EXCEPT !.at = "refresh.revoke", !.token = t,
               !.user = refreshTokens[t].userId, !.family = refreshTokens[t].family])
      BY <2>2 DEF Refresh
    <3>1. req'[r].family = refreshTokens[t].family
      BY <1>0 DEF Begin, Idle, Typed, TypeOK
    <3> QED
      BY <1>2, <3>1 DEF Rotatable, Active, Live, Usable
  <2>3. CASE RefreshRevoke(r)
    <3>1. req'[r].family = req[r].family /\ r \in Issuing
      BY <1>0, <2>3 DEF RefreshRevoke, Advance, Issuing, Typed, TypeOK, Locals
    <3> QED
      BY <1>2, <3>1 DEF Active, InFlight
  <2>4. CASE Login(r) \/ RegisterSave(r)
    <3> PICK g \in Family \ DOMAIN opened, u \in User :
          req' = [req EXCEPT ![r] =
            [Idle EXCEPT !.at = "issue", !.user = u, !.family = g]]
      BY <1>0, <2>4, FamilyOpened
    <3>1. req'[r].family = g
      BY <1>0 DEF Idle, Typed, TypeOK
    <3> QED
      BY <1>2, <3>1
  <2> QED
    BY <1>0, <1>2, <2>1, <2>2, <2>3, <2>4, IssuingStep
<1> QED
  BY <1>1, <1>2 DEF Active, Live, InFlight, Usable, Issued, Issuing

-----------------------------------------------------------------------------
(* If every usable row a step takes away belongs to u, and every request   *)
(* it ends was issuing for u, the families it closes are u's.              *)
LEMMA ClosedForOne ==
  ASSUME FamilyInv, RowsGrow, NEW u,
         \A s \in Issuing : \/ s \in Issuing' /\ req'[s].family = req[s].family
                            \/ req[s].user = u,
         \A t \in Issued : \/ ~Usable(t)
                           \/ ~refreshTokens'[t].revoked /\ ~refreshTokens'[t].expired
                           \/ refreshTokens[t].userId = u
  PROVE  \A f \in Active \ Active' : opened[f].user = u
<1> SUFFICES ASSUME NEW f \in Active, f \notin Active' PROVE opened[f].user = u
  OBVIOUS
<1>1. ASSUME NEW t \in Issued, Usable(t), refreshTokens[t].family = f
      PROVE  opened[f].user = u
  <2>1. CASE ~refreshTokens'[t].revoked /\ ~refreshTokens'[t].expired
    <3>1. f \in Live'
      BY <1>1, <2>1 DEF RowsGrow, Live, Usable, Issued
    <3> QED
      BY <3>1 DEF Active
  <2>2. CASE refreshTokens[t].userId = u
    BY <1>1, <2>2 DEF FamilyInv, FamilyHasOneOwner
  <2> QED
    BY <1>1, <2>1, <2>2
<1>2. ASSUME NEW s \in Issuing, req[s].family = f
      PROVE  opened[f].user = u
  <2>1. CASE s \in Issuing' /\ req'[s].family = req[s].family
    <3>1. f \in InFlight'
      BY <1>2, <2>1 DEF InFlight
    <3> QED
      BY <3>1 DEF Active
  <2>2. CASE req[s].user = u
    BY <1>2, <2>2 DEF FamilyInv, FamilyHasOneOwner
  <2> QED
    BY <1>2, <2>1, <2>2
<1> QED
  BY <1>1, <1>2 DEF Active, Live, InFlight

(* Every step takes usable rows, and requests that would add one, from one *)
(* user only.                                                              *)
LEMMA EndsForOne ==
  ASSUME FamilyInv, [Next]_vars
  PROVE  \E u : \A f \in Active \ Active' : opened[f].user = u
<1> DEFINE Kept(u) == \A s \in Issuing :
             \/ s \in Issuing' /\ req'[s].family = req[s].family
             \/ req[s].user = u
           RowsKept(u) == \A t \in Issued :
             \/ ~Usable(t)
             \/ ~refreshTokens'[t].revoked /\ ~refreshTokens'[t].expired
             \/ refreshTokens[t].userId = u
<1>0. Typed /\ RowsGrow
  BY RowsStep DEF FamilyInv, RotationInv
<1>1. \A u : Kept(u) /\ RowsKept(u) => \A f \in Active \ Active' : opened[f].user = u
  BY <1>0, ClosedForOne
<1>2. ASSUME NEW r \in Request, Call(r) \/ Proceed(r) \/ Fail(r),
             NEW s \in Request, s # r
      PROVE  req'[s] = req[s]
  BY <1>0, <1>2 DEF Call, Register, Login, Refresh, RefreshReplay, Logout, LogoutAll,
    RevokeSession, ResetPassword, ChangePassword, Proceed, RegisterSave, RegisterConflict,
    Issue, RefreshRevoke, RevokeFamily, LogoutRevoke, LogoutBlacklist, RevokeAll,
    SessionFind, SessionRevoke, ResetUpdate, ResetUsed, ChangeVerify, ChangeUpdate,
    Fail, Begin, Advance, Finish, Typed, TypeOK
<1>3. ASSUME NEW r \in Request, Call(r) \/ Proceed(r) \/ Fail(r)
      PROVE  Kept(req[r].user) /\ (r \notin Issuing => \A u : Kept(u))
  BY <1>2, <1>3 DEF Issuing
<1>4. ASSUME NEW rows, Revoke(rows), NEW u, \A t \in rows \cap Issued : refreshTokens[t].userId = u
      PROVE  RowsKept(u)
  BY <1>0, <1>4, RevokeRows DEF Usable, Typed, TypeOK
<1>5. ASSUME NEW r \in Request, UNCHANGED refreshTokens \/ Issue(r) PROVE \A u : RowsKept(u)
  BY <1>5 DEF Issue, Insert, Usable, Issued
<1>6. ASSUME NEW r \in Request, Proceed(r)
      PROVE  \E u : Kept(u) /\ RowsKept(u)
  <2>1. CASE Issue(r) \/ UNCHANGED refreshTokens
    BY <1>3, <1>5, <1>6, <2>1
  <2>2. CASE RefreshRevoke(r)
    <3>1. r \in Issuing /\ Revoke({req[r].token})
      BY <2>2 DEF RefreshRevoke, Issuing
    <3>2. /\ req[r].token \in Issued
          /\ refreshTokens[req[r].token].family = req[r].family
      BY <2>2 DEF RefreshRevoke, FamilyInv, RotationInv, Rotating
    <3>3. refreshTokens[req[r].token].userId = req[r].user
      BY <3>1, <3>2 DEF FamilyInv, FamilyHasOneOwner
    <3> QED
      BY <1>3, <1>4, <1>6, <3>1, <3>3
  <2>3. CASE RevokeFamily(r)
    <3>1. r \notin Issuing /\ Revoke(RowsOfFamily(req[r].family))
      BY <2>3 DEF RevokeFamily, Issuing
    <3>2. \A t \in RowsOfFamily(req[r].family) :
            refreshTokens[t].userId = opened[req[r].family].user
      BY DEF RowsOfFamily, FamilyInv, FamilyHasOneOwner
    <3>3. Kept(opened[req[r].family].user)
      BY <1>3, <1>6, <3>1
    <3>4. RowsKept(opened[req[r].family].user)
      BY <1>4, <3>1, <3>2
    <3> QED
      BY <3>3, <3>4
  <2>4. CASE LogoutRevoke(r)
    <3>1. Revoke(OwnRow(req[r].token, req[r].user))
      BY <2>4 DEF LogoutRevoke
    <3> QED
      BY <1>3, <1>4, <1>6, <3>1 DEF OwnRow
  <2>5. CASE RevokeAll(r)
    <3>1. Revoke(OpenRowsOf(req[r].user))
      BY <2>5 DEF RevokeAll
    <3> QED
      BY <1>3, <1>4, <1>6, <3>1 DEF OpenRowsOf
  <2>6. CASE SessionRevoke(r)
    <3>1. r \notin Issuing /\ Revoke({req[r].token})
      BY <2>6 DEF SessionRevoke, Issuing
    <3> DEFINE u == refreshTokens[req[r].token].userId
    <3>2. Kept(u)
      BY <1>3, <1>6, <3>1
    <3>3. \A t \in {req[r].token} \cap Issued : refreshTokens[t].userId = u
      OBVIOUS
    <3>4. RowsKept(u)
      BY <1>4, <3>1, <3>3
    <3> QED
      BY <3>2, <3>4
  <2> QED
    BY <1>6, <2>1, <2>2, <2>3, <2>4, <2>5, <2>6 DEF Proceed, RegisterSave,
      RegisterConflict, LogoutBlacklist, SessionFind, ResetUpdate, ResetUsed,
      ChangeVerify, ChangeUpdate, tables
<1>7. ASSUME NEW r \in Request, Call(r) \/ Fail(r)
      PROVE  \E u : Kept(u) /\ RowsKept(u)
  <2>1. UNCHANGED refreshTokens
    BY <1>7 DEF Call, Register, Login, Refresh, RefreshReplay, Logout, LogoutAll,
      RevokeSession, ResetPassword, ChangePassword, Fail, tables
  <2> QED
    BY <1>3, <1>5, <1>7, <2>1
<1>8. CASE Expire
  <2> PICK t \in Issued : refreshTokens' = [refreshTokens EXCEPT ![t].expired = TRUE]
    BY <1>8 DEF Expire
  <2>1. RowsKept(refreshTokens[t].userId)
    BY <1>0 DEF Usable, Issued, Typed, TypeOK, IsTable, RefreshToken
  <2>2. Kept(refreshTokens[t].userId)
    BY <1>8 DEF Expire, Issuing
  <2> QED
    BY <1>1, <2>1, <2>2
<1>9. CASE ForgotPassword \/ ExpireReset \/ UNCHANGED vars
  <2>1. UNCHANGED <<refreshTokens, req>>
    BY <1>9 DEF ForgotPassword, ExpireReset, vars
  <2> QED
    BY <2>1 DEF Active, Live, InFlight, Usable, Issued, Issuing
<1> QED
  BY <1>1, <1>6, <1>7, <1>8, <1>9 DEF Next

-----------------------------------------------------------------------------
(* Refinement *)

StatusFits(f) ==
  /\ f \notin DOMAIN opened => Status(f) = "unused"
  /\ f \in Active => f \in DOMAIN opened /\ Status(f) = "open"
  /\ f \in DOMAIN opened \ Active => Status(f) = "closed"

LEMMA StatusOf ==
  ASSUME NEW f
  PROVE  (FamilyInv => StatusFits(f)) /\ (FamilyInv' => StatusFits(f)')
<1>1. FamilyInv => Active \subseteq DOMAIN opened
  BY DEF Active, Live, InFlight, Usable, FamilyInv, FamilyHasOneOwner
<1>2. FamilyInv' => Active' \subseteq DOMAIN opened'
  BY DEF Active, Live, InFlight, Usable, FamilyInv, FamilyHasOneOwner
<1>3. f \in Active <=> f \in Live \cup InFlight
  BY DEF Active
<1>4. f \in Active' <=> f \in (Live \cup InFlight)'
  BY DEF Active
<1> QED
  BY <1>1, <1>2, <1>3, <1>4 DEF StatusFits, Status

(* A login or registration opens one family and leaves the others alone.   *)
LEMMA OpensOne ==
  ASSUME FamilyInv, FamilyInv', [Next]_vars, NEW r \in Request, Login(r) \/ RegisterSave(r)
  PROVE  SF!Next
<1>0. Typed
  BY DEF FamilyInv, RotationInv
<1> PICK f \in Family \ DOMAIN opened, u \in User, p \in Password :
      /\ opened' = Insert(opened, f, [user |-> u, password |-> p])
      /\ req' = [req EXCEPT ![r] =
           [Idle EXCEPT !.at = "issue", !.user = u, !.family = f]]
      /\ UNCHANGED refreshTokens
  BY <1>0, FamilyOpened
<1>1. /\ DOMAIN opened' = DOMAIN opened \cup {f}
      /\ opened'[f].user = u
      /\ \A g \in DOMAIN opened : opened'[g] = opened[g]
  BY DEF Insert
<1>2. f \in Active'
  <2>1. req'[r].at = "issue" /\ req'[r].family = f
    BY <1>0 DEF Idle, Typed, TypeOK
  <2> QED
    BY <2>1 DEF Active, InFlight, Issuing
<1>3. Active \subseteq Active'
  <2>1. r \notin Issuing
    <3>1. req[r] = Idle \/ req[r].at = "register.save"
      BY DEF Login, RegisterSave, Begin
    <3> QED
      BY <3>1 DEF Idle, Issuing
  <2>2. \A s \in Issuing : s \in Issuing' /\ req'[s] = req[s]
    BY <1>0, <2>1 DEF Issuing, Typed, TypeOK
  <2> QED
    BY <2>2 DEF Active, Live, InFlight, Usable, Issued
<1>4. \A g \in DOMAIN opened : g \in Active <=> g \in Active'
  BY <1>3, ActiveStep
<1>5. Status(f) = "unused" /\ Status(f)' = "open"
  BY <1>2, StatusOf DEF StatusFits
<1>6. ASSUME NEW g \in Family, g # f PROVE Status(g)' = Status(g)
  <2>1. CASE g \in DOMAIN opened
    BY <1>1, <1>4, <2>1, StatusOf DEF StatusFits
  <2>2. CASE g \notin DOMAIN opened
    BY <1>1, <1>6, <2>2, StatusOf DEF StatusFits
  <2> QED
    BY <2>1, <2>2
<1>7. SF!Open(f, u)
  BY <1>1, <1>5, <1>6 DEF SF!Open
<1> QED
  BY <1>7 DEF SF!Next

(* Any other step closes families of one user, or none.                    *)
LEMMA ClosesForOne ==
  ASSUME FamilyInv, FamilyInv', [Next]_vars, opened' = opened
  PROVE  SF!Next \/ UNCHANGED <<[f \in Family |-> Status(f)],
           [f \in Family |-> IF f \in DOMAIN opened THEN opened[f].user ELSE None]>>
<1> DEFINE closing == Active \ Active'
<1>0. IsTable(opened, Family, [user : User, password : Password])
  BY DEF FamilyInv, RotationInv, Typed, TypeOK
<1>1. closing \subseteq DOMAIN opened /\ DOMAIN opened \subseteq Family
  BY <1>0 DEF IsTable, Active, Live, InFlight, Usable, FamilyInv, FamilyHasOneOwner
<1>2. ASSUME NEW f \in Family
      PROVE  /\ f \in closing => Status(f) = "open" /\ Status(f)' = "closed"
             /\ f \notin closing => Status(f)' = Status(f)
  <2>1. CASE f \notin DOMAIN opened
    BY <1>1, <2>1, StatusOf DEF StatusFits
  <2>2. CASE f \in DOMAIN opened
    BY <2>2, ActiveStep, StatusOf DEF StatusFits
  <2> QED
    BY <2>1, <2>2
<1>3. CASE closing = {}
  BY <1>2, <1>3
<1>4. CASE closing # {}
  <2> PICK u : \A f \in closing : opened[f].user = u
    BY EndsForOne
  <2>1. u \in User
    BY <1>0, <1>1, <1>4 DEF IsTable
  <2>2. closing \in SUBSET Family
    BY <1>1
  <2>3. SF!Close(u, closing)
    BY <1>1, <1>2 DEF SF!Close
  <2> QED
    BY <2>1, <2>2, <2>3 DEF SF!Next
<1> QED
  BY <1>3, <1>4

(* A family is opened once, by one user, and once closed never opens       *)
(* again; no step ends sessions of two users (auth.service.ts:43-103,      *)
(* 182-212).                                                               *)
THEOREM Refinement == Spec => RefinesSessionFamilies
<1>1. Init => SF!Init
  BY DEF Init, SF!Init, Status, EmptyTable
<1>2. FamilyInv /\ FamilyInv' /\ [Next]_vars =>
        [SF!Next]_<<[f \in Family |-> Status(f)],
          [f \in Family |-> IF f \in DOMAIN opened THEN opened[f].user ELSE None]>>
  <2> SUFFICES ASSUME FamilyInv, FamilyInv', [Next]_vars
               PROVE  SF!Next \/ UNCHANGED <<[f \in Family |-> Status(f)],
                 [f \in Family |-> IF f \in DOMAIN opened THEN opened[f].user ELSE None]>>
    OBVIOUS
  <2>1. opened' = opened \/ \E r \in Request : Login(r) \/ RegisterSave(r)
    BY OpenedStep DEF FamilyInv, RotationInv
  <2> QED
    BY <2>1, OpensOne, ClosesForOne
<1> QED
  BY <1>1, <1>2, FamilyInvariance, PTL DEF Spec, RefinesSessionFamilies, SF!Spec

-----------------------------------------------------------------------------
(* What a client sees of the two machines together *)

(* A session that has ended stays ended, whatever tokens of it are still   *)
(* presented and whatever requests are in flight (auth.service.ts:66-88).  *)
EndedStaysEnded ==
  [][\A f \in Family : Status(f) = "closed" => Status(f)' = "closed"]_vars

(* It follows from the refinement, or shorter from the same invariant. *)
THEOREM ClosedForGood == Spec => EndedStaysEnded
<1>1. FamilyInv /\ [Next]_vars =>
        [\A f \in Family : Status(f) = "closed" => Status(f)' = "closed"]_vars
  <2> SUFFICES ASSUME FamilyInv, [Next]_vars, NEW f \in Family, Status(f) = "closed"
               PROVE  Status(f)' = "closed"
    OBVIOUS
  <2>1. f \in DOMAIN opened /\ f \notin Active
    BY DEF Status, Active
  <2>2. f \in DOMAIN opened'
    BY <2>1, OpenedStep DEF FamilyInv, RotationInv, OpenedGrows
  <2>3. f \notin Active'
    BY <2>1, ActiveStep
  <2> QED
    BY <2>2, <2>3 DEF Status, Active
<1> QED
  BY <1>1, FamilyInvariance, PTL DEF Spec, EndedStaysEnded

(* An UPDATE that revokes all open rows of a family ends it, unless a      *)
(* request is about to add one.                                            *)
LEMMA RevokedRowsEnd ==
  ASSUME FamilyInv, NEW r \in Request, Finish(r), NEW rows, Revoke(rows),
         NEW f, f \notin InFlight,
         \A t \in RowsOfFamily(f) : refreshTokens[t].revoked \/ t \in rows
  PROVE  f \notin Live' \cup InFlight'
<1>0. IsTable(refreshTokens, TokenId, RefreshToken) /\ req \in [Request -> Locals]
  BY DEF FamilyInv, RotationInv, Typed, TypeOK
<1>1. ASSUME f \in Live' PROVE FALSE
  <2> PICK t \in DOMAIN refreshTokens' :
        refreshTokens'[t].family = f /\ ~refreshTokens'[t].revoked
    BY <1>1 DEF Live, Usable, Issued
  <2> QED
    BY <1>0, RevokeRows DEF RowsOfFamily
<1>2. ASSUME f \in InFlight' PROVE FALSE
  <2> PICK s \in Request :
        req'[s].at \in {"refresh.revoke", "issue"} /\ req'[s].family = f
    BY <1>2 DEF InFlight, Issuing
  <2>1. s # r /\ req'[s] = req[s]
    BY <1>0 DEF Finish, Idle
  <2> QED
    BY <2>1 DEF InFlight, Issuing
<1> QED
  BY <1>1, <1>2

(* Reuse detection and logoutAll end every session they are meant to, but  *)
(* for those in flight (auth.service.ts:74-77, 100-101).                   *)
THEOREM EndsAllButInFlight == Spec => EndedButForThoseInFlight
<1>1. ASSUME FamilyInv, NEW r \in Request, RevokeFamily(r), NEW f, f = req[r].family
      PROVE  f \notin Live' \cup InFlight' \/ f \in InFlight
  <2>1. Revoke(RowsOfFamily(f)) /\ Finish(r)
    BY <1>1 DEF RevokeFamily
  <2> QED
    BY <1>1, <2>1, RevokedRowsEnd
<1>2. ASSUME FamilyInv, NEW r \in Request, RevokeAll(r), NEW f \in FamiliesOf(req[r].user)
      PROVE  f \notin Live' \cup InFlight' \/ f \in InFlight
  <2>1. Revoke(OpenRowsOf(req[r].user)) /\ Finish(r)
    BY <1>2 DEF RevokeAll, FamiliesOf
  <2>2. \A t \in RowsOfFamily(f) :
          refreshTokens[t].revoked \/ t \in OpenRowsOf(req[r].user)
    BY <1>2 DEF FamilyInv, FamilyHasOneOwner, FamiliesOf, RowsOfFamily, OpenRowsOf
  <2> QED
    BY <1>2, <2>1, <2>2, RevokedRowsEnd
<1>3. FamilyInv /\ [Next]_vars =>
        [\A r \in Request, f \in Family :
           Ending(r, f) => f \notin Live' \cup InFlight' \/ f \in InFlight]_vars
  BY <1>1, <1>2 DEF Ending
<1> QED
  BY <1>3, FamilyInvariance, PTL DEF Spec, EndedButForThoseInFlight
=============================================================================
