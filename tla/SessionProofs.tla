---------------------------- MODULE SessionProofs ----------------------------
(***************************************************************************)
(* What AuthService promises of one session and of one request: how many   *)
(* tokens of a login can be valid, what revoking one of them ends, that    *)
(* reuse detection ends a family for good, whose password a request        *)
(* changes, how often a reset token serves, and why a request comes to an  *)
(* end.                                                                    *)
(***************************************************************************)
EXTENDS AuthServiceProofs

(* Links between nodes: all of them are reached from one (without          *)
(* recursion: a set with that one, closed under the links, is everything), *)
(* no node has two children, a node has none.                              *)
ReachesAll(root, N, E) ==
  \A S \in SUBSET N : root \in S /\ (\A e \in E : e[1] \in S => e[2] \in S) => S = N
StaysInside(N, E) == \A e \in E : e[1] \in N => e[2] \in N
OneChildEach(N, E) == \A d, e \in E : d[1] = e[1] /\ e[1] \in N => d = e
Childless(x, E) == \A e \in E : e[1] # x

(* Then at most one node has no child. *)
LEMMA OneLeaf ==
  ASSUME NEW N, NEW E, NEW root \in N,
         ReachesAll(root, N, E), StaysInside(N, E), OneChildEach(N, E),
         NEW t \in N, Childless(t, E),
         NEW u \in N, Childless(u, E)
  PROVE  t = u
<1> USE DEF ReachesAll, StaysInside, OneChildEach, Childless
<1> DEFINE Above(P) == t \in P /\ \A e \in E : e[2] \in P /\ e[1] \in N => e[1] \in P
           A == {x \in N : \A P \in SUBSET N : Above(P) => x \in P}
<1> SUFFICES ASSUME t # u PROVE FALSE
  OBVIOUS
<1>1. t \in A /\ A \in SUBSET N
  OBVIOUS
<1>2. ASSUME NEW e \in E, e[2] \in A, e[1] \in N PROVE e[1] \in A
  BY <1>2
<1>3. ASSUME NEW x \in A, x # t PROVE \E e \in E : e[1] = x /\ e[2] \in A
  <2> SUFFICES ASSUME \A e \in E : e[1] = x => e[2] \notin A PROVE FALSE
    OBVIOUS
  <2>1. Above(A \ {x})
    <3>1. t \in A \ {x}
      BY <1>1, <1>3
    <3>2. ASSUME NEW e \in E, e[2] \in A \ {x}, e[1] \in N PROVE e[1] \in A \ {x}
      BY <1>2, <3>2
    <3> QED
      BY <3>1, <3>2
  <2>2. A \ {x} \in SUBSET N
    OBVIOUS
  <2>3. \A P \in SUBSET N : Above(P) => x \in P
    OBVIOUS
  <2> HIDE DEF Above, A
  <2>4. x \in A \ {x}
    BY <2>1, <2>2, <2>3
  <2> QED
    BY <2>4
<1>4. u \notin A
  BY <1>3
<1>5. root \in A
  <2> SUFFICES ASSUME root \notin A PROVE FALSE
    OBVIOUS
  <2>1. \A e \in E : e[1] \in N \ A => e[2] \in N \ A
    BY <1>2
  <2>2. N \ A = N
    BY <2>1
  <2> QED
    BY <1>1, <2>2
<1>6. ASSUME NEW e \in E, e[1] \in A PROVE e[2] \in A
  <2>1. PICK d \in E : d[1] = e[1] /\ d[2] \in A
    BY <1>3, <1>6
  <2>2. d = e
    BY <1>6, <2>1
  <2> QED
    BY <2>1, <2>2
<1>7. A = N
  BY <1>1, <1>5, <1>6
<1> QED
  BY <1>4, <1>7

-----------------------------------------------------------------------------
(* The tokens of a family *)

(* All tokens of a family come, by rotations, from its first one.          *)
RootedFamily(f) ==
  \E root \in RowsOfFamily(f) : ReachesAll(root, RowsOfFamily(f), rotations)
Rooted == \A f \in Family : RowsOfFamily(f) # {} => RootedFamily(f)

(* A login that has not issued its first token has its family to itself.   *)
FreshLogin ==
  \A r \in Request : req[r].at = "issue" /\ req[r].token = None =>
    /\ RowsOfFamily(req[r].family) = {}
    /\ \A s \in Issuing : req[s].family = req[r].family => s = r

SessionInv == ForksInv /\ FamilyHasOneOwner /\ FreshLogin /\ Rooted

LEMMA SessionFacts ==
  SessionInv => /\ Typed /\ OwnerInv /\ RotationInv /\ Rotating /\ RotatedIsRevoked
                /\ req \in [Request -> Locals] /\ IsTable(refreshTokens, TokenId, RefreshToken)
BY DEF SessionInv, ForksInv, RotationInv, OwnerInv, Typed, TypeOK

(* A family gains a row only by the INSERT of a request that issues for it.*)
LEMMA FamilyRowsStep ==
  ASSUME Typed, [Next]_vars, NEW f
  PROVE  \/ RowsOfFamily(f)' = RowsOfFamily(f) /\ ~\E r \in Request : Issue(r) /\ req[r].family = f
         \/ \E r \in Request, t \in TokenId \ Issued :
              /\ Issue(r) /\ req[r].family = f
              /\ RowsOfFamily(f)' = RowsOfFamily(f) \cup {t}
              /\ rotations' = IF req[r].token = None THEN rotations
                              ELSE rotations \cup {<<req[r].token, t>>}
<1>0. RowsGrow /\ (DOMAIN refreshTokens' = Issued \/ \E r \in Request : Issue(r))
  BY RowsStep
<1>1. CASE \A r \in Request : ~Issue(r)
  <2>1. DOMAIN refreshTokens' = Issued
    BY <1>0, <1>1
  <2>2. RowsOfFamily(f)' = RowsOfFamily(f)
    BY <1>0, <2>1 DEF RowsGrow, RowsOfFamily, Issued
  <2> QED
    BY <1>1, <2>2
<1>2. ASSUME NEW r \in Request, Issue(r)
      PROVE  \E t \in TokenId \ Issued :
               /\ RowsOfFamily(f)' = IF req[r].family = f THEN RowsOfFamily(f) \cup {t}
                                                          ELSE RowsOfFamily(f)
               /\ rotations' = IF req[r].token = None THEN rotations
                               ELSE rotations \cup {<<req[r].token, t>>}
  <2> PICK t \in TokenId \ Issued :
        /\ refreshTokens' = Insert(refreshTokens, t,
             [userId |-> req[r].user, family |-> req[r].family,
              revoked |-> FALSE, expired |-> FALSE])
        /\ rotations' = IF req[r].token = None THEN rotations
                        ELSE rotations \cup {<<req[r].token, t>>}
    BY <1>2 DEF Issue
  <2>1. /\ DOMAIN refreshTokens' = Issued \cup {t}
        /\ refreshTokens'[t].family = req[r].family
    BY DEF Insert, Issued
  <2>2. RowsOfFamily(f)' = {s \in Issued \cup {t} : refreshTokens'[s].family = f}
    BY <2>1 DEF RowsOfFamily, Issued
  <2>3. RowsOfFamily(f)' = IF req[r].family = f THEN RowsOfFamily(f) \cup {t}
                                                ELSE RowsOfFamily(f)
    BY <1>0, <2>1, <2>2 DEF RowsGrow, RowsOfFamily
  <2> QED
    BY <2>3
<1>3. ASSUME NEW r \in Request, Issue(r), NEW s \in Request, Issue(s)
      PROVE  r = s
  BY <1>3 DEF Issue, Finish, Idle, Typed, TypeOK
<1> QED
  BY <1>1, <1>2, <1>3

(* A login draws a family nobody has; whoever refreshes has a row of it.   *)
LEMMA FreshStep == SessionInv /\ [Next]_vars => FreshLogin'
<1> SUFFICES ASSUME SessionInv, [Next]_vars,
                    NEW r \in Request, req'[r].at = "issue", req'[r].token = None,
                    NEW f, f = req'[r].family
             PROVE  /\ RowsOfFamily(f)' = {}
                    /\ \A s \in Issuing' : req'[s].family = f => s = r
  BY DEF FreshLogin, RowsOfFamily, Issued
<1>0. /\ Typed /\ OwnerInv /\ Rotating /\ req \in [Request -> Locals]
      /\ RowsGrow /\ OpenedGrows
  BY SessionFacts, RowsStep, OpenedStep
<1>1. CASE req'[r] = req[r]
  <2>1. /\ RowsOfFamily(f) = {} /\ f \in DOMAIN opened
        /\ \A s \in Issuing : req[s].family = f => s = r
    BY <1>1 DEF SessionInv, FreshLogin, FamilyHasOneOwner, Issuing
  <2>2. ~\E s \in Request : Issue(s) /\ req[s].family = f
    <3> SUFFICES ASSUME NEW s \in Request, Issue(s), req[s].family = f PROVE FALSE
      OBVIOUS
    <3>1. s = r
      BY <2>1 DEF Issue, Issuing
    <3>2. req'[s] = Idle
      BY <1>0 DEF Issue, Finish
    <3> QED
      BY <1>1, <3>1, <3>2 DEF Issue, Idle
  <2>3. RowsOfFamily(f)' = {}
    BY <1>0, <2>1, <2>2, FamilyRowsStep
  <2>4. ASSUME NEW s \in Issuing', req'[s].family = f PROVE s = r
    <3>1. s \in Request /\ req'[s].at \in {"refresh.revoke", "issue"}
      BY DEF Issuing
    <3>2. CASE req'[s] = req[s]
      BY <2>1, <2>4, <3>1, <3>2 DEF Issuing
    <3>3. CASE Refresh(s)
      <4> PICK t \in Issued :
            Begin(s, [Idle EXCEPT !.at = "refresh.revoke", !.token = t,
              !.user = refreshTokens[t].userId, !.family = refreshTokens[t].family])
        BY <3>3 DEF Refresh
      <4>1. req'[s].family = refreshTokens[t].family
        BY <1>0, <3>1 DEF Begin, Idle
      <4> QED
        BY <2>1, <2>4, <4>1 DEF RowsOfFamily
    <3>4. CASE RefreshRevoke(s)
      <4>1. req'[s].family = req[s].family
        BY <1>0, <3>1, <3>4 DEF RefreshRevoke, Advance, Locals
      <4> QED
        BY <2>1, <2>4, <3>1, <3>4, <4>1 DEF RefreshRevoke, Issuing
    <3>5. CASE Login(s) \/ RegisterSave(s)
      <4> PICK g \in Family \ DOMAIN opened, u \in User :
            req' = [req EXCEPT ![s] = [Idle EXCEPT !.at = "issue", !.user = u, !.family = g]]
        BY <1>0, <3>1, <3>5, FamilyOpened
      <4>1. req'[s].family = g
        BY <1>0, <3>1 DEF Idle
      <4> QED
        BY <2>1, <2>4, <4>1
    <3> QED
      BY <1>0, <3>1, <3>2, <3>3, <3>4, <3>5, IssuingStep
  <2> QED
    BY <2>3, <2>4
<1>2. CASE RefreshRevoke(r)
  <2>1. req'[r].token = req[r].token /\ req[r].token \in Issued
    BY <1>0, <1>2 DEF RefreshRevoke, Advance, Locals, Rotating
  <2>2. None \notin Issued
    BY <1>0, NoneAssumption DEF Typed, TypeOK, IsTable, Issued
  <2> QED
    BY <2>1, <2>2
<1>3. CASE Login(r) \/ RegisterSave(r)
  <2> PICK g \in Family \ DOMAIN opened, u \in User, p \in Password :
        /\ opened' = Insert(opened, g, [user |-> u, password |-> p])
        /\ u \in DOMAIN users' /\ users'[u] = p
        /\ req' = [req EXCEPT ![r] = [Idle EXCEPT !.at = "issue", !.user = u, !.family = g]]
        /\ UNCHANGED refreshTokens
    BY <1>0, <1>3, FamilyOpened
  <2>1. f = g
    BY <1>0 DEF Idle
  <2>2. RowsOfFamily(f)' = {}
    BY <2>1 DEF SessionInv, FamilyHasOneOwner, RowsOfFamily, Issued
  <2>3. ASSUME NEW s \in Issuing', req'[s].family = f, s # r PROVE FALSE
    <3>1. s \in Request /\ req'[s] = req[s]
      BY <1>0, <2>3 DEF Issuing
    <3>2. s \in Issuing
      BY <3>1 DEF Issuing
    <3> QED
      BY <2>1, <2>3, <3>1, <3>2 DEF SessionInv, FamilyHasOneOwner
  <2> QED
    BY <2>2, <2>3
<1>4. ~Refresh(r)
  BY <1>0 DEF Refresh, Begin, Idle
<1> QED
  BY <1>0, <1>1, <1>2, <1>3, <1>4, IssuingStep

(* A rotation hangs its token on one of the family; the first token of a   *)
(* family finds it empty.                                                  *)
LEMMA RootedStep == SessionInv /\ [Next]_vars => Rooted'
<1> SUFFICES ASSUME SessionInv, [Next]_vars, NEW f \in Family, RowsOfFamily(f)' # {}
             PROVE  RootedFamily(f)'
  BY DEF Rooted
<1>0. Typed /\ Rotating /\ RotatedIsRevoked
  BY SessionFacts
<1>1. rotations \subseteq rotations'
  BY <1>0, RotationsStep
<1>2. CASE RowsOfFamily(f)' = RowsOfFamily(f)
  <2> PICK root \in RowsOfFamily(f) : ReachesAll(root, RowsOfFamily(f), rotations)
    BY <1>2 DEF SessionInv, Rooted, RootedFamily
  <2>1. ReachesAll(root, RowsOfFamily(f), rotations')
    BY <1>1 DEF ReachesAll
  <2> QED
    BY <1>2, <2>1 DEF RootedFamily
<1>3. ASSUME NEW r \in Request, NEW t \in TokenId \ Issued,
             Issue(r), req[r].family = f,
             RowsOfFamily(f)' = RowsOfFamily(f) \cup {t},
             rotations' = IF req[r].token = None THEN rotations
                          ELSE rotations \cup {<<req[r].token, t>>}
      PROVE  RootedFamily(f)'
  <2>1. CASE req[r].token = None
    <3>1. RowsOfFamily(f)' = {t}
      BY <1>3, <2>1 DEF SessionInv, FreshLogin, Issue
    <3> QED
      BY <3>1 DEF RootedFamily, ReachesAll
  <2>2. CASE req[r].token # None
    <3>1. req[r].token \in RowsOfFamily(f)
      BY <1>0, <1>3, <2>2 DEF Issue, Rotating, RowsOfFamily
    <3> PICK root \in RowsOfFamily(f) : ReachesAll(root, RowsOfFamily(f), rotations)
      BY <3>1 DEF SessionInv, Rooted, RootedFamily
    <3>2. ASSUME NEW S \in SUBSET (RowsOfFamily(f) \cup {t}), root \in S,
                 \A link \in rotations' : link[1] \in S => link[2] \in S
          PROVE  S = RowsOfFamily(f) \cup {t}
      <4> DEFINE old == S \cap RowsOfFamily(f)
      <4>1. ASSUME NEW link \in rotations, link[1] \in old PROVE link[2] \in old
        BY <1>0, <1>1, <3>2, <4>1 DEF RotatedIsRevoked, RowsOfFamily
      <4>2. old = RowsOfFamily(f)
        BY <3>2, <4>1 DEF ReachesAll
      <4>3. t \in S
        <5>1. <<req[r].token, t>> \in rotations'
          BY <1>3, <2>2
        <5>2. req[r].token \in S
          BY <3>1, <4>2
        <5> QED
          BY <3>2, <5>1, <5>2
      <4> QED
        BY <4>2, <4>3
    <3> QED
      BY <1>3, <3>2 DEF RootedFamily, ReachesAll
  <2> QED
    BY <2>1, <2>2
<1> QED
  BY <1>0, <1>2, <1>3, FamilyRowsStep

LEMMA SessionInvariance == Spec => []SessionInv
<1>1. Init => SessionInv
  <2> SUFFICES ASSUME Init PROVE SessionInv
    OBVIOUS
  <2>1. Issued = {} /\ rotations = {} /\ \A r \in Request : req[r].at = "idle"
    BY DEF Init, Issued, EmptyTable, Idle
  <2>2. ForksInv
    <3>1. RotationInv
      BY <2>1, InitTyped DEF RotationInv, Rotating, RotatedIsRevoked
    <3>2. IsFiniteSet(rotations)
      BY <2>1, FS_EmptySet
    <3> QED
      BY <2>1, <3>1, <3>2 DEF ForksInv, ForksNeedARace
  <2> QED
    BY <2>1, <2>2 DEF SessionInv, FamilyHasOneOwner, FreshLogin, Rooted, RowsOfFamily, Issuing
<1>2. SessionInv /\ [Next]_vars => SessionInv'
  <2> SUFFICES ASSUME SessionInv, [Next]_vars PROVE SessionInv'
    OBVIOUS
  <2>1. RotationInv /\ OwnerInv /\ ForksInv
    BY SessionFacts DEF SessionInv
  <2>2. ForksInv'
    BY <2>1, TypedStep, RotatingStep, RotatedStep, ForksStep DEF ForksInv, RotationInv
  <2> QED
    BY <2>1, <2>2, OwnerStep, FreshStep, RootedStep DEF SessionInv
<1> QED
  BY <1>1, <1>2, PTL DEF Spec

(* Two elements make a set of at least two. *)
LEMMA TwoElements ==
  ASSUME NEW S, IsFiniteSet(S), NEW a \in S, NEW b \in S, a # b
  PROVE  Cardinality(S) >= 2
<1>1. /\ IsFiniteSet(S \ {a}) /\ Cardinality(S \ {a}) = Cardinality(S) - 1
  BY FS_RemoveElement
<1>2. b \in S \ {a}
  OBVIOUS
<1>3. Cardinality(S \ {a}) # 0
  BY <1>1, <1>2, FS_EmptySet
<1> QED
  BY <1>1, <1>3, FS_CardinalityType

(* A token exchanged twice, or exchanged and about to be, forks its family.*)
LEMMA ExchangedTwice ==
  ASSUME SessionInv, NEW f, NEW x \in RowsOfFamily(f), ~Forked(f)
  PROVE  /\ \A d, e \in Made(x) : d = e
         /\ Made(x) = {} \/ UnderWay(x) = {}
<1>1. /\ IsFiniteSet(Made(x)) /\ Cardinality(Made(x)) \in Nat
      /\ IsFiniteSet(UnderWay(x)) /\ Cardinality(UnderWay(x)) \in Nat
  <2>1. Made(x) \subseteq rotations /\ UnderWay(x) \subseteq Request
    BY DEF Made, UnderWay, Issuing
  <2>2. IsFiniteSet(Made(x)) /\ IsFiniteSet(UnderWay(x))
    BY <2>1, FS_Subset, RequestAssumption DEF SessionInv, ForksInv
  <2> QED
    BY <2>2, FS_CardinalityType
<1>2. ~(Cardinality(Made(x)) + Cardinality(UnderWay(x)) > 1)
  BY DEF Forked, Exchanges, Made, UnderWay
<1>3. ASSUME NEW d \in Made(x), NEW e \in Made(x) PROVE d = e
  BY <1>1, <1>2, TwoElements
<1>4. Cardinality(Made(x)) = 0 \/ Cardinality(UnderWay(x)) = 0
  BY <1>1, <1>2
<1> QED
  BY <1>1, <1>3, <1>4, FS_EmptySet

(* In a family without a fork one token is the newest: the only one not    *)
(* exchanged.                                                              *)
LEMMA NewestToken ==
  ASSUME SessionInv, NEW f, ~Forked(f),
         NEW t \in RowsOfFamily(f), Made(t) = {},
         NEW u \in RowsOfFamily(f), Made(u) = {}
  PROVE  t = u
<1>0. /\ RotatedIsRevoked /\ f \in Family
  <2>1. RotatedIsRevoked /\ IsTable(refreshTokens, TokenId, RefreshToken)
    BY SessionFacts
  <2> QED
    BY <2>1 DEF IsTable, RefreshToken, RowsOfFamily, Issued
<1>1. PICK root \in RowsOfFamily(f) : ReachesAll(root, RowsOfFamily(f), rotations)
  BY <1>0 DEF SessionInv, Rooted, RootedFamily
<1>2. StaysInside(RowsOfFamily(f), rotations)
  BY <1>0 DEF StaysInside, RotatedIsRevoked, RowsOfFamily
<1>3. OneChildEach(RowsOfFamily(f), rotations)
  <2> SUFFICES ASSUME NEW d \in rotations, NEW e \in rotations,
                      d[1] = e[1], e[1] \in RowsOfFamily(f)
               PROVE  d = e
    BY DEF OneChildEach
  <2>1. d \in Made(e[1]) /\ e \in Made(e[1])
    BY DEF Made
  <2> QED
    BY <2>1, ExchangedTwice
<1>4. Childless(t, rotations) /\ Childless(u, rotations)
  BY DEF Childless, Made
<1> QED
  BY <1>1, <1>2, <1>3, <1>4, OneLeaf

(* A token that is not revoked has not been exchanged. *)
LEMMA OpenIsUnexchanged ==
  ASSUME SessionInv, NEW t \in Issued, ~refreshTokens[t].revoked
  PROVE  Made(t) = {}
BY SessionFacts DEF Made, RotatedIsRevoked

(* A login has one session unless overlapping refreshes divided it         *)
(* (auth.service.ts:68-88, 163-164).                                       *)
THEOREM OneSession == Spec => []TwoSessionsNeedAFork
<1>1. SessionInv => TwoSessionsNeedAFork
  <2> SUFFICES ASSUME SessionInv, NEW s \in Issued, NEW t \in Issued,
                      refreshTokens[s].family = refreshTokens[t].family,
                      ~refreshTokens[s].revoked, ~refreshTokens[t].revoked,
                      ~Forked(refreshTokens[s].family)
               PROVE  s = t
    BY DEF TwoSessionsNeedAFork
  <2>1. Made(s) = {} /\ Made(t) = {}
    BY OpenIsUnexchanged
  <2>2. /\ s \in RowsOfFamily(refreshTokens[s].family)
        /\ t \in RowsOfFamily(refreshTokens[s].family)
    BY DEF RowsOfFamily
  <2> QED
    BY <2>1, <2>2, NewestToken
<1> QED
  BY <1>1, SessionInvariance, PTL

(* An UPDATE of the newest token of an undivided login ends the login.     *)
LEMMA NewestRevoked ==
  ASSUME SessionInv, NEW r \in Request, Finish(r) \/ Advance(r, "logout.blacklist"),
         NEW f, ~Forked(f), NEW t \in RowsOfFamily(f), ~(Exchanges(t) > 0), Revoke({t})
  PROVE  f \notin Live' \cup InFlight'
<1>0. /\ Typed /\ Rotating /\ req \in [Request -> Locals]
      /\ IsTable(refreshTokens, TokenId, RefreshToken)
  BY SessionFacts
<1>1. Made(t) = {} /\ UnderWay(t) = {}
  <2>1. Made(t) \subseteq rotations /\ UnderWay(t) \subseteq Request
    BY DEF Made, UnderWay, Issuing
  <2>2. IsFiniteSet(Made(t)) /\ IsFiniteSet(UnderWay(t))
    BY <2>1, FS_Subset, RequestAssumption DEF SessionInv, ForksInv
  <2>3. Cardinality(Made(t)) \in Nat /\ Cardinality(UnderWay(t)) \in Nat
    BY <2>2, FS_CardinalityType
  <2>4. Cardinality(Made(t)) = 0 /\ Cardinality(UnderWay(t)) = 0
    BY <2>3 DEF Exchanges, Made, UnderWay
  <2> QED
    BY <2>2, <2>4, FS_EmptySet
<1>2. ASSUME NEW u \in RowsOfFamily(f), Made(u) = {} PROVE u = t
  BY <1>1, <1>2, NewestToken
<1>3. ASSUME f \in Live' PROVE FALSE
  <2> PICK u \in DOMAIN refreshTokens' :
        refreshTokens'[u].family = f /\ ~refreshTokens'[u].revoked
    BY <1>3 DEF Live, Usable, Issued
  <2>1. u \in RowsOfFamily(f) /\ ~refreshTokens[u].revoked /\ u # t
    BY <1>0, RevokeRows DEF RowsOfFamily
  <2>2. Made(u) = {}
    BY <2>1, OpenIsUnexchanged DEF RowsOfFamily
  <2> QED
    BY <1>2, <2>1, <2>2
<1>4. ASSUME f \in InFlight' PROVE FALSE
  <2> PICK s \in Request :
        req'[s].at \in {"refresh.revoke", "issue"} /\ req'[s].family = f
    BY <1>4 DEF InFlight, Issuing
  <2>1. s # r /\ req'[s] = req[s]
    <3>1. CASE Finish(r)
      BY <1>0, <3>1 DEF Finish, Idle
    <3>2. CASE Advance(r, "logout.blacklist")
      BY <1>0, <3>2 DEF Advance, Locals
    <3> QED
      BY <3>1, <3>2
  <2> PICK u : u = req[s].token
    OBVIOUS
  <2>2. u # None
    <3>1. CASE req[s].at = "refresh.revoke"
      BY <1>0, <3>1, NoneAssumption DEF Rotating, IsTable, Issued
    <3>2. CASE req[s].at = "issue"
      BY <2>1, <3>2 DEF SessionInv, FreshLogin
    <3> QED
      BY <2>1, <3>1, <3>2
  <2>3. u \in RowsOfFamily(f) /\ s \in UnderWay(u)
    BY <1>0, <2>1, <2>2 DEF Rotating, RowsOfFamily, UnderWay, Issuing
  <2>4. Made(u) # {}
    BY <1>1, <1>2, <2>3
  <2> QED
    BY <2>3, <2>4, ExchangedTwice
<1> QED
  BY <1>3, <1>4

(* Two statements revoke a row their request names: revokeSession's UPDATE *)
(* and logout's.                                                           *)
LEMMA RowRevoked ==
  ASSUME Typed, Entitled, Next, NEW r \in Request, RevokesItsRow(r)
  PROVE  /\ req[r].token \in Issued
         /\ Revoke({req[r].token})
         /\ Finish(r) \/ Advance(r, "logout.blacklist")
<1>0. req \in [Request -> Locals] /\ IsTable(refreshTokens, TokenId, RefreshToken)
  BY DEF Typed, TypeOK
<1>1. SessionRevoke(r) \/ LogoutRevoke(r)
  <2>1. ASSUME NEW s \in Request, Call(s) \/ Fail(s) PROVE FALSE
    BY <2>1 DEF RevokesItsRow, Call, Register, Login, Refresh, RefreshReplay, Logout,
      LogoutAll, RevokeSession, ResetPassword, ChangePassword, Fail, tables
  <2>2. ASSUME ForgotPassword \/ Expire \/ ExpireReset PROVE FALSE
    BY <2>2 DEF RevokesItsRow, ForgotPassword, Expire, ExpireReset, Idle
  <2>3. ASSUME NEW s \in Request, Proceed(s) PROVE SessionRevoke(r) \/ LogoutRevoke(r)
    <3>1. CASE s = r
      BY <2>3, <3>1 DEF RevokesItsRow, Proceed, RegisterSave, RegisterConflict, Issue,
        RefreshRevoke, RevokeFamily, LogoutBlacklist, RevokeAll, SessionFind,
        ResetUpdate, ResetUsed, ChangeVerify, ChangeUpdate
    <3>2. ASSUME s # r PROVE req'[r] = req[r]
      BY <1>0, <2>3, <3>2 DEF Proceed, RegisterSave, RegisterConflict, Issue,
        RefreshRevoke, RevokeFamily, LogoutRevoke, LogoutBlacklist, RevokeAll, SessionFind,
        SessionRevoke, ResetUpdate, ResetUsed, ChangeVerify, ChangeUpdate, Advance, Finish
    <3> QED
      BY <3>1, <3>2 DEF RevokesItsRow, Idle
  <2> QED
    BY <2>1, <2>2, <2>3 DEF Next
<1>2. CASE SessionRevoke(r)
  BY <1>2 DEF SessionRevoke, Entitled
<1>3. CASE LogoutRevoke(r)
  <2>1. OwnRow(req[r].token, req[r].user) = {} => refreshTokens' = refreshTokens
    BY <1>0, <1>3 DEF LogoutRevoke, Revoke, IsTable, Issued
  <2>2. OwnRow(req[r].token, req[r].user) = {req[r].token} /\ req[r].token \in Issued
    BY <2>1 DEF RevokesItsRow, OwnRow
  <2> QED
    BY <1>3, <2>2 DEF LogoutRevoke
<1> QED
  BY <1>1, <1>2, <1>3

(* Whoever revokes the newest token of an undivided login, by its row or   *)
(* by logging out with it, ends the login (auth.service.ts:91-93, 163-164, *)
(* 180-187).                                                               *)
THEOREM RevokedSessions == Spec => RevokedSessionEnds
<1>1. ASSUME SessionInv, Entitled, Next, NEW r \in Request, RevokesItsRow(r),
             NEW t, t = req[r].token, NEW f, f = refreshTokens[t].family,
             ~(Exchanges(t) > 0), ~Forked(f)
      PROVE  f \notin Live' \cup InFlight'
  <2>1. Typed
    BY <1>1, SessionFacts
  <2>2. /\ t \in Issued /\ Revoke({t})
        /\ Finish(r) \/ Advance(r, "logout.blacklist")
    BY <1>1, <2>1, RowRevoked
  <2>3. t \in RowsOfFamily(f)
    BY <1>1, <2>2 DEF RowsOfFamily
  <2> QED
    BY <1>1, <2>2, <2>3, NewestRevoked
<1>2. SessionInv /\ Entitled /\ [Next]_vars =>
        [\A r \in Request : RevokesItsRow(r) =>
           LET t == req[r].token
               f == refreshTokens[t].family
           IN  f \notin Live' \cup InFlight' \/ Exchanges(t) > 0 \/ Forked(f)]_vars
  BY <1>1 DEF vars
<1>3. Init => EntitledInv
  BY InitTyped DEF Init, EntitledInv, Entitled, OwnerInv, FamilyHasOneOwner, Issued,
    Issuing, EmptyTable, Idle
<1>4. EntitledInv /\ [Next]_vars => EntitledInv'
  BY TypedStep, OwnerStep, EntitledStep DEF EntitledInv, OwnerInv
<1>5. EntitledInv => Entitled
  BY DEF EntitledInv
<1> QED
  BY <1>2, <1>3, <1>4, <1>5, SessionInvariance, PTL DEF Spec, RevokedSessionEnds

-----------------------------------------------------------------------------
(* Families that reuse detection has ended *)

(* Whoever could still issue for such a family was in flight when it was   *)
(* ended, and then it does not count as ended; afterwards nobody finds a   *)
(* token of it that is not revoked.                                        *)
PurgedDead ==
  /\ purged \subseteq DOMAIN opened
  /\ PurgedFamilyStaysDead
  /\ \A r \in Issuing : req[r].family \notin purged

PurgedInv == EntitledInv /\ PurgedDead

(* A family is ended by the UPDATE of reuse detection, when nothing of it  *)
(* is in flight.                                                           *)
LEMMA PurgeHappens ==
  ASSUME [Next]_vars
  PROVE  \/ purged' = purged
         \/ \E r \in Request :
              RevokeFamily(r) /\ purged' = purged \cup ({req[r].family} \ InFlight)
BY DEF Next, Call, Register, Login, Refresh, RefreshReplay, Logout, LogoutAll,
  RevokeSession, ResetPassword, ChangePassword, Proceed, RegisterSave, RegisterConflict,
  Issue, RefreshRevoke, RevokeFamily, Purge, LogoutRevoke, LogoutBlacklist, RevokeAll,
  SessionFind, SessionRevoke, ResetUpdate, ResetUsed, ChangeVerify, ChangeUpdate,
  Fail, ForgotPassword, Expire, ExpireReset, OpenFamily, history, vars

LEMMA PurgedStep ==
  ASSUME PurgedInv, [Next]_vars
  PROVE  PurgedDead'
<1>0. /\ Typed /\ RowsGrow /\ OpenedGrows
      /\ req \in [Request -> Locals] /\ IsTable(refreshTokens, TokenId, RefreshToken)
  BY RowsStep, OpenedStep DEF PurgedInv, EntitledInv, OwnerInv, Typed, TypeOK
<1>1. purged' \subseteq DOMAIN opened'
  BY <1>0, PurgeHappens
     DEF RevokeFamily, PurgedInv, PurgedDead, EntitledInv, Entitled, OpenedGrows
<1>2. ASSUME NEW t \in DOMAIN refreshTokens', refreshTokens'[t].family \in purged'
      PROVE  refreshTokens'[t].revoked
  <2>1. CASE t \in Issued /\ refreshTokens[t].family \in purged
    BY <1>0, <2>1 DEF RowsGrow, PurgedInv, PurgedDead, PurgedFamilyStaysDead
  <2>2. CASE t \in Issued /\ refreshTokens[t].family \notin purged
    <3> PICK r \in Request :
          RevokeFamily(r) /\ purged' = purged \cup ({req[r].family} \ InFlight)
      BY <1>0, <1>2, <2>2, PurgeHappens DEF RowsGrow
    <3>1. t \in RowsOfFamily(req[r].family)
      BY <1>0, <1>2, <2>2 DEF RowsGrow, RowsOfFamily
    <3> QED
      BY <1>0, <3>1, RevokeRows DEF RevokeFamily
  <2>3. CASE t \notin Issued
    <3> PICK r \in Request : Issue(r)
      BY <1>0, <1>2, <2>3, RowsStep DEF Issued
    <3>1. purged' = purged /\ refreshTokens'[t].family = req[r].family
      BY <1>2, <2>3 DEF Issue, Insert, Issued
    <3> QED
      BY <1>2, <3>1 DEF Issue, Issuing, PurgedInv, PurgedDead
  <2> QED
    BY <2>1, <2>2, <2>3
<1>3. ASSUME NEW r \in Request, req'[r].at \in {"refresh.revoke", "issue"}
      PROVE  req'[r].family \notin purged'
  <2>1. CASE req'[r] = req[r]
    <3>1. r \in Issuing
      BY <1>3, <2>1 DEF Issuing
    <3>2. req[r].family \notin purged /\ req[r].family \in InFlight
      BY <3>1 DEF PurgedInv, PurgedDead, InFlight
    <3> QED
      BY <2>1, <3>2, PurgeHappens
  <2>2. ASSUME NEW s \in Request, RevokeFamily(s) PROVE req'[r] = req[r]
    BY <1>0, <1>3, <2>2 DEF RevokeFamily, Finish, Idle
  <2>3. CASE Refresh(r)
    <3> PICK t \in Issued :
          /\ Rotatable(t)
          /\ Begin(r, [Idle EXCEPT !.at = "refresh.revoke", !.token = t,
               !.user = refreshTokens[t].userId, !.family = refreshTokens[t].family])
      BY <2>3 DEF Refresh
    <3>1. req'[r].family = refreshTokens[t].family
      BY <1>0 DEF Begin, Idle
    <3>2. refreshTokens[t].family \notin purged
      BY DEF Rotatable, PurgedInv, PurgedDead, PurgedFamilyStaysDead
    <3> QED
      BY <2>1, <2>2, <3>1, <3>2, PurgeHappens
  <2>4. CASE RefreshRevoke(r)
    <3>1. req'[r].family = req[r].family
      BY <1>0, <2>4 DEF RefreshRevoke, Advance, Locals
    <3>2. req[r].family \notin purged
      BY <2>4 DEF RefreshRevoke, Issuing, PurgedInv, PurgedDead
    <3> QED
      BY <2>1, <2>2, <3>1, <3>2, PurgeHappens
  <2>5. CASE Login(r) \/ RegisterSave(r)
    <3> PICK g \in Family \ DOMAIN opened, u \in User :
          req' = [req EXCEPT ![r] = [Idle EXCEPT !.at = "issue", !.user = u, !.family = g]]
      BY <1>0, <2>5, FamilyOpened
    <3>1. req'[r].family = g /\ g \notin purged
      BY <1>0 DEF Idle, PurgedInv, PurgedDead
    <3> QED
      BY <2>1, <2>2, <3>1, PurgeHappens
  <2> QED
    BY <1>0, <1>3, <2>1, <2>3, <2>4, <2>5, IssuingStep
<1> QED
  BY <1>1, <1>2, <1>3 DEF PurgedDead, PurgedFamilyStaysDead, Issued, Issuing

(* "the entire token family is revoked, forcing re-authentication": for    *)
(* good, unless a refresh or login of the family was in flight when the    *)
(* reuse was detected (auth.service.ts:62-64, 74-78).                      *)
THEOREM PurgedForGood == Spec => []PurgedFamilyStaysDead
<1>1. Init => PurgedInv
  BY InitTyped DEF Init, PurgedInv, PurgedDead, PurgedFamilyStaysDead, EntitledInv, Entitled,
    OwnerInv, FamilyHasOneOwner, Issued, Issuing, EmptyTable, Idle
<1>2. PurgedInv /\ [Next]_vars => PurgedInv'
  BY TypedStep, OwnerStep, EntitledStep, PurgedStep DEF PurgedInv, EntitledInv, OwnerInv
<1>3. PurgedInv => PurgedFamilyStaysDead
  BY DEF PurgedInv, PurgedDead
<1> QED
  BY <1>1, <1>2, <1>3, PTL DEF Spec

-----------------------------------------------------------------------------
(* The accounts behind sessions, reset tokens and requests *)

(* The foreign keys on users, and what a handler may take for granted of   *)
(* the rows it has read: no statement meets an account that is not there,  *)
(* and a reset works on the account its token was made for.                *)
Referenced ==
  /\ \A t \in Issued : refreshTokens[t].userId \in DOMAIN users
  /\ \A k \in DOMAIN authTokens : authTokens[k].userId \in DOMAIN users
  /\ \A r \in Request :
       /\ req[r].at \notin {"idle", "register.save"} => req[r].user \in DOMAIN users
       /\ req[r].at \in {"reset.password", "reset.used"} =>
            /\ req[r].reset \in DOMAIN authTokens
            /\ authTokens[req[r].reset].userId = req[r].user

LEMMA ResetRowsGrow ==
  ASSUME Typed, [Next]_vars
  PROVE  /\ DOMAIN authTokens \subseteq DOMAIN authTokens'
         /\ \A k \in DOMAIN authTokens : authTokens'[k].userId = authTokens[k].userId
         /\ \A k \in DOMAIN authTokens' \ DOMAIN authTokens :
              authTokens'[k].userId \in DOMAIN users
<1>0. IsTable(authTokens, ResetId, AuthToken)
  BY DEF Typed, TypeOK
<1>1. ASSUME NEW r \in Request, ResetUsed(r)
      PROVE  /\ DOMAIN authTokens' = DOMAIN authTokens
             /\ \A k \in DOMAIN authTokens : authTokens'[k].userId = authTokens[k].userId
  BY <1>0, <1>1 DEF ResetUsed, IsTable, AuthToken
<1>2. CASE ForgotPassword
  <2> PICK u \in DOMAIN users, j \in ResetId \ DOMAIN authTokens :
        authTokens' = Insert(authTokens, j, [userId |-> u, used |-> FALSE, expired |-> FALSE])
    BY <1>2 DEF ForgotPassword
  <2> QED
    BY DEF Insert
<1>3. CASE ExpireReset
  BY <1>0, <1>3 DEF ExpireReset, IsTable, AuthToken
<1>4. ASSUME NEW r \in Request, Call(r) \/ Proceed(r) \/ Fail(r), ~ResetUsed(r)
      PROVE  UNCHANGED authTokens
  BY <1>4 DEF Call, Register, Login, Refresh, RefreshReplay, Logout, LogoutAll,
    RevokeSession, ResetPassword, ChangePassword, Proceed, RegisterSave, RegisterConflict,
    Issue, RefreshRevoke, RevokeFamily, LogoutRevoke, LogoutBlacklist, RevokeAll,
    SessionFind, SessionRevoke, ResetUpdate, ChangeVerify, ChangeUpdate, Fail, tables
<1>5. CASE Expire \/ UNCHANGED vars
  BY <1>5 DEF Expire, vars
<1> QED
  BY <1>1, <1>2, <1>3, <1>4, <1>5 DEF Next

(* A request that begins finds its account in a row it has just read.      *)
LEMMA CallFindsAccount ==
  ASSUME Typed, Referenced, NEW r \in Request, Call(r)
  PROVE  /\ req'[r].at # "register.save" => req'[r].user \in DOMAIN users
         /\ req'[r].at \in {"reset.password", "reset.used"} =>
              /\ req'[r].reset \in DOMAIN authTokens
              /\ authTokens[req'[r].reset].userId = req'[r].user
<1>0. req \in [Request -> Locals] /\ IsTable(users, User, Password)
  BY DEF Typed, TypeOK
<1>1. CASE Register(r)
  BY <1>0, <1>1 DEF Register, Begin, Idle
<1>2. CASE Login(r)
  <2> PICK u \in DOMAIN users, f \in Family :
        Begin(r, [Idle EXCEPT !.at = "issue", !.user = u, !.family = f])
    BY <1>2 DEF Login
  <2>1. req'[r].at = "issue" /\ req'[r].user = u
    BY <1>0 DEF Begin, Idle
  <2> QED
    BY <2>1
<1>3. CASE Refresh(r) \/ RefreshReplay(r)
  <2> PICK t \in Issued, stage \in {"refresh.revoke", "refresh.reuse"} :
        Begin(r, [Idle EXCEPT !.at = stage, !.token = t,
          !.user = refreshTokens[t].userId, !.family = refreshTokens[t].family])
    BY <1>3 DEF Refresh, RefreshReplay
  <2>1. req'[r].at = stage /\ req'[r].user = refreshTokens[t].userId
    BY <1>0 DEF Begin, Idle
  <2> QED
    BY <2>1 DEF Referenced
<1>4. ASSUME NEW u, u \in BearerUsers \/ \E jti \in Issued : Authenticated(jti, u)
      PROVE  u \in DOMAIN users
  BY <1>4 DEF BearerUsers, Authenticated, Referenced, Issued
<1>5. CASE Logout(r)
  <2> PICK u \in User, jti \in Issued, t \in TokenId :
        /\ Authenticated(jti, u)
        /\ Begin(r, [Idle EXCEPT !.at = "logout.revoke", !.user = u,
             !.jti = jti, !.token = t])
    BY <1>5 DEF Logout
  <2>1. req'[r].at = "logout.revoke" /\ req'[r].user = u
    BY <1>0 DEF Begin, Idle
  <2> QED
    BY <1>4, <2>1
<1>6. CASE LogoutAll(r)
  <2> PICK u \in BearerUsers : Begin(r, [Idle EXCEPT !.at = "logoutAll", !.user = u])
    BY <1>6 DEF LogoutAll
  <2>1. req'[r].at = "logoutAll" /\ req'[r].user = u
    BY <1>0 DEF Begin, Idle
  <2> QED
    BY <1>4, <2>1
<1>7. CASE RevokeSession(r)
  <2> PICK u \in BearerUsers, t \in TokenId :
        Begin(r, [Idle EXCEPT !.at = "session.find", !.user = u, !.token = t])
    BY <1>7 DEF RevokeSession
  <2>1. req'[r].at = "session.find" /\ req'[r].user = u
    BY <1>0 DEF Begin, Idle
  <2> QED
    BY <1>4, <2>1
<1>8. CASE ChangePassword(r)
  <2> PICK u \in BearerUsers, p \in Password, q \in Password :
        Begin(r, [Idle EXCEPT !.at = "change.find", !.user = u,
          !.current = p, !.password = q])
    BY <1>8 DEF ChangePassword
  <2>1. req'[r].at = "change.find" /\ req'[r].user = u
    BY <1>0 DEF Begin, Idle
  <2> QED
    BY <1>4, <2>1
<1>9. CASE ResetPassword(r)
  <2> PICK k \in DOMAIN authTokens, p \in Password :
        Begin(r, [Idle EXCEPT !.at = "reset.password", !.reset = k,
          !.user = authTokens[k].userId, !.password = p])
    BY <1>9 DEF ResetPassword
  <2>1. req'[r].reset = k /\ req'[r].user = authTokens[k].userId
    BY <1>0 DEF Begin, Idle
  <2> QED
    BY <2>1 DEF Referenced
<1> QED
  BY <1>1, <1>2, <1>3, <1>5, <1>6, <1>7, <1>8, <1>9 DEF Call

(* A step is a step of one request, or of none.                            *)
LEMMA OthersStay ==
  ASSUME Typed, [Next]_vars, NEW r \in Request
  PROVE  req'[r] = req[r] \/ Call(r) \/ Proceed(r) \/ Fail(r)
<1>0. req \in [Request -> Locals]
  BY DEF Typed, TypeOK
<1>1. ASSUME NEW s \in Request, Call(s) \/ Proceed(s) \/ Fail(s), s # r
      PROVE  req'[r] = req[r]
  BY <1>0, <1>1 DEF Call, Register, Login, Refresh, RefreshReplay, Logout, LogoutAll,
    RevokeSession, ResetPassword, ChangePassword, Proceed, RegisterSave, RegisterConflict,
    Issue, RefreshRevoke, RevokeFamily, LogoutRevoke, LogoutBlacklist, RevokeAll,
    SessionFind, SessionRevoke, ResetUpdate, ResetUsed, ChangeVerify, ChangeUpdate,
    Fail, Begin, Advance, Finish
<1>2. CASE ForgotPassword \/ Expire \/ ExpireReset \/ UNCHANGED vars
  BY <1>2 DEF ForgotPassword, Expire, ExpireReset, vars
<1> QED
  BY <1>1, <1>2 DEF Next

(* A statement of a request keeps the account and the reset token it works *)
(* for; registering, it works for the account it has just made.            *)
LEMMA ProceedKeepsAccount ==
  ASSUME Typed, Referenced, NEW r \in Request, Proceed(r) \/ Fail(r)
  PROVE  /\ req'[r].at \notin {"idle", "register.save"} => req'[r].user \in DOMAIN users'
         /\ req'[r].at \in {"reset.password", "reset.used"} =>
              /\ req[r].at \in {"reset.password", "reset.used"}
              /\ req'[r].reset = req[r].reset
              /\ req'[r].user = req[r].user
<1>0. req \in [Request -> Locals]
  BY DEF Typed, TypeOK
<1>1. CASE Finish(r)
  BY <1>0, <1>1 DEF Finish, Idle
<1>2. CASE RegisterSave(r)
  BY <1>0, <1>2 DEF RegisterSave, Insert, Idle
<1>3. ASSUME NEW s \in Statement, Advance(r, s), req[r].at \notin {"idle", "register.save"},
             s \in {"reset.password", "reset.used"} => req[r].at = "reset.password",
             DOMAIN users \subseteq DOMAIN users'
      PROVE  /\ req'[r].user \in DOMAIN users'
             /\ req'[r].at \in {"reset.password", "reset.used"} =>
                  /\ req[r].at \in {"reset.password", "reset.used"}
                  /\ req'[r].reset = req[r].reset
                  /\ req'[r].user = req[r].user
  BY <1>0, <1>3 DEF Advance, Locals, Referenced
<1>4. CASE RefreshRevoke(r) \/ LogoutRevoke(r) \/ SessionFind(r) \/ ResetUsed(r) \/ ChangeVerify(r)
  BY <1>1, <1>3, <1>4 DEF RefreshRevoke, LogoutRevoke, SessionFind, ResetUsed, ChangeVerify,
    Statement, tables
<1>5. CASE ResetUpdate(r) \/ ChangeUpdate(r)
  BY <1>1, <1>3, <1>5 DEF ResetUpdate, ChangeUpdate, Statement
<1> QED
  BY <1>1, <1>2, <1>4, <1>5 DEF Proceed, RegisterConflict, Issue, RevokeFamily,
    LogoutBlacklist, RevokeAll, SessionRevoke, Fail

LEMMA ReferencedStep == Typed /\ Referenced /\ [Next]_vars => Referenced'
<1> SUFFICES ASSUME Typed, Referenced, [Next]_vars PROVE Referenced'
  OBVIOUS
<1>0. /\ RowsGrow
      /\ DOMAIN users \subseteq DOMAIN users'
      /\ req \in [Request -> Locals]
  BY RowsStep, PasswordStep DEF Typed, TypeOK
<1>1. ASSUME NEW t \in DOMAIN refreshTokens'
      PROVE  refreshTokens'[t].userId \in DOMAIN users'
  <2>1. CASE t \in Issued
    BY <1>0, <2>1 DEF RowsGrow, Referenced
  <2>2. ASSUME t \notin Issued, NEW r \in Request, Issue(r)
        PROVE  refreshTokens'[t].userId \in DOMAIN users
    <3>1. refreshTokens'[t].userId = req[r].user
      BY <1>1, <2>2 DEF Issue, Insert, Issued
    <3> QED
      BY <2>2, <3>1 DEF Issue, Referenced
  <2> QED
    BY <1>0, <1>1, <2>1, <2>2, RowsStep
<1>2. /\ DOMAIN authTokens \subseteq DOMAIN authTokens'
      /\ \A k \in DOMAIN authTokens : authTokens'[k].userId = authTokens[k].userId
      /\ \A k \in DOMAIN authTokens' \ DOMAIN authTokens :
           authTokens'[k].userId \in DOMAIN users
  BY ResetRowsGrow
<1>3. ASSUME NEW r \in Request
      PROVE  /\ req'[r].at \notin {"idle", "register.save"} => req'[r].user \in DOMAIN users'
             /\ req'[r].at \in {"reset.password", "reset.used"} =>
                  /\ req'[r].reset \in DOMAIN authTokens
                  /\ authTokens[req'[r].reset].userId = req'[r].user
  <2>1. CASE req'[r] = req[r]
    BY <1>0, <2>1 DEF Referenced
  <2>2. CASE Call(r)
    BY <1>0, <2>2, CallFindsAccount
  <2>3. CASE Proceed(r) \/ Fail(r)
    BY <2>3, ProceedKeepsAccount DEF Referenced
  <2> QED
    BY <2>1, <2>2, <2>3, OthersStay
<1>4. \A k \in DOMAIN authTokens' : authTokens'[k].userId \in DOMAIN users'
  BY <1>0, <1>2 DEF Referenced
<1>5. \A r \in Request : req'[r].at \in {"reset.password", "reset.used"} =>
        /\ req'[r].reset \in DOMAIN authTokens'
        /\ authTokens'[req'[r].reset].userId = req'[r].user
  BY <1>2, <1>3
<1> QED
  BY <1>1, <1>3, <1>4, <1>5 DEF Referenced, Issued

LEMMA ReferencedInvariance == Spec => [](Typed /\ Referenced)
<1>1. Init => Typed /\ Referenced
  BY InitTyped DEF Init, Referenced, Issued, EmptyTable, Idle
<1>2. Typed /\ Referenced /\ [Next]_vars => (Typed /\ Referenced)'
  BY TypedStep, ReferencedStep
<1> QED
  BY <1>1, <1>2, PTL DEF Spec

(* Sessions and reset tokens belong to accounts that exist, and a request  *)
(* works on an account that exists whenever its statement executes: an     *)
(* UPDATE of a password never meets no row (auth.service.ts:84, 105-161,   *)
(* users.service.ts:95-97).                                                *)
THEOREM ForeignKeys == Spec => []Referenced
BY ReferencedInvariance, PTL

(* A stored password is changed only by a request for that very account:   *)
(* one that logged in as its user and gave a password that was the stored  *)
(* one, or one that found a reset token made for the account               *)
(* (auth.service.ts:129-139, 150-159).                                     *)
ChangesForItsHolder(r, u) ==
  /\ req[r].user = u
  /\ \/ req[r].at = "change.password"
     \/ /\ req[r].at = "reset.password"
        /\ req[r].reset \in DOMAIN authTokens
        /\ authTokens[req[r].reset].userId = u
PasswordChangedForItsHolder ==
  [][\A u \in DOMAIN users :
       users'[u] # users[u] => \E r \in Request : ChangesForItsHolder(r, u)]_vars

THEOREM PasswordHolders == Spec => PasswordChangedForItsHolder
<1>1. ASSUME Typed, Referenced, [Next]_vars, NEW u \in DOMAIN users, users'[u] # users[u]
      PROVE  \E r \in Request : ChangesForItsHolder(r, u)
  <2>0. IsTable(users, User, Password)
    BY <1>1 DEF Typed, TypeOK
  <2>1. ASSUME NEW r \in Request, ResetUpdate(r) \/ ChangeUpdate(r)
        PROVE  ChangesForItsHolder(r, u)
    <3>1. req[r].user = u
      BY <1>1, <2>0, <2>1 DEF ResetUpdate, ChangeUpdate, IsTable
    <3> QED
      BY <1>1, <2>1, <3>1 DEF ResetUpdate, ChangeUpdate, ChangesForItsHolder, Referenced
  <2>2. CASE \E r \in Request : RegisterSave(r)
    BY <1>1, <2>2 DEF RegisterSave, Insert
  <2>3. ASSUME \A r \in Request : ~ResetUpdate(r) /\ ~ChangeUpdate(r) /\ ~RegisterSave(r)
        PROVE  UNCHANGED users
    BY <1>1, <2>3 DEF Next, Call, Register, Login, Refresh, RefreshReplay, Logout, LogoutAll,
      RevokeSession, ResetPassword, ChangePassword, Proceed, RegisterConflict, Issue,
      RefreshRevoke, RevokeFamily, LogoutRevoke, LogoutBlacklist, RevokeAll, SessionFind,
      SessionRevoke, ResetUsed, ChangeVerify, ForgotPassword, Expire, ExpireReset, Fail,
      tables, vars
  <2> QED
    BY <1>1, <2>1, <2>2, <2>3
<1>2. Typed /\ Referenced /\ [Next]_vars =>
        [\A u \in DOMAIN users :
           users'[u] # users[u] => \E r \in Request : ChangesForItsHolder(r, u)]_vars
  BY <1>1
<1> QED
  BY <1>2, ReferencedInvariance, PTL DEF Spec, PasswordChangedForItsHolder

-----------------------------------------------------------------------------
(* How often a reset token is redeemed *)

(* A token that has been redeemed is marked used.                          *)
RedeemedIsUsed ==
  \A k \in ResetId : redeemed[k] # 0 => k \in DOMAIN authTokens /\ authTokens[k].used

RaceInv == Typed /\ Referenced /\ RedeemedIsUsed /\ ResetsNeedARace

LEMMA RedeemedIsUsedStep == RaceInv /\ [Next]_vars => RedeemedIsUsed'
<1> SUFFICES ASSUME RaceInv, [Next]_vars, NEW k \in ResetId, redeemed'[k] # 0
             PROVE  k \in DOMAIN authTokens' /\ authTokens'[k].used
  BY DEF RedeemedIsUsed
<1>0. /\ Typed /\ Referenced /\ RedeemedIsUsed
      /\ redeemed \in [ResetId -> Nat]
      /\ IsTable(authTokens, ResetId, AuthToken)
  BY DEF RaceInv, Typed, TypeOK
<1>1. CASE redeemed[k] # 0
  <2>1. k \in DOMAIN authTokens /\ authTokens[k].used
    BY <1>0, <1>1 DEF RedeemedIsUsed
  <2>2. CASE Next
    BY <1>0, <2>1, <2>2, ResetRowsStep
  <2>3. CASE UNCHANGED vars
    BY <2>1, <2>3 DEF vars
  <2> QED
    BY <2>2, <2>3
<1>2. CASE redeemed[k] = 0
  <2> PICK r \in Request :
        ResetUsed(r) /\ redeemed' = [redeemed EXCEPT ![req[r].reset] = @ + 1]
    BY <1>0, <1>2, RedeemedStep
  <2>1. req[r].reset = k /\ k \in DOMAIN authTokens
    BY <1>0, <1>2 DEF ResetUsed, Referenced
  <2> QED
    BY <1>0, <2>1 DEF ResetUsed, IsTable, AuthToken
<1> QED
  BY <1>1, <1>2

(* Nobody sets out to redeem a token that is already marked used.          *)
LEMMA RedeemingStep ==
  ASSUME Typed, Referenced, [Next]_vars, NEW k \in ResetId,
         k \in DOMAIN authTokens, authTokens[k].used
  PROVE  Redeeming(k)' \subseteq Redeeming(k)
<1> SUFFICES ASSUME NEW r \in Request, req'[r].reset = k,
                    req'[r].at \in {"reset.password", "reset.used"}
             PROVE  req[r].reset = k /\ req[r].at \in {"reset.password", "reset.used"}
  BY DEF Redeeming
<1>1. CASE req'[r] = req[r]
  BY <1>1
<1>2. CASE Proceed(r) \/ Fail(r)
  BY <1>2, ProceedKeepsAccount
<1>3. ASSUME Call(r) PROVE FALSE
  <2>1. req[r] = Idle
    BY <1>3 DEF Call, Register, Login, Refresh, RefreshReplay, Logout, LogoutAll,
      RevokeSession, ResetPassword, ChangePassword, Begin
  <2>2. req[r].reset # k
    BY <2>1, NoneAssumption DEF Idle
  <2>3. Next
    BY <1>3 DEF Next
  <2> QED
    BY <2>2, <2>3, HeldReset DEF ResetUsable
<1> QED
  BY <1>1, <1>2, <1>3, OthersStay

(* Whoever marks the token used has redeemed it, and leaves the race.      *)
LEMMA RedeemerLeaves ==
  ASSUME Typed, NEW r \in Request, ResetUsed(r)
  PROVE  r \in Redeeming(req[r].reset) /\ \A k \in ResetId : r \notin Redeeming(k)'
BY DEF ResetUsed, Advance, Redeeming, Typed, TypeOK, Locals

LEMMA RaceStep == RaceInv /\ [Next]_vars => ResetsNeedARace'
<1> SUFFICES ASSUME RaceInv, [Next]_vars, NEW k \in ResetId
             PROVE  redeemed'[k] + Cardinality(Redeeming(k)') <= Cardinality(Request)
  BY DEF ResetsNeedARace
<1>0. /\ Typed /\ Referenced /\ RedeemedIsUsed
      /\ redeemed \in [ResetId -> Nat] /\ redeemed' \in [ResetId -> Nat]
      /\ redeemed[k] + Cardinality(Redeeming(k)) <= Cardinality(Request)
  BY RedeemedStep DEF RaceInv, ResetsNeedARace, Typed, TypeOK
<1>1. /\ Redeeming(k) \subseteq Request /\ Redeeming(k)' \subseteq Request
      /\ IsFiniteSet(Request) /\ Cardinality(Request) \in Nat
      /\ IsFiniteSet(Redeeming(k)) /\ Cardinality(Redeeming(k)) \in Nat
      /\ IsFiniteSet(Redeeming(k)') /\ Cardinality(Redeeming(k)') \in Nat
      /\ Cardinality(Redeeming(k)') <= Cardinality(Request)
  <2>1. Redeeming(k) \subseteq Request /\ Redeeming(k)' \subseteq Request
    BY DEF Redeeming
  <2>2. /\ IsFiniteSet(Redeeming(k)) /\ IsFiniteSet(Redeeming(k)')
        /\ Cardinality(Redeeming(k)') <= Cardinality(Request)
    BY <2>1, FS_Subset, RequestAssumption
  <2> QED
    BY <2>1, <2>2, FS_CardinalityType, RequestAssumption
<1>2. CASE redeemed'[k] = 0
  BY <1>1, <1>2
<1>3. CASE redeemed'[k] # 0 /\ redeemed'[k] = redeemed[k]
  <2>1. Redeeming(k)' \subseteq Redeeming(k)
    BY <1>0, <1>3, RedeemingStep DEF RedeemedIsUsed
  <2>2. Cardinality(Redeeming(k)') <= Cardinality(Redeeming(k))
    BY <1>1, <2>1, FS_Subset
  <2> QED
    BY <1>0, <1>1, <1>3, <2>2
<1>4. CASE redeemed'[k] # redeemed[k]
  <2> PICK r \in Request :
        ResetUsed(r) /\ redeemed' = [redeemed EXCEPT ![req[r].reset] = @ + 1]
    BY <1>0, <1>4, RedeemedStep
  <2>1. req[r].reset = k /\ redeemed'[k] = redeemed[k] + 1
    BY <1>0, <1>4
  <2>2. r \in Redeeming(k) /\ r \notin Redeeming(k)'
    BY <1>0, <2>1, RedeemerLeaves
  <2>3. ASSUME NEW S, IsFiniteSet(S), r \in S, Redeeming(k)' \subseteq S
        PROVE  Cardinality(Redeeming(k)') + 1 <= Cardinality(S)
    <3>1. Redeeming(k)' \subseteq S \ {r}
      BY <2>2, <2>3
    <3>2. IsFiniteSet(S \ {r}) /\ Cardinality(S \ {r}) = Cardinality(S) - 1
      BY <2>3, FS_RemoveElement
    <3>3. Cardinality(Redeeming(k)') <= Cardinality(S \ {r})
      BY <3>1, <3>2, FS_Subset
    <3>4. Cardinality(S) \in Nat
      BY <2>3, FS_CardinalityType
    <3> QED
      BY <1>1, <3>2, <3>3, <3>4
  <2>4. CASE redeemed[k] = 0
    BY <1>1, <2>1, <2>3, <2>4
  <2>5. CASE redeemed[k] # 0
    <3>1. Redeeming(k)' \subseteq Redeeming(k)
      BY <1>0, <2>5, RedeemingStep DEF RedeemedIsUsed
    <3>2. Cardinality(Redeeming(k)') + 1 <= Cardinality(Redeeming(k))
      BY <1>1, <2>2, <2>3, <3>1
    <3> QED
      BY <1>0, <1>1, <2>1, <3>2
  <2> QED
    BY <2>4, <2>5
<1> QED
  BY <1>2, <1>3, <1>4

(* A reset token is redeemed at most once per request that can run at a    *)
(* time, and each time by one that found it unused                         *)
(* (auth.service.ts:131-141).                                              *)
THEOREM ResetRaces == Spec => []ResetsNeedARace
<1>1. Init => RaceInv
  <2> SUFFICES ASSUME Init PROVE RaceInv
    OBVIOUS
  <2>1. Typed /\ Referenced /\ RedeemedIsUsed
    BY InitTyped DEF Init, Referenced, RedeemedIsUsed, Issued, EmptyTable, Idle
  <2>2. ASSUME NEW k \in ResetId
        PROVE  redeemed[k] + Cardinality(Redeeming(k)) <= Cardinality(Request)
    <3>1. Redeeming(k) = {} /\ redeemed[k] = 0
      BY DEF Init, Redeeming, Idle
    <3>2. Cardinality(Redeeming(k)) = 0
      BY <3>1, FS_EmptySet
    <3> QED
      BY <3>1, <3>2, FS_CardinalityType, RequestAssumption
  <2> QED
    BY <2>1, <2>2 DEF RaceInv, ResetsNeedARace
<1>2. RaceInv /\ [Next]_vars => RaceInv'
  BY TypedStep, ReferencedStep, RedeemedIsUsedStep, RaceStep DEF RaceInv
<1>3. RaceInv => ResetsNeedARace
  BY DEF RaceInv
<1> QED
  BY <1>1, <1>2, <1>3, PTL DEF Spec

-----------------------------------------------------------------------------
(* What makes outdated sessions end: the steps behind OutdatedSessionsEnd  *)

(* Statements a handler has left.                                          *)
StatementsLeft(at) ==
  CASE at \in {"reset.password", "change.find"} -> 3
    [] at \in {"reset.used", "change.password", "logout.revoke", "session.find",
               "register.save", "refresh.revoke"} -> 2
    [] at \in {"logoutAll", "logout.blacklist", "session.revoke", "issue",
               "refresh.reuse"} -> 1
    [] OTHER -> 0

(* No handler loops or waits for another: each of its statements leaves it *)
(* fewer to execute, whatever else runs meanwhile (auth.service.ts:41-220).*)
EachStatementIsProgress ==
  [][\A r \in Request :
       req[r].at # "idle" /\ req'[r] # req[r] =>
         StatementsLeft(req'[r].at) < StatementsLeft(req[r].at)]_vars

THEOREM HandlersEnd == Spec => EachStatementIsProgress
<1>1. ASSUME Typed, [Next]_vars, NEW r \in Request, req[r].at # "idle", req'[r] # req[r]
      PROVE  StatementsLeft(req'[r].at) < StatementsLeft(req[r].at)
  <2>0. req \in [Request -> Locals] /\ req[r].at \in Statement
    BY <1>1 DEF Typed, TypeOK, Locals
  <2>1. ASSUME Call(r) PROVE FALSE
    <3>1. req[r] = Idle
      BY <2>1 DEF Call, Register, Login, Refresh, RefreshReplay, Logout, LogoutAll,
        RevokeSession, ResetPassword, ChangePassword, Begin
    <3> QED
      BY <1>1, <3>1 DEF Idle
  <2>2. CASE Finish(r)
    <3>1. req'[r].at = "idle"
      BY <2>0, <2>2 DEF Finish, Idle
    <3> QED
      BY <1>1, <2>0, <3>1 DEF StatementsLeft, Statement
  <2>3. ASSUME NEW s, Advance(r, s), StatementsLeft(s) < StatementsLeft(req[r].at)
        PROVE  StatementsLeft(req'[r].at) < StatementsLeft(req[r].at)
    <3>1. req'[r].at = s
      BY <2>0, <2>3 DEF Advance, Locals
    <3> QED
      BY <2>3, <3>1
  <2>4. CASE RegisterSave(r)
    <3>1. req'[r].at = "issue" /\ req[r].at = "register.save"
      BY <2>0, <2>4 DEF RegisterSave, Idle
    <3> QED
      BY <3>1 DEF StatementsLeft
  <2>5. CASE RefreshRevoke(r)
    BY <2>3, <2>5 DEF RefreshRevoke, StatementsLeft
  <2>6. CASE LogoutRevoke(r)
    BY <2>3, <2>6 DEF LogoutRevoke, StatementsLeft
  <2>7. CASE SessionFind(r)
    BY <2>2, <2>3, <2>7 DEF SessionFind, StatementsLeft
  <2>8. CASE ResetUpdate(r) \/ ResetUsed(r)
    BY <2>3, <2>8 DEF ResetUpdate, ResetUsed, StatementsLeft
  <2>9. CASE ChangeVerify(r) \/ ChangeUpdate(r)
    BY <2>2, <2>3, <2>9 DEF ChangeVerify, ChangeUpdate, StatementsLeft
  <2>10. ASSUME Proceed(r) \/ Fail(r)
         PROVE  \/ Finish(r) \/ RegisterSave(r) \/ RefreshRevoke(r) \/ LogoutRevoke(r)
                \/ SessionFind(r) \/ ResetUpdate(r) \/ ResetUsed(r)
                \/ ChangeVerify(r) \/ ChangeUpdate(r)
    BY <2>10 DEF Proceed, RegisterConflict, Issue, RevokeFamily, LogoutBlacklist,
      RevokeAll, SessionRevoke, Fail
  <2> QED
    BY <1>1, <2>1, <2>2, <2>4, <2>5, <2>6, <2>7, <2>8, <2>9, <2>10, OthersStay
<1>2. Typed /\ [Next]_vars =>
        [\A r \in Request :
           req[r].at # "idle" /\ req'[r] # req[r] =>
             StatementsLeft(req'[r].at) < StatementsLeft(req[r].at)]_vars
  BY <1>1
<1> QED
  BY <1>2, InitTyped, TypedStep, PTL DEF Spec, EachStatementIsProgress

(* A usable session with an outdated password that has not escaped always  *)
(* has a request on its way to the logoutAll that ends it, and that        *)
(* request leaves its way only by executing the logoutAll or by failing    *)
(* (auth.service.ts:129-143, 150-161).                                     *)
OutdatedAreOwed == \A f \in Family : Outdated(f) => Owing(opened[f].user) # {}
OwedUntilSettled ==
  [][\A u \in User : \A r \in Owing(u) :
       r \in Owing(u)' \/ RevokeAll(r) \/ Fail(r)]_vars

THEOREM OutdatedEnd == Spec => []OutdatedAreOwed /\ OwedUntilSettled
<1>1. Init => ExcusedInv
  BY InitTyped DEF Init, ExcusedInv, StaleAccounted, OwnerInv, FamilyHasOneOwner, Issued,
    Issuing, EmptyTable, Idle, Live, InFlight
<1>2. ExcusedInv /\ [Next]_vars => ExcusedInv'
  BY TypedStep, OwnerStep, StaleStep DEF ExcusedInv, OwnerInv
<1>3. ExcusedInv => OutdatedAreOwed
  BY DEF ExcusedInv, StaleAccounted, OutdatedAreOwed, Outdated
<1>4. ExcusedInv /\ [Next]_vars =>
        [\A u \in User : \A r \in Owing(u) :
           r \in Owing(u)' \/ RevokeAll(r) \/ Fail(r)]_vars
  BY OwingStep DEF ExcusedInv, OwnerInv
<1> QED
  BY <1>1, <1>2, <1>3, <1>4, PTL DEF Spec, OwedUntilSettled
=============================================================================
