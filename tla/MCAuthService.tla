--------------------------- MODULE MCAuthService ---------------------------
(***************************************************************************)
(* Instances of AuthService for TLC.  Ids, users, passwords and requests   *)
(* are model values that nothing orders, so the safety runs use symmetry;  *)
(* the liveness run does not.                                              *)
(***************************************************************************)
EXTENDS AuthService, TLC

RotationCalls == {"login", "refresh", "revokeSession"}
OwnerCalls == {"register", "login", "refresh", "logout", "revokeSession", "logoutAll"}
PasswordCalls == {"login", "refresh", "forgotPassword", "resetPassword", "changePassword"}
ResetCalls == {"forgotPassword", "resetPassword"}

SessionsView == <<tables, req, opened, excused, redeemed>>

Symmetry == Permutations(TokenId) \cup Permutations(Family)
              \cup Permutations(ResetId) \cup Permutations(Request)
              \cup Permutations(Password) \cup Permutations(User)
=============================================================================
