------------------------------ MODULE MCClaims ------------------------------
(***************************************************************************)
(* Instances of Claims for TLC.  Roles, permissions and tokens are         *)
(* unordered model values, and no assumption names one of them.            *)
(***************************************************************************)
EXTENDS Claims, TLC

Symmetry == Permutations(Jti) \cup Permutations(Role) \cup Permutations(Permission)
              \cup Permutations(Issuer) \cup Permutations(Request)
=============================================================================
