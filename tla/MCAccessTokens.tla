--------------------------- MODULE MCAccessTokens ---------------------------
(* Instances of AccessTokens for TLC: lifetimes of a few seconds.          *)
EXTENDS AccessTokens, TLC

Symmetry == Permutations(Jti) \cup Permutations(Request)
=============================================================================
