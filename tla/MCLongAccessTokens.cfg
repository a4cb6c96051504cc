\* The clock stops at Horizon.
CHECK_DEADLOCK FALSE
CONSTANTS
  Jti = {j1, j2}
  Request = {r1, r2}
  AccessTtl = 3
  BlacklistTtl = 2
  Horizon = 9
  MayFail = FALSE
  None = None
SYMMETRY Symmetry
SPECIFICATION Spec
INVARIANTS LoggedOutIsBlacklisted
