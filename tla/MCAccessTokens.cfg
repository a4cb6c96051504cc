\* The clock stops at Horizon.
CHECK_DEADLOCK FALSE
CONSTANTS
  Jti = {j1, j2}
  Request = {r1, r2}
  AccessTtl = 2
  BlacklistTtl = 2
  Horizon = 9
  MayFail = TRUE
  None = None
SYMMETRY Symmetry
SPECIFICATION Spec
INVARIANTS TypeOK LoggedOutIsBlacklisted
PROPERTIES LateRequestsAreRefused
