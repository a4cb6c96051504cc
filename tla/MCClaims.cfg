\* The clock stops at Horizon.
CHECK_DEADLOCK FALSE
CONSTANTS
  Jti = {j1}
  Request = {r1}
  Issuer = {i1}
  Role = {a, b}
  Permission = {p}
  AccessTtl = 1
  BlacklistTtl = 1
  Horizon = 3
  MayFail = TRUE
  None = None
SYMMETRY Symmetry
SPECIFICATION ClaimsSpec
INVARIANTS ClaimsTypeOK StaleRightsFade
PROPERTIES RoutesAskForRecentRights
