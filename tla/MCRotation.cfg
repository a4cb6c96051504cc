\* An instance stops when its ids run out and every session has expired.
CHECK_DEADLOCK FALSE
CONSTANTS
  User = {ann}
  Registered = {ann}
  Password = {p1}
  TokenId = {t1, t2, t3, t4}
  Family = {f1, f2}
  ResetId = {}
  Request = {r1, r2}
  Calls <- RotationCalls
  MayFail = TRUE
  None = None
SYMMETRY Symmetry
SPECIFICATION Spec
INVARIANTS TypeOK RotatedIsRevoked ForksNeedARace TwoSessionsNeedAFork
