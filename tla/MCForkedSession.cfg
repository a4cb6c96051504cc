\* An instance stops when its ids run out and every session has expired.
CHECK_DEADLOCK FALSE
CONSTANTS
  User = {ann}
  Registered = {ann}
  Password = {p1}
  TokenId = {t1, t2, t3}
  Family = {f1}
  ResetId = {}
  Request = {r1, r2}
  Calls <- RotationCalls
  MayFail = FALSE
  None = None
SYMMETRY Symmetry
SPECIFICATION Spec
INVARIANTS OneSessionPerFamily
