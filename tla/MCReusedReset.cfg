\* An instance stops when its ids run out and every reset token has expired.
CHECK_DEADLOCK FALSE
CONSTANTS
  User = {ann}
  Registered = {ann}
  Password = {p1, p2}
  TokenId = {t1}
  Family = {f1}
  ResetId = {k1}
  Request = {r1, r2}
  Calls <- ResetCalls
  MayFail = FALSE
  None = None
SYMMETRY Symmetry
SPECIFICATION Spec
PROPERTIES UsedResetIsRefused
