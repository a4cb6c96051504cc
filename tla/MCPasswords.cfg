\* An instance stops when its ids run out and every session has expired.
CHECK_DEADLOCK FALSE
CONSTANTS
  User = {ann}
  Registered = {ann}
  Password = {p1, p2}
  TokenId = {t1, t2, t3}
  Family = {f1, f2}
  ResetId = {k1}
  Request = {r1, r2}
  Calls <- PasswordCalls
  MayFail = TRUE
  None = None
SYMMETRY Symmetry
SPECIFICATION Spec
INVARIANTS StaleSessionsAreExcused ResetsNeedARace
PROPERTIES SpentResetStaysSpent
VIEW SessionsView
