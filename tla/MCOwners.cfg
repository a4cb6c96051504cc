\* An instance stops when its ids run out and every session has expired.
CHECK_DEADLOCK FALSE
CONSTANTS
  User = {ann, bob}
  Registered = {}
  Password = {p1}
  TokenId = {t1, t2, t3}
  Family = {f1, f2}
  ResetId = {}
  Request = {r1, r2}
  Calls <- OwnerCalls
  MayFail = TRUE
  None = None
SYMMETRY Symmetry
SPECIFICATION Spec
INVARIANTS FamilyHasOneOwner PurgedFamilyStaysDead
PROPERTIES RevokedOnlyForOwner EndedButForThoseInFlight RevokedSessionEnds RefinesSessionFamilies
