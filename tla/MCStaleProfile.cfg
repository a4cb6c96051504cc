\* An instance stops when nobody calls anything any more.
CHECK_DEADLOCK FALSE
CONSTANTS
  User = {ann}
  Password = {p1, p2}
  Name = {n1, n2}
  File = {f1, f2}
  Role = {user, admin}
  DefaultRole = user
  AdminRole = admin
  SeedAdmin = ann
  Request = {r1, r2}
  Calls <- EditCalls
  MayFail = FALSE
  None = None
SYMMETRY Symmetry
SPECIFICATION Spec
PROPERTIES EditsKeepPassword
