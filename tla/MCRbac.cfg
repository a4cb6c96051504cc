\* An instance stops when nobody calls anything any more.
CHECK_DEADLOCK FALSE
CONSTANTS
  admin = admin
  user = user
  adminId = adminId
  userId = userId
  read = read
  manage = manage
  RoleId = {adminId, userId, newId}
  RoleName = {admin, user}
  Permission = {read, manage}
  Seeded <- Migration
  Request = {r1, r2}
  Calls <- AllCalls
  MayFail = TRUE
  None = None
SYMMETRY Symmetry
SPECIFICATION Spec
INVARIANTS TypeOK NamesAreUnique UndisturbedReplacementsAreExact
PROPERTIES ReturnsNeedARace AgreedPermissionsAreExact
