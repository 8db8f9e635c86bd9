SPECIFICATION Spec
CONSTANTS
  admin = admin  user = user  p1 = p1  p2 = p2  role1 = role1  unknown = unknown
  Requests = {q1, q2, q3}
  Accounts = {admin, user}
  Passwords = {p1, p2}
  Roles = {role1}
  RoleIds = {role1, unknown}
  Known <- TwoAccounts
  LoggedIn <- BothIn
  MaxAge = 1
  MaxTime = 2
  Null = Null
SYMMETRY Symmetric
CHECK_DEADLOCK FALSE
INVARIANTS
  TypeOK
  NormalMeansOwnPassword
  ChangesLostOnlyByOverlap
  OneTokenUnlessOverlap
  LoginTokenWorks
