SPECIFICATION Spec
CONSTANTS
  root = root
  other = other
  Users = {root, other}
  Root = root
  Files <- Dismissals
  NoUser = NoUser
  Requests = {r1, r2, r3}
  NoRequest = NoRequest
  Concurrency = 2
  MayFail = FALSE
SYMMETRY SafetySymmetry
PROPERTIES KeepsAnAdmin
CHECK_DEADLOCK FALSE
