SPECIFICATION Spec
CONSTANTS
  root = root
  other = other
  Users = {root, other}
  Root = root
  Files <- SomeFiles
  NoUser = NoUser
  Requests = {r1, r2, r3}
  NoRequest = NoRequest
  Concurrency = 3
  MayFail = TRUE
SYMMETRY SafetySymmetry
INVARIANTS CreationsHappenOnce
PROPERTIES OnlyStaleLeavesNoAdmin
CHECK_DEADLOCK FALSE
