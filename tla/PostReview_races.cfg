SPECIFICATION Spec
CONSTANTS
  author = author
  reviewer = reviewer
  Users = {author, reviewer}
  Author = author
  MayHave <- AuthorMayBeAdmin
  NoUser = NoUser
  Requests = {r1, r2, r3}
  NoRequest = NoRequest
  Concurrency = 3
  MayFail = TRUE
SYMMETRY SafetySymmetry
INVARIANTS ReviewIsSigned NotesAreExplained
PROPERTIES FreshRequestsKeepTheirChecks
