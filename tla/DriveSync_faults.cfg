SPECIFICATION Spec
CONSTANTS
  Attachments = {a1}
  p1 = p1
  Posts = {p1}
  PostOf <- OnePost
  Servers = {s1, s2}
  NoJob = NoJob
  BatchSize = 1
  Doublings = 1
  Conversions <- Both
  MaxLost = 1
  Faults <- AllFaults
SYMMETRY SafetySymmetry
INVARIANTS CopiesNeedLostResponses
PROPERTIES ImplementsUploadQueue
