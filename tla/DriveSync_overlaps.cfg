SPECIFICATION Spec
CONSTANTS
  Attachments = {a1, a2}
  p1 = p1
  Posts = {p1}
  PostOf <- OnePost
  Servers = {s1, s2}
  NoJob = NoJob
  BatchSize = 2
  Doublings = 0
  Conversions <- Greatest
  MaxLost = 1
  Faults <- LostResponse
SYMMETRY SafetySymmetry
INVARIANTS ExclusiveJobs HeldRowIsStable RecordedFileIsLast NoForgottenVideo
