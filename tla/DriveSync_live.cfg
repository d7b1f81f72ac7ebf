SPECIFICATION FairSpec
CONSTANTS
  Attachments = {a1, a2}
  p1 = p1
  Posts = {p1}
  PostOf <- OnePost
  Servers = {s1}
  NoJob = NoJob
  BatchSize = 1
  Doublings = 1
  Conversions <- Both
  MaxLost = 0
  Faults <- NoFaults
PROPERTIES DueRowIsClaimed SignalWakesWorker
