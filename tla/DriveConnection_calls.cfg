SPECIFICATION Spec
CONSTANTS
  Connects = {c1, c2}
  Videos = {v}
  Calls = {k1, k2}
  Folders = Folders
  NoToken = NoToken
  BaseDelay = 2
  MaxDelay = 3
  Width = 4
  MaxAttempts = 3
INVARIANTS ErrorIsOfTheConnection BlockedForThisConnection DelaysAreExplained
