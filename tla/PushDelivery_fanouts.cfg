SPECIFICATION Spec
CONSTANTS
  Users = {an, binh, chi}
  NoUser = NoUser
  Endpoints = {e1, e2}
  Fanouts = {f1}
  MaxBody = 2
  Texts <- MCTexts
INVARIANTS LiveSubscriptionsStay FreshPushesReachTheOwner LostNotesAreExplained
CHECK_DEADLOCK FALSE
