SPECIFICATION FairSpec
CONSTANTS
  p = p
  q = q
  x = x
  a = a
  b = b
  c = c
  photo = photo
  film = film
  Posts = {p, q, x}
  Names = {a, b, c}
  Keys = {photo, film}
  Ids = {1, 2, 3, 4, 5, 6, 7}
  OldNames <- OnlyA
  OldPosts = {p}
  NoName = NoName
  Same = Same
  NotGiven = NotGiven
  Requests = {1, 2, 3}
  Mixes <- AllMixes
  MayFail = TRUE
INVARIANTS LinksFollowLastWrite DeadlocksNeedCircularOrders
PROPERTIES KeptFilesKeepTheirRow FreshDeletionIsOfItsName EveryRequestEnds
CHECK_DEADLOCK FALSE
