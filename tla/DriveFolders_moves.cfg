SPECIFICATION Spec
CONSTANTS
  a = a
  b = b
  c = c
  r = r
  s = s
  Folders = {a, b, c}
  Roots = {r, s}
  NoRoot = NoRoot
  DefaultRoot = r
  Elsewhere = Elsewhere
  NoTarget = NoTarget
  Before = Before
  Keep = Keep
  Requests = {1, 2}
  Mixes <- AllMixes
  Forests <- SomeForests
  MaxMoves = 1
INVARIANTS TypeOK CacheIsATree VideosHaveTargets
PROPERTIES FreshTraversalsAreComplete FreshTargetsAreOffered FreshUploadsFollowTheSettings TraversalsEnd
CHECK_DEADLOCK FALSE
