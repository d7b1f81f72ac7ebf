SPECIFICATION Spec
CONSTANTS
  ann = ann
  bob = bob
  cat = cat
  post = post
  old = old
  net = net
  off = off
  heart = heart
  smile = smile
  Users = {ann, bob, cat}
  Admins = {cat}
  Publishers = {}
  Posts = {post}
  Author <- AuthorIs
  Comments = {old, c1, c2}
  OldComments <- OneComment
  Platforms = {net, off}
  OldPlatforms <- OnePlatform
  Emojis = {heart, smile}
  None = None
  Clear = Clear
  MaxCount = 3
  Requests = {1, 2, 3}
  Mixes <- AllMixes
  MayFail = TRUE
INVARIANTS ReactionsAddUp NotesAreDue AnswersAreTrue
PROPERTIES FreshWritesHitWhatIsThere
CHECK_DEADLOCK FALSE
