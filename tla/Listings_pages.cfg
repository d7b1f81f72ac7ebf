SPECIFICATION PagesSpec
CONSTANTS
  p1 = p1
  p2 = p2
  p3 = p3
  p4 = p4
  an = an
  binh = binh
  chi = chi
  dung = dung
  fb = fb
  tag = tag
  Posts = {p1, p2, p3, p4}
  Users = {an, binh, chi, dung}
  Platforms = {fb}
  Tags = {tag}
  Key <- MCKey
  Rank <- MCRank
  InitPosts <- MCInitPosts
  InitUsers <- MCInitUsers
  NewPosts <- MCNewPosts
  Questions <- MCQuestions
  MaxTime = 3
  MaxLimit = 2
  DefaultLimit = 1
  Limits = {0, 2}
  MaxWrites = 2
INVARIANTS PagesTypeOK NothingSkipped NothingTwice FreshItemsFitTheRequest StatisticsAgree
CHECK_DEADLOCK FALSE
