---------------------------- MODULE MCEngagement ----------------------------
(* Instances of Engagement for TLC: a post of ann with a comment of bob; cat *)
(* is an administrator and publishes.                                        *)
EXTENDS Engagement, TLC

CONSTANTS ann, bob, cat, post, old, net, off, heart, smile

Idle == [op |-> "deletePost", user |-> ann, on |-> post, platform |-> net,
         emoji |-> Clear, delta |-> 1, active |-> TRUE]

Do(o, u, t)         == [Idle EXCEPT !.op = o, !.user = u, !.on = t]
React(u, t, e, n)   == [Do("react", u, t) EXCEPT !.emoji = e, !.delta = n]
Admin(o, k, a)      == [Do(o, cat, post) EXCEPT !.platform = k, !.active = a]

Jobs == <<
  Do("comment", ann, post), Do("comment", bob, post),
  Do("uncomment", ann, old), Do("uncomment", bob, old), Do("uncomment", cat, old),
  React(bob, post, heart, 2), React(bob, post, heart, 1), React(bob, post, smile, 1),
  React(bob, post, Clear, 1), React(cat, post, heart, 2), React(ann, old, heart, 1),
  React(bob, old, heart, 1),
  Do("publish", bob, post), Do("publish", cat, post), Admin("publish", off, TRUE),
  Do("unpublish", cat, post), Do("unpublish", bob, post),
  Admin("addPlatform", off, TRUE), Admin("addPlatform", off, FALSE),
  Admin("setPlatform", net, FALSE), Admin("dropPlatform", net, TRUE),
  Admin("dropPlatform", off, TRUE), Do("dropPlatform", bob, post),
  Do("deletePost", ann, post), Do("deletePost", bob, post), Do("deletePost", cat, post) >>

AuthorIs   == [p \in Posts |-> ann]
OneComment == [c \in Comments |-> IF c = old THEN [post |-> post, author |-> bob] ELSE None]
OnePlatform == [k \in Platforms |-> IF k = net THEN "active" ELSE "none"]

\* Any jobs together; the requests are interchangeable otherwise.
AllMixes ==
  {[r \in Requests |-> Jobs[f[r]]] :
     f \in {f \in [Requests -> DOMAIN Jobs] : \A r, s \in Requests : r < s => f[r] <= f[s]}}
=============================================================================
