----------------------------- MODULE MCPostLinks -----------------------------
(* Instances of PostLinks for TLC: three posts, hashtags a, b and c. *)
EXTENDS PostLinks, TLC

CONSTANTS p, q, x, a, b, c, photo, film

Idle == [op |-> "deletePost", post |-> p, tags |-> NotGiven, files |-> NotGiven,
         name |-> a, next |-> a]

PostJob(o, y, t, f)  == [Idle EXCEPT !.op = o, !.post = y, !.tags = t, !.files = f]
TagJob(o, n, m)      == [Idle EXCEPT !.op = o, !.name = n, !.next = m]

Jobs == <<
  PostJob("edit", p, <<a, b>>, <<film, film>>),
  PostJob("edit", p, <<c, b>>, <<film, photo>>),
  PostJob("edit", p, NotGiven, <<film>>),
  PostJob("create", q, <<b, c>>, <<photo>>),
  PostJob("create", x, <<c, a>>, <<>>),
  PostJob("edit", q, <<a>>, NotGiven),
  PostJob("deletePost", p, NotGiven, NotGiven),
  TagJob("createTag", b, b),
  TagJob("rename", a, b),
  TagJob("rename", b, a),
  TagJob("rename", a, c),
  TagJob("deleteTag", a, a),
  TagJob("deleteTag", b, b) >>

OnlyA == [i \in Ids |-> IF i = 1 THEN a ELSE NoName]

\* Any jobs together, each request having one that is not before the last one's.
AllMixes ==
  {[r \in Requests |-> Jobs[f[r]]] :
     f \in {f \in [Requests -> DOMAIN Jobs] : \A r, s \in Requests :
                 r < s => f[r] <= f[s] /\ (f[r] = f[s] => Jobs[f[r]].op # "create")}}
=============================================================================
