--------------------------- MODULE MCDriveFolders ---------------------------
(* Instances of DriveFolders for TLC: folders a, b and c, roots r and s. *)
EXTENDS DriveFolders, TLC

CONSTANTS a, b, c, r, s

Idle == [kind |-> "refresh", root |-> NoRoot, video |-> Keep, folder |-> Keep]

PostJob(k, v, f) == [Idle EXCEPT !.kind = k, !.video = v, !.folder = f]

Jobs == <<
  Idle,
  [Idle EXCEPT !.kind = "setRoot", !.root = s],
  [Idle EXCEPT !.kind = "upload"],
  PostJob("create", TRUE, a),
  PostJob("edit", TRUE, Keep), PostJob("edit", TRUE, a), PostJob("edit", Keep, a),
  PostJob("edit", Keep, Keep), PostJob("edit", FALSE, Keep), PostJob("edit", Keep, NoTarget) >>

\* Any two jobs.
AllMixes ==
  {<<Jobs[x[1]], Jobs[x[2]]>> :
     x \in {x \in [1 .. 2 -> DOMAIN Jobs] :
               x[1] <= x[2] /\ (x[1] = x[2] => Jobs[x[1]].kind # "create")}}

\* Below r there is a chain, a fork, or a single folder.
SomeForests ==
  {[f \in Folders |-> CASE f = a -> r [] f = b -> a [] f = c -> b],
   [f \in Folders |-> CASE f = a -> r [] f = b -> a [] f = c -> r],
   [f \in Folders |-> CASE f = a -> r [] f = b -> Elsewhere [] f = c -> s]}
=============================================================================
