---------------------------- MODULE MCPostReview ----------------------------
(* Instances of PostReview for TLC: an author and one more user. *)
EXTENDS PostReview, TLC

CONSTANTS author, reviewer

\* The author is at times an administrator, the other user at times locked.
AuthorMayBeAdmin ==
  [u \in Users |-> IF u = author THEN {"member", "admin"} ELSE {"reviewer", "locked"}]

SafetySymmetry == Permutations(Requests)
=============================================================================
