------------------------------ MODULE MCListings ------------------------------
(* An instance of Listings for TLC: three posts of two members, two of the   *)
(* posts created at one time or not, and one post and two members that may   *)
(* come.                                                                     *)
EXTENDS Listings, TLC

CONSTANTS p1, p2, p3, p4, an, binh, chi, dung, fb, tag

Row(state, t, u, status, on, tags) ==
  [state |-> state, at |-> t, by |-> u, status |-> status, on |-> on, tags |-> tags]

MCInitPosts ==
  {p1 :> Row("live", 1, an, "approved", {fb}, {tag}) @@
   p2 :> Row("live", 2, an, "pending", {}, {tag}) @@
   p3 :> Row("live", t, binh, "approved", {}, {}) @@
   p4 :> Row("none", 1, an, "pending", {}, {}) : t \in {2, 3}}

MCInitUsers == {an :> 1 @@ binh :> 2 @@ chi :> 0 @@ dung :> 0}

MCNewPosts == {<<1, binh, {}>>, <<3, an, {tag}>>}

\* A name as it is stored, and one as somebody may type it.
MCKey == "facebook" :> fb @@ "Facebook " :> fb

MCRank == an :> 1 @@ binh :> 2 @@ chi :> 3 @@ dung :> 4

MCQuestions ==
  {NoFilter,
   [NoFilter EXCEPT !.by = {an}, !.tags = {tag}],
   [NoFilter EXCEPT !.anywhere = TRUE],
   [NoFilter EXCEPT !.status = {"approved"}, !.pubs = {<<"facebook", "published">>}],
   [NoFilter EXCEPT !.pubs = {<<"Facebook ", "missing">>}]}
=============================================================================
