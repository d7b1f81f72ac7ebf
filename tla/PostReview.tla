------------------------------ MODULE PostReview ------------------------------
(***************************************************************************)
(* The life of one post: it is created, edited, reviewed, sent back for    *)
(* review and deleted by requests that run concurrently                    *)
(* (internal/service/posts.go over the table posts,                        *)
(* internal/repository/posts.go), and the notifications these requests     *)
(* write (internal/service/notifications.go).                              *)
(*                                                                         *)
(* A request authenticates its user, reads the post, decides on what it    *)
(* read, begins its writing transaction (which fixes now()), waits for the *)
(* row lock, writes, and notifies.  Nothing ties the write to what was     *)
(* read but the condition deleted_at IS NULL.                              *)
(*                                                                         *)
(* Abstractions.  The post's text is the request that wrote it; its        *)
(* attachments and hashtags are in PostLinks, its folder in DriveFolders.  *)
(* Validation errors and the reads for the answer are failures of the      *)
(* request.  A request is executed once: Requests bounds their number.     *)
(***************************************************************************)
EXTENDS Posting, Naturals, FiniteSets

CONSTANTS
  Author,      \* the author of the post
  MayHave,     \* bound: the rights that a user gets in the course of time
  NoUser,      \* NULL for a user id
  Requests,    \* bound: the requests that are ever made
  NoRequest,   \* "no request"
  Concurrency, \* bound: how many requests run at the same time
  MayFail      \* requests can fail, time out or die with their process

Levels == {"locked", "member", "reviewer", "admin"}

ASSUME PostReviewAssumption ==
  /\ Author \in Users
  /\ MayHave \in [Users -> SUBSET Levels]
  /\ NoUser \notin Users
  /\ NoRequest \notin Requests
  /\ Concurrency \in Nat \ {0}
  /\ MayFail \in BOOLEAN

VARIABLES
  rights,     \* what a user may do: is_active, is_admin and can_review_posts
  life,       \* the row of posts: "absent", "live", or "deleted" (deleted_at)
  status,     \* approval_status
  reviewedAt, \* reviewed_at, 0 for NULL
  reviewedBy, \* reviewed_by_user_id
  updatedAt,  \* updated_at
  content,    \* the request whose text the post has
  clock,      \* the database's clock
  pc,         \* where a request is
  op,         \* what it wants
  actor,      \* its user
  level,      \* the user's rights when it was authenticated
  seen,       \* approval_status and content of the post it has read
  at,         \* now() of its transaction
  todo,       \* the users it still has to notify
  notes,      \* rows of notifications, with the request that wrote them
  editedSince,\* history: the post was edited since its last review
  stale       \* history: the requests that another has overtaken, see Overtake

postVars    == <<life, status, reviewedAt, reviewedBy, updatedAt, content, editedSince>>
requestVars == <<pc, op, actor, level, seen, at, todo>>
vars == <<rights, postVars, clock, requestVars, notes, stale>>

ReviewLevels == {"reviewer", "admin"}
Verdicts     == {"approve", "reject", "reopen"}
Ops          == {"create", "edit", "editRest", "delete"} \cup Verdicts
Kinds        == {"post_created", "post_approved", "post_rejected", "post_resubmitted"}
RequestPCs   == {"new", "read", "begin", "write", "list", "notify", "done"}

TypeOK ==
  /\ rights \in [Users -> Levels]
  /\ life \in {"absent", "live", "deleted"}
  /\ status \in Statuses
  /\ reviewedAt \in Nat
  /\ reviewedBy \in Users \cup {NoUser}
  /\ updatedAt \in Nat
  /\ content \in Requests \cup {NoRequest}
  /\ clock \in Nat
  /\ pc \in [Requests -> RequestPCs]
  /\ op \in [Requests -> Ops \cup {"none"}]
  /\ actor \in [Requests -> Users \cup {NoUser}]
  /\ level \in [Requests -> Levels]
  /\ seen \in [Requests -> [status : Statuses, content : Requests \cup {NoRequest}]]
  /\ at \in [Requests -> Nat]
  /\ todo \in [Requests -> SUBSET Users]
  /\ notes \subseteq [by : Requests, to : Users, kind : Kinds]
  /\ editedSince \in BOOLEAN
  /\ stale \subseteq Requests

\* The post is still to be created, or was created before.
Init ==
  /\ rights \in {f \in [Users -> Levels] : \A u \in Users : f[u] \in MayHave[u]}
  /\ life \in {"absent", "live"}
  /\ status = "pending"
  /\ reviewedAt = 0
  /\ reviewedBy = NoUser
  /\ updatedAt = 0
  /\ content = NoRequest
  /\ clock = 0
  /\ pc = [r \in Requests |-> "new"]
  /\ op = [r \in Requests |-> "none"]
  /\ actor = [r \in Requests |-> NoUser]
  /\ level = [r \in Requests |-> "locked"]
  /\ seen = [r \in Requests |-> [status |-> "pending", content |-> NoRequest]]
  /\ at = [r \in Requests |-> 0]
  /\ todo = [r \in Requests |-> {}]
  /\ notes = {}
  /\ editedSince = FALSE
  /\ stale = {}

-----------------------------------------------------------------------------
(* Rights.                                                                 *)

\* An administrator changes a user's flags (see UserAdmin).
ChangeRights(u, l) ==
  /\ l \in MayHave[u] \ {rights[u]}
  /\ rights' = [rights EXCEPT ![u] = l]
  /\ UNCHANGED <<postVars, clock, requestVars, notes, stale>>

\* authorization.CanReviewPosts, of the principal in the request.
CanReview(r) == level[r] \in ReviewLevels

\* The author and administrators edit and delete.
Owns(r) == actor[r] = Author \/ level[r] = "admin"

-----------------------------------------------------------------------------
(* Reading and deciding.                                                   *)

InFlight == {r \in Requests : pc[r] \notin {"new", "done"}}

\* PrincipalFromAccessToken, on every request.  There is one post, so there is
\* one request that creates it.
Authenticate(r, u, o) ==
  /\ pc[r] = "new"
  /\ Cardinality(InFlight) < Concurrency
  /\ rights[u] # "locked"
  /\ o = "create" => u = Author /\ life = "absent" /\ \A q \in Requests : op[q] # "create"
  /\ op' = [op EXCEPT ![r] = o]
  /\ actor' = [actor EXCEPT ![r] = u]
  /\ level' = [level EXCEPT ![r] = rights[u]]
  /\ pc' = [pc EXCEPT ![r] = IF o = "create" THEN "begin" ELSE "read"]
  /\ UNCHANGED <<rights, postVars, clock, seen, at, todo, notes, stale>>

\* The approval_status a verdict asks for.
StatusOf(o) ==
  IF o = "approve" THEN "approved" ELSE IF o = "reject" THEN "rejected" ELSE "pending"

\* Mutated form of MayResubmit: without the comparison of the timestamps.
MayResubmitUnedited(r) ==
  /\ actor[r] = Author
  /\ status = "rejected"
  /\ op[r] = "reopen"

\* validateApprovalTransition for somebody without the right to review.
MayResubmit(r) ==
  /\ actor[r] = Author
  /\ status = "rejected"
  /\ op[r] = "reopen"
  /\ ~(reviewedAt # 0 /\ updatedAt <= reviewedAt)

\* The checks of Update, Delete and UpdateApproval on the post they have read.
Passes(r) ==
  /\ life = "live"
  /\ op[r] \in Verdicts => StatusOf(op[r]) # status /\ (CanReview(r) \/ MayResubmit(r))
  /\ op[r] \notin Verdicts => Owns(r)

Read(r) ==
  /\ pc[r] = "read"
  /\ IF Passes(r)
       THEN /\ seen' = [seen EXCEPT ![r] = [status |-> status, content |-> content]]
            /\ pc' = [pc EXCEPT ![r] = "begin"]
       ELSE /\ pc' = [pc EXCEPT ![r] = "done"]
            /\ UNCHANGED seen
  /\ UNCHANGED <<rights, postVars, clock, op, actor, level, at, todo, notes, stale>>

-----------------------------------------------------------------------------
(* Writing.                                                                *)

\* BEGIN, or the start of a single statement: now() is this moment, even when
\* the statement then waits for another transaction's row lock.
Begin(r) ==
  /\ pc[r] = "begin"
  /\ clock' = clock + 1
  /\ at' = [at EXCEPT ![r] = clock + 1]
  /\ pc' = [pc EXCEPT ![r] = "write"]
  /\ UNCHANGED <<rights, postVars, op, actor, level, seen, todo, notes, stale>>

\* What the requests that have read the post know of it is out of date now.
Overtake(r) ==
  stale' = stale \cup {q \in Requests \ {r} : pc[q] \in {"begin", "write"}}

\* CreatePost; then OnPostCreated will notify the reviewers.
Create(r) ==
  /\ pc[r] = "write"
  /\ op[r] = "create"
  /\ life' = "live"
  /\ status' = "pending"
  /\ reviewedAt' = 0
  /\ reviewedBy' = NoUser
  /\ updatedAt' = at[r]
  /\ content' = r
  /\ editedSince' = FALSE
  /\ pc' = [pc EXCEPT ![r] = "list"]
  /\ Overtake(r)
  /\ UNCHANGED <<rights, clock, op, actor, level, seen, at, todo, notes>>

\* The row is locked and deleted_at IS NULL.
Writes(r) == pc[r] = "write" /\ life = "live"

\* UpdatePost.  A request that leaves the text alone ("editRest") writes the
\* text that it has read.
Edit(r) ==
  /\ Writes(r)
  /\ op[r] \in {"edit", "editRest"}
  /\ content' = IF op[r] = "edit" THEN r ELSE seen[r].content
  /\ updatedAt' = at[r]
  /\ editedSince' = TRUE
  /\ pc' = [pc EXCEPT ![r] = "done"]
  /\ Overtake(r)
  /\ UNCHANGED <<rights, life, status, reviewedAt, reviewedBy,
                 clock, op, actor, level, seen, at, todo, notes>>

\* Mutated form of Reviewed: who reviewed the post first stays.
ReviewedFirst(r) ==
  /\ reviewedAt' = IF reviewedAt = 0 THEN at[r] ELSE reviewedAt
  /\ reviewedBy' = IF reviewedBy = NoUser THEN actor[r] ELSE reviewedBy

\* CASE WHEN $2 = 'pending' THEN NULL ELSE ... END
Reviewed(r) ==
  /\ reviewedAt' = IF op[r] = "reopen" THEN 0 ELSE at[r]
  /\ reviewedBy' = IF op[r] = "reopen" THEN NoUser ELSE actor[r]

\* UpdatePostApproval, whatever the status has become since the read.  Next
\* come OnPostApproved and OnPostRejected, which tell the author, or
\* OnPostResubmitted, when the post was read as rejected.
Decide(r) ==
  /\ Writes(r)
  /\ op[r] \in Verdicts
  /\ status' = StatusOf(op[r])
  /\ Reviewed(r)
  /\ updatedAt' = at[r]
  /\ editedSince' = FALSE
  /\ LET toAuthor == IF op[r] = "reopen" THEN {} ELSE {Author} \ {actor[r]} IN
       /\ todo' = [todo EXCEPT ![r] = toAuthor]
       /\ pc' = [pc EXCEPT ![r] =
            IF op[r] = "reopen" /\ seen[r].status = "rejected" THEN "list"
            ELSE IF toAuthor = {} THEN "done" ELSE "notify"]
  /\ Overtake(r)
  /\ UNCHANGED <<rights, life, content, clock, op, actor, level, seen, at, notes>>

\* SoftDeletePost.
Delete(r) ==
  /\ Writes(r)
  /\ op[r] = "delete"
  /\ life' = "deleted"
  /\ pc' = [pc EXCEPT ![r] = "done"]
  /\ Overtake(r)
  /\ UNCHANGED <<rights, status, reviewedAt, reviewedBy, updatedAt, content, editedSince,
                 clock, op, actor, level, seen, at, todo, notes>>

\* No row to update: ErrNotFound.
PostGone(r) ==
  /\ pc[r] = "write"
  /\ op[r] # "create"
  /\ life # "live"
  /\ pc' = [pc EXCEPT ![r] = "done"]
  /\ UNCHANGED <<rights, postVars, clock, op, actor, level, seen, at, todo, notes, stale>>

-----------------------------------------------------------------------------
(* Notifying.                                                              *)

Reviewers == {u \in Users : rights[u] \in ReviewLevels}

\* Mutated form of Audience: the actor is not left out.
AudienceWithActor(r) == Reviewers

\* notifyReviewers skips the actor.
Audience(r) == Reviewers \ {actor[r]}

\* ListActiveReviewerUserIDs.
ListReviewers(r) ==
  /\ pc[r] = "list"
  /\ todo' = [todo EXCEPT ![r] = Audience(r)]
  /\ pc' = [pc EXCEPT ![r] = IF Audience(r) = {} THEN "done" ELSE "notify"]
  /\ UNCHANGED <<rights, postVars, clock, op, actor, level, seen, at, notes, stale>>

KindOf == [create |-> "post_created",   approve |-> "post_approved",
           reject |-> "post_rejected", reopen |-> "post_resubmitted"]

\* Mutated form of NotifyOne: the actor is told instead of the recipient.
NotifyOneActor(r, u) ==
  /\ pc[r] = "notify"
  /\ u \in todo[r]
  /\ notes' = notes \cup {[by |-> r, to |-> actor[r], kind |-> KindOf[op[r]]]}
  /\ todo' = [todo EXCEPT ![r] = @ \ {u}]
  /\ pc' = [pc EXCEPT ![r] = IF todo[r] = {u} THEN "done" ELSE "notify"]
  /\ UNCHANGED <<rights, postVars, clock, op, actor, level, seen, at, stale>>

\* notifyOne: CreateNotification, whose error is logged and forgotten.
NotifyOne(r, u) ==
  /\ pc[r] = "notify"
  /\ u \in todo[r]
  /\ \/ notes' = notes \cup {[by |-> r, to |-> u, kind |-> KindOf[op[r]]]}
     \/ MayFail /\ UNCHANGED notes
  /\ todo' = [todo EXCEPT ![r] = @ \ {u}]
  /\ pc' = [pc EXCEPT ![r] = IF todo[r] = {u} THEN "done" ELSE "notify"]
  /\ UNCHANGED <<rights, postVars, clock, op, actor, level, seen, at, stale>>

\* An input is refused, the database fails, the 30 seconds of the request are
\* over or its process ends.  What was written stays; nobody is told.
Fail(r) ==
  /\ MayFail
  /\ pc[r] \notin {"new", "done"}
  /\ pc' = [pc EXCEPT ![r] = "done"]
  /\ todo' = [todo EXCEPT ![r] = {}]
  /\ UNCHANGED <<rights, postVars, clock, op, actor, level, seen, at, notes, stale>>

-----------------------------------------------------------------------------
WriteStep(r) == Create(r) \/ Edit(r) \/ Decide(r) \/ Delete(r) \/ PostGone(r)

RequestStep(r) ==
  \/ Read(r) \/ Begin(r) \/ WriteStep(r) \/ ListReviewers(r)
  \/ \E u \in Users : NotifyOne(r, u)

Next ==
  \/ \E u \in Users, l \in Levels : ChangeRights(u, l)
  \/ \E r \in Requests :
       \/ \E u \in Users, o \in Ops : Authenticate(r, u, o)
       \/ RequestStep(r)
       \/ Fail(r)

Spec == Init /\ [][Next]_vars

-----------------------------------------------------------------------------
(* Properties.                                                             *)

\* A pending post carries no review; an approved or rejected one carries the
\* hour and the user of the review, and this user was authenticated with the
\* right to review and asked for exactly this status - although rights are
\* withdrawn and posts edited, reopened and reviewed again by others while
\* UpdateApproval runs.
ReviewIsSigned ==
  IF status = "pending"
    THEN reviewedAt = 0 /\ reviewedBy = NoUser
    ELSE /\ reviewedAt > 0
         /\ \E r \in Requests : /\ actor[r] = reviewedBy
                                /\ CanReview(r)
                                /\ op[r] \in Verdicts /\ StatusOf(op[r]) = status

\* updated_at > reviewed_at, what validateApprovalTransition takes for "edited
\* since the review", is never the trace of the review itself or of an edit
\* that an even later review has seen.
NewerMeansEdited ==
  status # "pending" /\ updatedAt > reviewedAt => editedSince

\* Everybody who is told of a decision is told of one that was made: the author
\* of an approval or rejection by a reviewer, a user other than the actor of
\* a post that the author has created or that somebody has sent back.
NotesAreExplained ==
  \A n \in notes :
    /\ actor[n.by] # n.to
    /\ n.kind = KindOf[op[n.by]]
    /\ n.kind \in {"post_approved", "post_rejected"} => n.to = Author /\ CanReview(n.by)
    /\ n.kind = "post_created" => actor[n.by] = Author
    /\ n.kind = "post_resubmitted" => op[n.by] = "reopen"

\* Nothing about a deleted post ever changes, also not by the requests that had
\* read it before its deletion (every UPDATE has "deleted_at IS NULL").
DeletedPostIsFrozen == [][life = "deleted" => UNCHANGED postVars]_vars

(* The inductive invariant.                                                *)

\* What a request has passed stays true of it: who may do what it is about to.
Entitled(r) ==
  /\ op[r] = "create" => actor[r] = Author
  /\ op[r] \in {"approve", "reject"} => CanReview(r)
  /\ op[r] = "reopen" => CanReview(r) \/ actor[r] = Author

RequestsAreEntitled ==
  \A r \in Requests :
    /\ pc[r] = "new" => op[r] = "none" /\ todo[r] = {}
    /\ pc[r] # "new" => op[r] \in Ops
    /\ pc[r] \in {"begin", "write", "list", "notify"} => Entitled(r)
    /\ pc[r] = "write" => at[r] > 0
    /\ pc[r] = "read" => op[r] # "create"
    /\ pc[r] = "list" => op[r] \in {"create", "reopen"}
    /\ pc[r] = "notify" => op[r] \in {"create"} \cup Verdicts
    /\ actor[r] \notin todo[r]
    /\ op[r] \in {"approve", "reject"} => todo[r] \subseteq {Author}

UnchangedSinceReview ==
  ~editedSince /\ status # "pending" => updatedAt = reviewedAt

\* The one request that creates the post finds none.
CreatedOnce ==
  \A r \in Requests : op[r] = "create" =>
    /\ \A q \in Requests : op[q] = "create" => q = r
    /\ pc[r] \in {"begin", "write"} => life = "absent"

NotesAreOfStarted == \A n \in notes : pc[n.by] \in {"notify", "done"}

\* What a request has checked is still so when it writes, unless it is stale.
FreshIsCurrent ==
  \A r \in Requests \ stale :
    /\ pc[r] \in {"begin", "write"} /\ op[r] # "create" =>
         /\ life = "live"
         /\ seen[r] = [status |-> status, content |-> content]
         /\ op[r] \in Verdicts /\ ~CanReview(r) =>
              op[r] = "reopen" /\ status = "rejected" /\ editedSince
    /\ pc[r] = "write" => at[r] > reviewedAt

TimesHavePassed ==
  /\ reviewedAt <= clock
  /\ \A r \in Requests : at[r] <= clock

IInv ==
  /\ TypeOK
  /\ RequestsAreEntitled
  /\ CreatedOnce
  /\ ReviewIsSigned
  /\ UnchangedSinceReview
  /\ NotesAreOfStarted
  /\ NotesAreExplained
  /\ FreshIsCurrent
  /\ TimesHavePassed

(* What the checks before the write promise holds for the requests that no  *)
(* other has overtaken, whatever else runs meanwhile.  Overtaken ones break *)
(* each of the three.                                                      *)

\* Somebody without the right to review changes the status of a post only from
\* rejected to pending, and only if it was edited since the rejection.
FreshResubmissionFollowsEdit ==
  [][\A r \in Requests \ stale :
       Decide(r) /\ ~CanReview(r)
         => status = "rejected" /\ status' = "pending" /\ editedSince]_vars

\* An edit of a rejected post is recognised by the comparison of the two
\* timestamps: its author may send the post back.
FreshEditIsRecognised ==
  [][\A r \in Requests \ stale :
       Edit(r) /\ status = "rejected" => updatedAt' > reviewedAt']_vars

\* A request that does not set the text leaves the text as it is.
FreshRestKeepsContent ==
  [][\A r \in Requests \ stale :
       op[r] = "editRest" /\ Edit(r) => content' = content]_vars

\* The three together.
FreshRequestsKeepTheirChecks ==
  /\ FreshResubmissionFollowsEdit
  /\ FreshEditIsRecognised
  /\ FreshRestKeepsContent
=============================================================================
