----------------------------- MODULE Engagement -----------------------------
(***************************************************************************)
(* What users do with a post: comments, reactions, and the record of where *)
(* it was published (internal/service/comments.go, reactions.go,           *)
(* publications.go, platforms.go with their files in internal/repository), *)
(* and the notifications of comments and reactions                         *)
(* (internal/service/notifications.go).                                    *)
(*                                                                         *)
(* Every call of the repository is a statement of its own: a request looks *)
(* whether what it is about exists, writes, tells the author, and - after  *)
(* a reaction - reads the summary that it answers with.  Anything may      *)
(* happen in between.  Posts are only marked as deleted, comments and      *)
(* platforms really go; the rules between tables that the database keeps   *)
(* (foreign keys, unique keys) are part of the statements.                 *)
(*                                                                         *)
(* Abstractions.  Texts, links and the looks of a platform are left out.   *)
(* Rights are fixed; that they change is in PostReview.                    *)
(***************************************************************************)
EXTENDS Naturals, Sequences, FiniteSetsExt

CONSTANTS
  Users, Admins, Publishers,  \* can_manage_publications
  Posts, Author,              \* Author[p]: who wrote p
  Comments, OldComments,      \* bound: ids; those that exist at first
  Platforms, OldPlatforms,    \* keys; those that exist at first
  Emojis,
  None,     \* no row
  Clear,    \* the empty emoji: the reaction is taken back
  MaxCount, \* largest value of INT
  Requests, \* the requests
  Mixes,    \* bound: what they may ask for together
  MayFail   \* requests can fail, time out or die with their process

Ops == {"comment", "uncomment", "react", "publish", "unpublish",
        "addPlatform", "setPlatform", "dropPlatform", "deletePost"}
PlatformOps == {"addPlatform", "setPlatform", "dropPlatform"}
Targets == Posts \cup Comments

\* What a request asks for; the fields that its operation does not use are idle.
Fields == [op : Ops, user : Users, on : Targets, platform : Platforms,
           emoji : Emojis \cup {Clear}, delta : Nat \ {0}, active : BOOLEAN]

Job == {j \in Fields :
  /\ j.op \in {"comment", "publish", "unpublish", "deletePost"} => j.on \in Posts
  /\ j.op = "uncomment" => j.on \in Comments}

ASSUME EngagementAssumption ==
  /\ Admins \subseteq Users /\ Publishers \subseteq Users
  /\ Author \in [Posts -> Users]
  /\ Posts \cap Comments = {}
  /\ None \notin Users \cup Emojis /\ Clear \notin Emojis
  /\ None \notin [post : Posts, author : Users]
  /\ None \notin [emoji : Emojis, count : Nat]
  /\ OldComments \in [Comments -> [post : Posts, author : Users] \cup {None}]
  /\ OldPlatforms \in [Platforms -> {"none", "active", "inactive"}]
  /\ MaxCount \in Nat \ {0}
  /\ Mixes \subseteq [Requests -> Job]
  /\ MayFail \in BOOLEAN

VARIABLES
  live,     \* posts without deleted_at
  comment,  \* post_comments
  spent,    \* ids of comments that were given
  reaction, \* reactions: of a user to a target
  platform, \* platforms: "none", "active", or "inactive"
  pub,      \* post_publications
  notes,    \* notifications
  job, pc,  \* what a request asks for and where it is
  made,     \* the comment that it has written
  tell,     \* whom it has to notify
  answer,   \* what it answered
  wrote,    \* history: the requests that have changed a table
  log,      \* history: the reactions of a user to a target, as they were written
  stale,    \* history: requests whose subject changed after they had begun
  unseen    \* history: requests that took a failed query for a target that is gone

tables == <<live, comment, spent, reaction, platform, pub, notes>>
vars == <<tables, job, pc, made, tell, answer, wrote, log, stale, unseen>>

RequestPCs == {"new", "post", "write", "recipient", "notify", "read", "done"}
Answers == {"none", "ok", "notFound", "forbidden", "invalid", "conflict", "error"}
NoteKinds == {"post_comment", "post_reaction", "comment_reaction"}
Notes == [kind : NoteKinds, to : Users, actor : Users, on : Targets, by : Requests]

TypeOK ==
  /\ live \subseteq Posts
  /\ comment \in [Comments -> [post : Posts, author : Users] \cup {None}]
  /\ spent \subseteq Comments
  /\ reaction \in [Targets \X Users -> [emoji : Emojis, count : 1..MaxCount] \cup {None}]
  /\ platform \in [Platforms -> {"none", "active", "inactive"}]
  /\ pub \subseteq Posts \X Platforms
  /\ notes \subseteq Notes
  /\ job \in [Requests -> Job]
  /\ pc \in [Requests -> RequestPCs]
  /\ made \in [Requests -> Comments \cup {None}]
  /\ tell \in [Requests -> Users \cup {None}]
  /\ answer \in [Requests -> Answers]
  /\ wrote \subseteq Requests
  /\ log \in [Targets \X Users -> Seq([emoji : Emojis \cup {Clear}, delta : Nat \ {0}])]
  /\ stale \subseteq Requests
  /\ unseen \subseteq Requests

\* Old posts may be published on platforms that exist.
Init ==
  /\ live = Posts
  /\ comment = OldComments
  /\ spent = {c \in Comments : OldComments[c] # None}
  /\ reaction = [x \in Targets \X Users |-> None]
  /\ platform = OldPlatforms
  /\ pub \in SUBSET (Posts \X {k \in Platforms : OldPlatforms[k] # "none"})
  /\ notes = {}
  /\ job \in Mixes
  /\ pc = [r \in Requests |-> "new"]
  /\ made = [r \in Requests |-> None]
  /\ tell = [r \in Requests |-> None]
  /\ answer = [r \in Requests |-> "none"]
  /\ wrote = {}
  /\ log = [x \in Targets \X Users |-> <<>>]
  /\ stale = {}
  /\ unseen = {}

-----------------------------------------------------------------------------
At(r, where, ops) == pc[r] = where /\ job[r].op \in ops

Goto(r, where) == pc' = [pc EXCEPT ![r] = where] /\ UNCHANGED answer

Answer(r, a) ==
  /\ pc' = [pc EXCEPT ![r] = "done"]
  /\ answer' = [answer EXCEPT ![r] = a]

\* A request that reads and answers, or goes on.
Reads(r) == UNCHANGED <<tables, job, made, tell, wrote, log, stale, unseen>>

\* Requests under way that are about something which has just changed.
Overtake(r, about) == stale' = stale \cup {q \in about \ {r} : pc[q] \notin {"new", "done"}}

AboutTarget(t)   == {q \in Requests : job[q].on = t}
AboutPlatform(k) == {q \in Requests : /\ job[q].op \in PlatformOps \cup {"publish", "unpublish"}
                                      /\ job[q].platform = k}

GetComment(c) == comment[c]

\* A target is there: targetExists.  A comment is, even when its post is not.
Exists(t) == IF t \in Posts THEN t \in live ELSE GetComment(t) # None

AuthorOf(t) == IF t \in Posts THEN Author[t] ELSE comment[t].author

GetPlatform(k) == platform[k]

MayPublish(u) == u \in Admins \cup Publishers

Told(kind, to, r, on) ==
  notes \cup {[kind |-> kind, to |-> to, actor |-> job[r].user, on |-> on, by |-> r]}

-----------------------------------------------------------------------------
(* Comments.                                                               *)

\* CommentService.Create, ReactionService.Toggle: is there something to
\* comment or to react to?
CheckTarget(r) ==
  /\ At(r, "new", {"comment", "react"})
  /\ IF Exists(job[r].on) THEN Goto(r, "write") ELSE Answer(r, "notFound")
  /\ Reads(r)

\* Mutated form of CreateComment: the author is told of own comments, too.
CreateCommentTellsAll(r) ==
  /\ At(r, "write", {"comment"})
  /\ \E c \in Comments \ spent :
       /\ comment' = [comment EXCEPT ![c] = [post |-> job[r].on, author |-> job[r].user]]
       /\ spent' = spent \cup {c}
       /\ made' = [made EXCEPT ![r] = c]
  /\ tell' = [tell EXCEPT ![r] = Author[job[r].on]]
  /\ wrote' = wrote \cup {r}
  /\ Goto(r, "notify")
  /\ UNCHANGED <<live, reaction, platform, pub, notes, job, log, stale, unseen>>

\* The comment is written, and the author of the post - as it was read - is to
\* be told, unless it is the one who comments (OnPostComment).
CreateComment(r) ==
  /\ At(r, "write", {"comment"})
  /\ \E c \in Comments \ spent :
       /\ comment' = [comment EXCEPT ![c] = [post |-> job[r].on, author |-> job[r].user]]
       /\ spent' = spent \cup {c}
       /\ made' = [made EXCEPT ![r] = c]
  /\ LET to == Author[job[r].on] IN
     IF to = job[r].user THEN Answer(r, "ok") /\ UNCHANGED tell
     ELSE Goto(r, "notify") /\ tell' = [tell EXCEPT ![r] = to]
  /\ wrote' = wrote \cup {r}
  /\ UNCHANGED <<live, reaction, platform, pub, notes, job, log, stale, unseen>>

\* The notification refers to the comment: when that is gone, the INSERT fails,
\* which is logged.
NotifyComment(r) ==
  /\ At(r, "notify", {"comment"})
  /\ notes' = IF comment[made[r]] = None THEN notes
              ELSE Told("post_comment", tell[r], r, made[r])
  /\ Answer(r, "ok")
  /\ UNCHANGED <<live, comment, spent, reaction, platform, pub, job, made, tell, wrote, log, stale, unseen>>

\* CommentService.Delete, PostService.Delete: the author or an administrator.
CheckOwn(r) ==
  /\ At(r, "new", {"uncomment", "deletePost"})
  /\ LET t == job[r].on IN
     IF ~Exists(t) THEN Answer(r, "notFound")
     ELSE IF AuthorOf(t) # job[r].user /\ job[r].user \notin Admins THEN Answer(r, "forbidden")
     ELSE Goto(r, "write")
  /\ Reads(r)

\* The row goes, and with it the notifications that refer to it (ON DELETE
\* CASCADE); reactions to it and what was told of them stay.
DeleteComment(r) ==
  /\ At(r, "write", {"uncomment"})
  /\ comment[job[r].on] # None
  /\ comment' = [comment EXCEPT ![job[r].on] = None]
  /\ notes' = {n \in notes : ~(n.kind = "post_comment" /\ n.on = job[r].on)}
  /\ wrote' = wrote \cup {r}
  /\ Overtake(r, AboutTarget(job[r].on))
  /\ Answer(r, "ok")
  /\ UNCHANGED <<live, spent, reaction, platform, pub, job, made, tell, log, unseen>>

\* SoftDeletePost.
DeletePost(r) ==
  /\ At(r, "write", {"deletePost"})
  /\ job[r].on \in live
  /\ live' = live \ {job[r].on}
  /\ wrote' = wrote \cup {r}
  /\ Overtake(r, AboutTarget(job[r].on))
  /\ Answer(r, "ok")
  /\ UNCHANGED <<comment, spent, reaction, platform, pub, notes, job, made, tell, log, unseen>>

\* Somebody else was faster: repository.ErrNotFound, which nobody translates.
DeleteMisses(r) ==
  /\ At(r, "write", {"uncomment", "deletePost"})
  /\ ~Exists(job[r].on)
  /\ Answer(r, "error")
  /\ Reads(r)

-----------------------------------------------------------------------------
(* Reactions.                                                              *)

\* The row that a reaction writes.
Row(r) == <<job[r].on, job[r].user>>

Logged(r) ==
  [log EXCEPT ![Row(r)] = Append(@, [emoji |-> job[r].emoji, delta |-> job[r].delta])]

\* ToggleReaction with an empty emoji: there is nothing to tell.
ClearReaction(r) ==
  /\ At(r, "write", {"react"})
  /\ job[r].emoji = Clear
  /\ reaction' = [reaction EXCEPT ![Row(r)] = None]
  /\ log' = Logged(r)
  /\ wrote' = wrote \cup {r}
  /\ Goto(r, "read")
  /\ UNCHANGED <<live, comment, spent, platform, pub, notes, job, made, tell, stale, unseen>>

\* Mutated form of NewCount: it counts on when the emoji has changed.
NewCountAdds(old, r) == (IF old = None THEN 0 ELSE old.count) + job[r].delta

\* The count of the upsert: more of the same, or a new start.
NewCount(old, r) ==
  IF old # None /\ old.emoji = job[r].emoji THEN old.count + job[r].delta ELSE job[r].delta

\* ToggleReaction with an emoji, one INSERT ... ON CONFLICT DO UPDATE.
UpsertReaction(r) ==
  /\ At(r, "write", {"react"})
  /\ job[r].emoji # Clear
  /\ LET n == NewCount(reaction[Row(r)], r) IN
       /\ n <= MaxCount
       /\ reaction' = [reaction EXCEPT ![Row(r)] = [emoji |-> job[r].emoji, count |-> n]]
  /\ log' = Logged(r)
  /\ wrote' = wrote \cup {r}
  /\ Goto(r, "recipient")
  /\ UNCHANGED <<live, comment, spent, platform, pub, notes, job, made, tell, stale, unseen>>

\* The count does not fit into the column.
UpsertOverflows(r) ==
  /\ At(r, "write", {"react"})
  /\ job[r].emoji # Clear
  /\ NewCount(reaction[Row(r)], r) > MaxCount
  /\ Answer(r, "error")
  /\ Reads(r)

\* OnReaction: the target is read again (reactionRecipient); when it is gone,
\* or the reaction is to one's own, nobody is told.
FindRecipient(r) ==
  /\ At(r, "recipient", {"react"})
  /\ IF Exists(job[r].on) /\ AuthorOf(job[r].on) # job[r].user
       THEN Goto(r, "notify") /\ tell' = [tell EXCEPT ![r] = AuthorOf(job[r].on)]
       ELSE Goto(r, "read") /\ UNCHANGED tell
  /\ UNCHANGED <<tables, job, made, wrote, log, stale, unseen>>

NotifyReaction(r) ==
  /\ At(r, "notify", {"react"})
  /\ notes' = Told(IF job[r].on \in Posts THEN "post_reaction" ELSE "comment_reaction",
                   tell[r], r, job[r].on)
  /\ Goto(r, "read")
  /\ UNCHANGED <<live, comment, spent, reaction, platform, pub, job, made, tell, wrote, log, stale, unseen>>

\* What ReactionSummariesByTargets counts for an emoji.
Total(t, e) ==
  LET by == {u \in Users : reaction[t, u] # None /\ reaction[t, u].emoji = e}
  IN MapThenSumSet(LAMBDA u : reaction[t, u].count, by)

\* The sums are cast to INT: with one that does not fit the query fails.
Readable(t) == \A e \in Emojis : Total(t, e) <= MaxCount

\* Mutated form of ReadSummaries: targets are looked for among the posts.
ReadSummariesOfPosts(r) ==
  /\ At(r, "read", {"react"})
  /\ Answer(r, IF job[r].on \notin live THEN "notFound"
               ELSE IF ~Readable(job[r].on) THEN "error" ELSE "ok")
  /\ Reads(r)

\* The handler's Summaries, for the answer.
ReadSummaries(r) ==
  /\ At(r, "read", {"react"})
  /\ Answer(r, IF ~Exists(job[r].on) THEN "notFound"
               ELSE IF ~Readable(job[r].on) THEN "error" ELSE "ok")
  /\ Reads(r)

-----------------------------------------------------------------------------
(* Publications and platforms.                                             *)

\* PublicationService.Upsert: the right and the platform ...
CheckPublish(r) ==
  /\ At(r, "new", {"publish"})
  /\ IF ~MayPublish(job[r].user) THEN Answer(r, "forbidden")
     ELSE IF GetPlatform(job[r].platform) # "active" THEN Answer(r, "invalid")
     ELSE Goto(r, "post")
  /\ Reads(r)

\* Mutated form of CheckPost: the foreign key is left to find out.
CheckPostLater(r) ==
  /\ At(r, "post", {"publish"})
  /\ Goto(r, "write")
  /\ Reads(r)

\* ... then the post.
CheckPost(r) ==
  /\ At(r, "post", {"publish"})
  /\ IF job[r].on \in live THEN Goto(r, "write") ELSE Answer(r, "notFound")
  /\ Reads(r)

\* UpsertPublication.
Publish(r) ==
  /\ At(r, "write", {"publish"})
  /\ platform[job[r].platform] # "none"
  /\ pub' = pub \cup {<<job[r].on, job[r].platform>>}
  /\ wrote' = wrote \cup {r}
  /\ Answer(r, "ok")
  /\ UNCHANGED <<live, comment, spent, reaction, platform, notes, job, made, tell, log, stale, unseen>>

\* The platform was deleted: the foreign key refuses the row.
PublishRefused(r) ==
  /\ At(r, "write", {"publish"})
  /\ platform[job[r].platform] = "none"
  /\ Answer(r, "error")
  /\ Reads(r)

\* PublicationService.Delete: the post is not looked at.
CheckUnpublish(r) ==
  /\ At(r, "new", {"unpublish"})
  /\ IF ~MayPublish(job[r].user) THEN Answer(r, "forbidden")
     ELSE IF GetPlatform(job[r].platform) = "none" THEN Answer(r, "invalid")
     ELSE Goto(r, "write")
  /\ Reads(r)

\* DeletePublication.
Unpublish(r) ==
  /\ At(r, "write", {"unpublish"})
  /\ LET x == <<job[r].on, job[r].platform>> IN
     IF x \in pub THEN pub' = pub \ {x} /\ wrote' = wrote \cup {r} /\ Answer(r, "ok")
     ELSE Answer(r, "notFound") /\ UNCHANGED <<pub, wrote>>
  /\ UNCHANGED <<live, comment, spent, reaction, platform, notes, job, made, tell, log, stale, unseen>>

\* The administrator's check; CreatePlatform looks whether the key is taken.
CheckPlatform(r) ==
  /\ At(r, "new", PlatformOps)
  /\ IF job[r].user \notin Admins THEN Answer(r, "forbidden")
     ELSE IF job[r].op = "addPlatform" /\ GetPlatform(job[r].platform) # "none"
       THEN Answer(r, "conflict")
     ELSE Goto(r, "write")
  /\ Reads(r)

SetPlatform(r, to) ==
  /\ platform' = [platform EXCEPT ![job[r].platform] = to]
  /\ wrote' = wrote \cup {r}
  /\ Overtake(r, AboutPlatform(job[r].platform))
  /\ Answer(r, "ok")
  /\ UNCHANGED <<live, comment, spent, reaction, pub, notes, job, made, tell, log, unseen>>

StateOf(r) == IF job[r].active THEN "active" ELSE "inactive"

AddPlatform(r) ==
  /\ At(r, "write", {"addPlatform"})
  /\ platform[job[r].platform] = "none"
  /\ SetPlatform(r, StateOf(r))

UpdatePlatform(r) ==
  /\ At(r, "write", {"setPlatform"})
  /\ platform[job[r].platform] # "none"
  /\ SetPlatform(r, StateOf(r))

Used(k) == \E p \in Posts : <<p, k>> \in pub

\* DeletePlatform, unless a post is published there - deleted posts count.
DropPlatform(r) ==
  /\ At(r, "write", {"dropPlatform"})
  /\ platform[job[r].platform] # "none"
  /\ ~Used(job[r].platform)
  /\ SetPlatform(r, "none")

\* The key is taken by now (an error nobody translates); there is no such
\* platform; or it is in use.
PlatformRefused(r) ==
  /\ At(r, "write", PlatformOps)
  /\ LET k == job[r].platform
         is == platform[k]
     IN \/ job[r].op = "addPlatform" /\ is # "none" /\ Answer(r, "error")
        \/ job[r].op # "addPlatform" /\ is = "none" /\ Answer(r, "notFound")
        \/ job[r].op = "dropPlatform" /\ is # "none" /\ Used(k) /\ Answer(r, "conflict")
  /\ Reads(r)

-----------------------------------------------------------------------------
(* Statements that fail - the database is away, or the time of the request   *)
(* is over.  They are taken not to have happened.                            *)

\* An error that is passed on: that of any look-up and any write, but those below.
Fail(r) ==
  /\ MayFail
  /\ \/ At(r, "new", {"comment", "uncomment", "deletePost", "publish", "unpublish", "addPlatform"})
     \/ pc[r] \in {"post", "write"}
     \/ At(r, "read", {"react"})
  /\ Answer(r, "error")
  /\ Reads(r)

\* targetExists takes any error for a target that is not there, before the
\* reaction is written and again in the Summaries for its answer.
TargetUnseen(r) ==
  /\ MayFail
  /\ At(r, "new", {"react"}) \/ At(r, "read", {"react"})
  /\ Answer(r, "notFound")
  /\ unseen' = unseen \cup {r}
  /\ UNCHANGED <<tables, job, made, tell, wrote, log, stale>>

\* OnPostComment and OnReaction only log that they fail.
TellingFails(r) ==
  /\ MayFail
  /\ \/ At(r, "notify", {"comment"}) /\ Answer(r, "ok")
     \/ At(r, "recipient", {"react"}) /\ Goto(r, "read")
     \/ At(r, "notify", {"react"}) /\ Goto(r, "read")
  /\ Reads(r)

\* The process ends under the request: there is no answer that means anything.
Die(r) ==
  /\ MayFail
  /\ pc[r] \notin {"new", "done"}
  /\ Answer(r, "error")
  /\ Reads(r)

FailureStep(r) == Fail(r) \/ TargetUnseen(r) \/ TellingFails(r) \/ Die(r)

CommentStep(r) ==
  \/ CheckTarget(r) \/ CreateComment(r) \/ NotifyComment(r)
  \/ CheckOwn(r) \/ DeleteComment(r) \/ DeletePost(r) \/ DeleteMisses(r)

ReactionStep(r) ==
  \/ ClearReaction(r) \/ UpsertReaction(r) \/ UpsertOverflows(r)
  \/ FindRecipient(r) \/ NotifyReaction(r) \/ ReadSummaries(r)

PublicationStep(r) ==
  \/ CheckPublish(r) \/ CheckPost(r) \/ Publish(r) \/ PublishRefused(r)
  \/ CheckUnpublish(r) \/ Unpublish(r)
  \/ CheckPlatform(r) \/ AddPlatform(r) \/ UpdatePlatform(r) \/ DropPlatform(r)
  \/ PlatformRefused(r)

Next == \E r \in Requests :
  CommentStep(r) \/ ReactionStep(r) \/ PublicationStep(r) \/ FailureStep(r)

Spec == Init /\ [][Next]_vars

-----------------------------------------------------------------------------
(* Properties.                                                             *)

\* The last entries of a log that name one emoji.
LastRun(s) ==
  {i \in DOMAIN s : \A j \in i..Len(s) : s[j].emoji = s[Len(s)].emoji}

\* What the entries of a log leave of a reaction: the emoji that was written
\* last, counted since it was another.
Reacted(s) ==
  IF s = <<>> \/ s[Len(s)].emoji = Clear THEN None
  ELSE [emoji |-> s[Len(s)].emoji,
        count |-> MapThenSumSet(LAMBDA i : s[i].delta, LastRun(s))]

\* However the requests of several devices run into each other, the reaction of
\* a user is what the writes in their order leave, and no press is lost.
ReactionsAddUp == \A x \in Targets \X Users : reaction[x] = Reacted(log[x])

\* A notification tells the author of what exists, or once existed, about
\* somebody else who really did it; of a comment only while it is there.  A
\* request tells at most one.
NotesAreDue ==
  /\ \A n \in notes :
       /\ n.to # n.actor /\ n.actor = job[n.by].user /\ n.by \in wrote
       /\ n.kind = "post_comment" =>
            /\ n.on \in Comments /\ comment[n.on] # None
            /\ comment[n.on].author = n.actor /\ n.to = Author[comment[n.on].post]
       /\ n.kind # "post_comment" =>
            /\ job[n.by].op = "react" /\ job[n.by].on = n.on /\ n.on \notin Comments \ spent
            /\ job[n.by].emoji # Clear
       /\ n.kind = "post_reaction" => n.to = Author[n.on]
  /\ \A m, n \in notes : m.by = n.by => m = n

\* No post is published on a platform that is not there.
PublishedPlatformsExist == \A x \in pub : platform[x[2]] # "none"

\* A request whose subject nobody changes meanwhile only writes to a post that
\* is not deleted, a comment that exists, a platform that is active.
FreshWritesHitWhatIsThere ==
  [][\A r \in Requests \ stale :
       /\ CreateComment(r) => job[r].on \in live
       /\ UpsertReaction(r) => Exists(job[r].on)
       /\ Publish(r) => job[r].on \in live /\ platform[job[r].platform] = "active"]_vars

\* Comments disappear, and posts, only by their authors and administrators.
OnlyEntitledDelete ==
  [][\A t \in Targets : Exists(t) /\ ~Exists(t)' =>
       \E r \in Requests : /\ job[r].user \in {AuthorOf(t)} \cup Admins
                           /\ job[r].op \in {"uncomment", "deletePost"} /\ job[r].on = t
                           /\ pc[r] = "write" /\ pc'[r] = "done"]_vars

\* How far an answer can be believed.  "ok" was written, and what is refused was
\* not, whoever runs in between and whatever fails - but for a reaction: it can
\* be stored and answered with "not found", when its target goes in the middle
\* of the request or a query for the target fails (targetExists).
AnswersAreTrue ==
  \A r \in Requests :
    /\ answer[r] = "ok" => r \in wrote
    /\ answer[r] \in {"notFound", "forbidden", "invalid", "conflict"} /\ r \in wrote =>
         /\ job[r].op = "react" /\ answer[r] = "notFound"
         /\ r \in stale \cup unseen

(* The inductive invariant behind them.                                     *)

\* What a request has found and written at each of its steps.
InOrder(r) ==
  LET j == job[r] IN
  /\ pc[r] = "new" => r \notin stale
  /\ pc[r] \in {"new", "post", "write"} => r \notin wrote /\ answer[r] = "none"
  /\ pc[r] \in {"recipient", "notify", "read"} => r \in wrote /\ answer[r] = "none"
  /\ pc[r] \in {"recipient", "read"} => j.op = "react"
  /\ pc[r] = "notify" => j.op \in {"comment", "react"}
  /\ \A n \in notes : n.by = r => pc[r] \in {"read", "done"}

\* What a request that nobody overtakes has checked is still so.
CheckHolds(r) ==
  LET j == job[r] IN
  /\ pc[r] = "write" /\ j.op \in {"comment", "react"} => Exists(j.on)
  /\ pc[r] \in {"recipient", "notify", "read"} /\ j.op = "react" => Exists(j.on)
  /\ pc[r] \in {"post", "write"} /\ j.op = "publish" => platform[j.platform] = "active"
  /\ pc[r] = "write" /\ j.op = "publish" => j.on \in live

\* Who deletes is entitled to, and whom a request tells is due to be told.
RightHolds(r) ==
  LET j == job[r] IN
  /\ pc[r] = "write" /\ j.op \in {"uncomment", "deletePost"} =>
       /\ j.user \notin Admins /\ Exists(j.on) => j.user = AuthorOf(j.on)
       /\ j.op = "uncomment" => j.on \in spent
  /\ pc[r] = "notify" =>
       /\ tell[r] \in Users /\ tell[r] # j.user
       /\ j.op = "comment" =>
            /\ made[r] \in spent /\ tell[r] = Author[j.on]
            /\ comment[made[r]] # None => comment[made[r]] = [post |-> j.on, author |-> j.user]
       /\ j.op = "react" => j.emoji # Clear /\ j.on \notin Comments \ spent
       /\ j.op = "react" /\ j.on \in Posts => tell[r] = Author[j.on]
  /\ pc[r] = "recipient" => j.emoji # Clear

StepsAreInOrder == \A r \in Requests : InOrder(r)
FreshChecksHold == \A r \in Requests \ stale : CheckHolds(r)
RightsHold      == \A r \in Requests : RightHolds(r)

IInv ==
  /\ TypeOK
  /\ \A c \in Comments : comment[c] # None => c \in spent
  /\ StepsAreInOrder
  /\ FreshChecksHold
  /\ RightsHold
  /\ NotesAreDue
  /\ PublishedPlatformsExist
  /\ AnswersAreTrue
=============================================================================
