-------------------------- MODULE Engagement_proofs --------------------------
(***************************************************************************)
(* Engagement for any users, posts, comments, platforms and number of      *)
(* concurrent requests.                                                    *)
(***************************************************************************)
EXTENDS Engagement, FiniteSetTheorems, SequenceTheorems,
        WellFoundedInduction, TLAPS

\* The rows of a comment and of a reaction.
CommentRows  == [post : Posts, author : Users]
ReactionRows == [emoji : Emojis, count : 1..MaxCount]

\* The initial states satisfy the invariant.
LEMMA InitInv == Init => IInv
  <1> SUFFICES ASSUME Init PROVE IInv
    OBVIOUS
  <1> USE EngagementAssumption DEF Init
  <1>1. TypeOK
    <2>1. job \in [Requests -> Job]
      OBVIOUS
    <2>2. pub \subseteq Posts \X Platforms
      OBVIOUS
    <2>3. log \in [Targets \X Users -> Seq([emoji : Emojis \cup {Clear}, delta : Nat \ {0}])]
      OBVIOUS
    <2>4. pc \in [Requests -> RequestPCs] /\ answer \in [Requests -> Answers]
      BY DEF RequestPCs, Answers
    <2>5. reaction \in [Targets \X Users -> [emoji : Emojis, count : 1..MaxCount] \cup {None}]
      OBVIOUS
    <2> QED
      BY <2>1, <2>2, <2>3, <2>4, <2>5 DEF TypeOK, Notes
  <1>2. StepsAreInOrder
    BY DEF StepsAreInOrder, InOrder
  <1>3. FreshChecksHold /\ RightsHold
    BY DEF FreshChecksHold, CheckHolds, RightsHold, RightHolds
  <1>4. NotesAreDue
    BY DEF NotesAreDue
  <1>5. PublishedPlatformsExist
    BY DEF PublishedPlatformsExist
  <1>6. AnswersAreTrue
    BY DEF AnswersAreTrue
  <1> QED
    BY <1>1, <1>2, <1>3, <1>4, <1>5, <1>6 DEF IInv

-----------------------------------------------------------------------------
(* Helpers.                                                                *)

\* The fields of what a request asks for.
LEMMA JobFields ==
  ASSUME TypeOK, NEW r \in Requests
  PROVE  /\ job[r] \in Job
         /\ job[r].op \in Ops /\ job[r].user \in Users /\ job[r].on \in Posts \cup Comments
         /\ job[r].platform \in Platforms /\ job[r].emoji \in Emojis \cup {Clear}
         /\ job[r].delta \in Nat \ {0}
         /\ job[r].op \in {"comment", "publish", "unpublish", "deletePost"} => job[r].on \in Posts
         /\ job[r].op = "uncomment" => job[r].on \in Comments
  <1>1. job[r] \in Job
    BY DEF TypeOK
  <1>2. job[r] \in Fields
    BY <1>1 DEF Job
  <1>3. /\ job[r].op \in {"comment", "publish", "unpublish", "deletePost"} => job[r].on \in Posts
        /\ job[r].op = "uncomment" => job[r].on \in Comments
    BY <1>1 DEF Job
  <1>4. /\ job[r].op \in Ops /\ job[r].user \in Users /\ job[r].on \in Posts \cup Comments
        /\ job[r].platform \in Platforms /\ job[r].emoji \in Emojis \cup {Clear}
        /\ job[r].delta \in Nat \ {0}
    BY <1>2 DEF Fields, Targets
  <1> QED
    BY <1>1, <1>3, <1>4

\* Where a request is and what it answered are its own.
Moves(r) ==
  /\ pc' \in [Requests -> RequestPCs] /\ answer' \in [Requests -> Answers]
  /\ \A q \in Requests \ {r} : pc'[q] = pc[q] /\ answer'[q] = answer[q]

LEMMA GotoMoves ==
  ASSUME TypeOK, NEW r \in Requests, NEW where \in RequestPCs, Goto(r, where)
  PROVE  Moves(r) /\ pc'[r] = where /\ answer'[r] = answer[r]
  BY DEF Goto, Moves, TypeOK

LEMMA AnswerMoves ==
  ASSUME TypeOK, NEW r \in Requests, NEW a \in Answers, Answer(r, a)
  PROVE  Moves(r) /\ pc'[r] = "done" /\ answer'[r] = a
  BY DEF Answer, Moves, TypeOK, RequestPCs

\* A request that ends keeps what is said of its steps, if its answer is true.
LEMMA AnswerIsSound ==
  ASSUME NEW r \in Requests, pc'[r] = "done"
  PROVE  InOrder(r)' /\ CheckHolds(r)' /\ RightHolds(r)'
  BY DEF InOrder, CheckHolds, RightHolds

\* A step that leaves posts, comments and platforms as they are.
LEMMA QuietStep ==
  ASSUME IInv, NEW r \in Requests, Moves(r),
         UNCHANGED <<live, comment, spent, platform, job, made, stale>>,
         reaction' \in [Targets \X Users -> ReactionRows \cup {None}],
         log' \in [Targets \X Users -> Seq([emoji : Emojis \cup {Clear}, delta : Nat \ {0}])],
         pub' \subseteq Posts \X Platforms, PublishedPlatformsExist',
         notes' \subseteq Notes, NotesAreDue',
         \A n \in notes' : n \in notes \/ n.by = r,
         tell' \in [Requests -> Users \cup {None}], \A q \in Requests \ {r} : tell'[q] = tell[q],
         wrote \subseteq wrote', wrote' \subseteq wrote \cup {r},
         unseen' \in {unseen, unseen \cup {r}},
         InOrder(r)', r \notin stale => CheckHolds(r)', RightHolds(r)',
         /\ answer'[r] = "ok" => r \in wrote'
         /\ answer'[r] \in {"notFound", "forbidden", "invalid", "conflict"} /\ r \in wrote' =>
              /\ job[r].op = "react" /\ answer'[r] = "notFound"
              /\ r \in stale \cup unseen'
  PROVE  IInv'
  <1> USE DEF IInv
  <1>1. TypeOK'
    BY DEF TypeOK, Moves, ReactionRows
  <1>2. StepsAreInOrder'
    <2> SUFFICES ASSUME NEW q \in Requests PROVE InOrder(q)'
      BY DEF StepsAreInOrder
    <2>1. CASE q = r
      BY <2>1
    <2>2. CASE q # r
      <3>1. InOrder(q) /\ pc'[q] = pc[q] /\ answer'[q] = answer[q]
        BY <2>2 DEF StepsAreInOrder, Moves
      <3> QED
        BY <2>2, <3>1 DEF InOrder
    <2> QED
      BY <2>1, <2>2
  <1>3. FreshChecksHold'
    <2> SUFFICES ASSUME NEW q \in Requests, q \notin stale' PROVE CheckHolds(q)'
      BY DEF FreshChecksHold
    <2>1. CASE q = r
      BY <2>1
    <2>2. CASE q # r
      <3>1. CheckHolds(q) /\ pc'[q] = pc[q]
        BY <2>2 DEF FreshChecksHold, Moves
      <3> QED
        BY <3>1 DEF CheckHolds, Exists, GetComment
    <2> QED
      BY <2>1, <2>2
  <1>4. RightsHold'
    <2> SUFFICES ASSUME NEW q \in Requests PROVE RightHolds(q)'
      BY DEF RightsHold
    <2>1. CASE q = r
      BY <2>1
    <2>2. CASE q # r
      <3>1. RightHolds(q) /\ pc'[q] = pc[q] /\ tell'[q] = tell[q]
        BY <2>2 DEF RightsHold, Moves
      <3> QED
        BY <3>1 DEF RightHolds, Exists, GetComment, AuthorOf
    <2> QED
      BY <2>1, <2>2
  <1>5. AnswersAreTrue'
    BY DEF AnswersAreTrue, Moves
  <1> QED
    BY <1>1, <1>2, <1>3, <1>4, <1>5

\* A step that only reads, and ends the request.
LEMMA AnswerReads ==
  ASSUME IInv, NEW r \in Requests, NEW a \in Answers, Answer(r, a), Reads(r),
         a = "ok" => r \in wrote,
         a \in {"notFound", "forbidden", "invalid", "conflict"} /\ r \in wrote =>
           job[r].op = "react" /\ a = "notFound" /\ r \in stale \cup unseen
  PROVE  IInv'
  <1>1. TypeOK
    BY DEF IInv
  <1>2. Moves(r) /\ pc'[r] = "done" /\ answer'[r] = a
    BY <1>1, AnswerMoves
  <1>3. InOrder(r)' /\ CheckHolds(r)' /\ RightHolds(r)'
    BY <1>2, AnswerIsSound
  <1>4. /\ UNCHANGED <<live, comment, spent, platform, job, made, stale, unseen>>
        /\ UNCHANGED <<reaction, log, pub, notes, tell, wrote>>
    BY DEF Reads, tables
  <1>5. /\ reaction' \in [Targets \X Users -> ReactionRows \cup {None}]
        /\ log' \in [Targets \X Users -> Seq([emoji : Emojis \cup {Clear}, delta : Nat \ {0}])]
        /\ pub' \subseteq Posts \X Platforms /\ notes' \subseteq Notes
        /\ tell' \in [Requests -> Users \cup {None}]
    BY <1>1, <1>4 DEF TypeOK, ReactionRows
  <1>6. PublishedPlatformsExist' /\ NotesAreDue'
    BY <1>4 DEF IInv, PublishedPlatformsExist, NotesAreDue
  <1> QED
    BY <1>2, <1>3, <1>4, <1>5, <1>6, QuietStep

\* A step that only reads, and goes on.
LEMMA GotoReads ==
  ASSUME IInv, NEW r \in Requests, NEW where \in RequestPCs, Goto(r, where), Reads(r),
         pc[r] \in {"new", "post", "write", "recipient", "notify", "read"},
         InOrder(r)', r \notin stale => CheckHolds(r)', RightHolds(r)'
  PROVE  IInv'
  <1>1. TypeOK
    BY DEF IInv
  <1>2. Moves(r) /\ pc'[r] = where /\ answer'[r] = answer[r]
    BY <1>1, GotoMoves
  <1>3. answer[r] = "none"
    BY DEF IInv, StepsAreInOrder, InOrder
  <1>4. /\ UNCHANGED <<live, comment, spent, platform, job, made, stale, unseen>>
        /\ UNCHANGED <<reaction, log, pub, notes, tell, wrote>>
    BY DEF Reads, tables
  <1>5. /\ reaction' \in [Targets \X Users -> ReactionRows \cup {None}]
        /\ log' \in [Targets \X Users -> Seq([emoji : Emojis \cup {Clear}, delta : Nat \ {0}])]
        /\ pub' \subseteq Posts \X Platforms /\ notes' \subseteq Notes
        /\ tell' \in [Requests -> Users \cup {None}]
    BY <1>1, <1>4 DEF TypeOK, ReactionRows
  <1>6. PublishedPlatformsExist' /\ NotesAreDue'
    BY <1>4 DEF IInv, PublishedPlatformsExist, NotesAreDue
  <1> QED
    BY <1>2, <1>3, <1>4, <1>5, <1>6, QuietStep

-----------------------------------------------------------------------------
(* Steps that only read.                                                   *)

\* What a request that goes on to write has found: nobody has overtaken it, and
\* it has told nobody.
LEMMA GoesToWrite ==
  ASSUME IInv, NEW r \in Requests, pc[r] \in {"new", "post"}, Goto(r, "write"), Reads(r),
         r \notin stale /\ job[r].op \in {"comment", "react"} => Exists(job[r].on),
         r \notin stale /\ job[r].op = "publish" =>
           platform[job[r].platform] = "active" /\ job[r].on \in live,
         job[r].op \in {"uncomment", "deletePost"} =>
           Exists(job[r].on) /\ (job[r].user \notin Admins => job[r].user = AuthorOf(job[r].on))
  PROVE  IInv'
  <1>1. TypeOK /\ InOrder(r)
    BY DEF IInv, StepsAreInOrder
  <1>2. "write" \in RequestPCs
    BY DEF RequestPCs
  <1>3. pc'[r] = "write" /\ answer'[r] = answer[r]
    BY <1>1, <1>2, GotoMoves
  <1>4. UNCHANGED <<live, comment, spent, platform, job, made, stale, unseen, notes, tell, wrote>>
    BY DEF Reads, tables
  <1>5. InOrder(r)'
    BY <1>1, <1>3, <1>4 DEF InOrder
  <1>6. r \notin stale => CheckHolds(r)'
    BY <1>3, <1>4 DEF CheckHolds, Exists, GetComment
  <1>7. RightHolds(r)'
    <2>1. job[r].op = "uncomment" => job[r].on \in Comments /\ job[r].on \notin Posts
      BY <1>1, JobFields, EngagementAssumption
    <2>2. job[r].op = "uncomment" => job[r].on \in spent
      BY <2>1 DEF Exists, GetComment, IInv
    <2> QED
      BY <1>3, <1>4, <2>2 DEF RightHolds, Exists, GetComment, AuthorOf
  <1> QED
    BY <1>2, <1>5, <1>6, <1>7, GotoReads

LEMMA CheckTargetStep == ASSUME IInv, NEW r \in Requests, CheckTarget(r) PROVE IInv'
  <1>1. Reads(r) /\ pc[r] = "new" /\ job[r].op \in {"comment", "react"}
    BY DEF CheckTarget, At
  <1>2. r \notin wrote
    BY <1>1 DEF IInv, StepsAreInOrder, InOrder
  <1>3. CASE Exists(job[r].on)
    <2>1. Goto(r, "write")
      BY <1>3 DEF CheckTarget
    <2> QED
      BY <1>1, <1>3, <2>1, GoesToWrite
  <1>4. CASE ~Exists(job[r].on)
    <2>1. Answer(r, "notFound") /\ "notFound" \in Answers
      BY <1>4 DEF CheckTarget, Answers
    <2> QED
      BY <1>1, <1>2, <2>1, AnswerReads
  <1> QED
    BY <1>3, <1>4

LEMMA CheckOwnStep == ASSUME IInv, NEW r \in Requests, CheckOwn(r) PROVE IInv'
  <1>1. Reads(r) /\ pc[r] = "new" /\ job[r].op \in {"uncomment", "deletePost"}
    BY DEF CheckOwn, At
  <1>2. r \notin wrote
    BY <1>1 DEF IInv, StepsAreInOrder, InOrder
  <1>3. CASE Goto(r, "write") /\ Exists(job[r].on)
             /\ (job[r].user \notin Admins => job[r].user = AuthorOf(job[r].on))
    BY <1>1, <1>3, GoesToWrite
  <1>4. CASE Answer(r, "notFound") \/ Answer(r, "forbidden")
    <2>1. "notFound" \in Answers /\ "forbidden" \in Answers
      BY DEF Answers
    <2> QED
      BY <1>1, <1>2, <1>4, <2>1, AnswerReads
  <1> QED
    BY <1>3, <1>4 DEF CheckOwn

LEMMA CheckPublishStep == ASSUME IInv, NEW r \in Requests, CheckPublish(r) PROVE IInv'
  <1>1. Reads(r) /\ pc[r] = "new" /\ job[r].op = "publish"
    BY DEF CheckPublish, At
  <1>2. r \notin wrote /\ answer[r] = "none" /\ r \notin stale /\ InOrder(r) /\ TypeOK
    BY <1>1 DEF IInv, StepsAreInOrder, InOrder
  <1>3. CASE Goto(r, "post") /\ platform[job[r].platform] = "active"
    <2>1. "post" \in RequestPCs
      BY DEF RequestPCs
    <2>2. pc'[r] = "post" /\ answer'[r] = "none"
      BY <1>2, <1>3, <2>1, GotoMoves
    <2>3. UNCHANGED <<live, comment, spent, platform, job, made, stale, unseen, notes, tell, wrote>>
      BY <1>1 DEF Reads, tables
    <2>4. InOrder(r)' /\ CheckHolds(r)' /\ RightHolds(r)'
      BY <1>1, <1>2, <1>3, <2>2, <2>3 DEF InOrder, CheckHolds, RightHolds
    <2> QED
      BY <1>1, <1>3, <2>1, <2>4, GotoReads
  <1>4. CASE Answer(r, "forbidden") \/ Answer(r, "invalid")
    <2>1. "forbidden" \in Answers /\ "invalid" \in Answers
      BY DEF Answers
    <2> QED
      BY <1>1, <1>2, <1>4, <2>1, AnswerReads
  <1> QED
    BY <1>3, <1>4 DEF CheckPublish, GetPlatform

LEMMA CheckPostStep == ASSUME IInv, NEW r \in Requests, CheckPost(r) PROVE IInv'
  <1>1. Reads(r) /\ pc[r] = "post" /\ job[r].op = "publish"
    BY DEF CheckPost, At
  <1>2. r \notin wrote /\ (r \notin stale => platform[job[r].platform] = "active")
    BY <1>1 DEF IInv, StepsAreInOrder, InOrder, FreshChecksHold, CheckHolds
  <1>3. CASE Goto(r, "write") /\ job[r].on \in live
    BY <1>1, <1>2, <1>3, GoesToWrite
  <1>4. CASE Answer(r, "notFound")
    <2>1. "notFound" \in Answers
      BY DEF Answers
    <2> QED
      BY <1>1, <1>2, <1>4, <2>1, AnswerReads
  <1> QED
    BY <1>3, <1>4 DEF CheckPost

LEMMA CheckUnpublishStep == ASSUME IInv, NEW r \in Requests, CheckUnpublish(r) PROVE IInv'
  <1>1. Reads(r) /\ pc[r] = "new" /\ job[r].op = "unpublish"
    BY DEF CheckUnpublish, At
  <1>2. r \notin wrote
    BY <1>1 DEF IInv, StepsAreInOrder, InOrder
  <1>3. CASE Goto(r, "write")
    BY <1>1, <1>3, GoesToWrite
  <1>4. CASE Answer(r, "forbidden") \/ Answer(r, "invalid")
    <2>1. "forbidden" \in Answers /\ "invalid" \in Answers
      BY DEF Answers
    <2> QED
      BY <1>1, <1>2, <1>4, <2>1, AnswerReads
  <1> QED
    BY <1>3, <1>4 DEF CheckUnpublish

LEMMA CheckPlatformStep == ASSUME IInv, NEW r \in Requests, CheckPlatform(r) PROVE IInv'
  <1>1. Reads(r) /\ pc[r] = "new" /\ job[r].op \in PlatformOps
    BY DEF CheckPlatform, At
  <1>2. r \notin wrote
    BY <1>1 DEF IInv, StepsAreInOrder, InOrder
  <1>3. CASE Goto(r, "write")
    BY <1>1, <1>3, GoesToWrite DEF PlatformOps
  <1>4. CASE Answer(r, "forbidden") \/ Answer(r, "conflict")
    <2>1. "forbidden" \in Answers /\ "conflict" \in Answers
      BY DEF Answers
    <2> QED
      BY <1>1, <1>2, <1>4, <2>1, AnswerReads
  <1> QED
    BY <1>3, <1>4 DEF CheckPlatform

\* Requests that are refused where they would have written.
LEMMA RefusedStep ==
  ASSUME IInv, NEW r \in Requests,
         DeleteMisses(r) \/ UpsertOverflows(r) \/ PublishRefused(r) \/ PlatformRefused(r)
  PROVE  IInv'
  <1>1. Reads(r) /\ pc[r] = "write"
    BY DEF DeleteMisses, UpsertOverflows, PublishRefused, PlatformRefused, At
  <1>2. r \notin wrote
    BY <1>1 DEF IInv, StepsAreInOrder, InOrder
  <1>3. Answer(r, "error") \/ Answer(r, "notFound") \/ Answer(r, "conflict")
    BY DEF DeleteMisses, UpsertOverflows, PublishRefused, PlatformRefused
  <1>4. "error" \in Answers /\ "notFound" \in Answers /\ "conflict" \in Answers
    BY DEF Answers
  <1> QED
    BY <1>1, <1>2, <1>3, <1>4, AnswerReads

LEMMA ReadSummariesStep == ASSUME IInv, NEW r \in Requests, ReadSummaries(r) PROVE IInv'
  <1>1. Reads(r) /\ pc[r] = "read" /\ job[r].op = "react"
    BY DEF ReadSummaries, At
  <1>2. r \in wrote /\ (r \notin stale => Exists(job[r].on))
    BY <1>1 DEF IInv, StepsAreInOrder, InOrder, FreshChecksHold, CheckHolds
  <1>3. /\ "error" \in Answers /\ "notFound" \in Answers /\ "ok" \in Answers
    BY DEF Answers
  <1>4. CASE ~Exists(job[r].on)
    <2>1. Answer(r, "notFound")
      BY <1>4 DEF ReadSummaries
    <2> QED
      BY <1>1, <1>2, <1>3, <1>4, <2>1, AnswerReads
  <1>5. CASE Exists(job[r].on)
    <2>1. Answer(r, "error") \/ Answer(r, "ok")
      BY <1>5 DEF ReadSummaries
    <2> QED
      BY <1>1, <1>2, <1>3, <2>1, AnswerReads
  <1> QED
    BY <1>4, <1>5

\* A failed query in place of an answer: the request takes note of it.
LEMMA TargetUnseenStep == ASSUME IInv, NEW r \in Requests, TargetUnseen(r) PROVE IInv'
  <1>1. TypeOK /\ job[r].op = "react" /\ unseen' = unseen \cup {r} /\ "notFound" \in Answers
    BY DEF TargetUnseen, At, IInv, Answers
  <1>2. Moves(r) /\ pc'[r] = "done" /\ answer'[r] = "notFound"
    BY <1>1, AnswerMoves DEF TargetUnseen
  <1>3. InOrder(r)' /\ CheckHolds(r)' /\ RightHolds(r)'
    BY <1>2, AnswerIsSound
  <1>4. /\ UNCHANGED <<live, comment, spent, platform, job, made, stale>>
        /\ UNCHANGED <<reaction, log, pub, notes, tell, wrote>>
    BY DEF TargetUnseen, tables
  <1>5. /\ reaction' \in [Targets \X Users -> ReactionRows \cup {None}]
        /\ log' \in [Targets \X Users -> Seq([emoji : Emojis \cup {Clear}, delta : Nat \ {0}])]
        /\ pub' \subseteq Posts \X Platforms /\ notes' \subseteq Notes
        /\ tell' \in [Requests -> Users \cup {None}]
    BY <1>1, <1>4 DEF TypeOK, ReactionRows
  <1>6. PublishedPlatformsExist' /\ NotesAreDue'
    BY <1>4 DEF IInv, PublishedPlatformsExist, NotesAreDue
  <1> QED
    BY <1>1, <1>2, <1>3, <1>4, <1>5, <1>6, QuietStep

\* Nobody is told, and the request goes on.
LEMMA TellingFailsStep == ASSUME IInv, NEW r \in Requests, TellingFails(r) PROVE IInv'
  <1>1. /\ TypeOK /\ InOrder(r) /\ Reads(r) /\ r \in wrote /\ answer[r] = "none"
        /\ (r \notin stale => CheckHolds(r))
    BY DEF TellingFails, At, IInv, StepsAreInOrder, InOrder, FreshChecksHold
  <1>2. CASE Answer(r, "ok")
    <2>1. "ok" \in Answers
      BY DEF Answers
    <2> QED
      BY <1>1, <1>2, <2>1, AnswerReads
  <1>3. CASE pc[r] \in {"recipient", "notify"} /\ job[r].op = "react" /\ Goto(r, "read")
    <2>1. "read" \in RequestPCs
      BY DEF RequestPCs
    <2>2. pc'[r] = "read" /\ answer'[r] = "none"
      BY <1>1, <1>3, <2>1, GotoMoves
    <2>3. UNCHANGED <<live, comment, spent, platform, job, made, stale, unseen, notes, tell, wrote>>
      BY <1>1 DEF Reads, tables
    <2>4. InOrder(r)' /\ RightHolds(r)'
      BY <1>1, <1>3, <2>2, <2>3 DEF InOrder, RightHolds
    <2>5. r \notin stale => CheckHolds(r)'
      BY <1>1, <1>3, <2>2, <2>3 DEF CheckHolds, Exists, GetComment
    <2> QED
      BY <1>1, <1>3, <2>1, <2>4, <2>5, GotoReads
  <1> QED
    BY <1>2, <1>3 DEF TellingFails, At

LEMMA FailureSteps == ASSUME IInv, NEW r \in Requests, FailureStep(r) PROVE IInv'
  <1>1. "error" \in Answers
    BY DEF Answers
  <1>2. CASE Fail(r) \/ Die(r)
    BY <1>1, <1>2, AnswerReads DEF Fail, Die
  <1> QED
    BY <1>2, TargetUnseenStep, TellingFailsStep DEF FailureStep

-----------------------------------------------------------------------------
(* Steps that write, and leave posts, comments and platforms as they are.  *)

\* The log grows by what the request writes.
LEMMA LoggedType ==
  ASSUME TypeOK, NEW r \in Requests
  PROVE  Logged(r) \in [Targets \X Users -> Seq([emoji : Emojis \cup {Clear}, delta : Nat \ {0}])]
  <1> DEFINE Entry == [emoji : Emojis \cup {Clear}, delta : Nat \ {0}]
             entry == [emoji |-> job[r].emoji, delta |-> job[r].delta]
  <1>1. entry \in Entry
    BY JobFields
  <1>2. log \in [Targets \X Users -> Seq(Entry)]
    BY DEF TypeOK
  <1>3. Row(r) \in Targets \X Users
    BY JobFields DEF Row, Targets
  <1> HIDE DEF entry, Entry
  <1>4. Append(log[Row(r)], entry) \in Seq(Entry)
    BY <1>1, <1>2, <1>3
  <1>5. [log EXCEPT ![Row(r)] = Append(@, entry)] \in [Targets \X Users -> Seq(Entry)]
    BY <1>2, <1>3, <1>4
  <1> QED
    BY <1>5 DEF Logged, entry, Entry

\* What a reaction that has been written leaves to say.
LEMMA ReactionWritten ==
  ASSUME IInv, NEW r \in Requests, pc[r] = "write", job[r].op = "react",
         NEW where \in {"recipient", "read"}, Goto(r, where),
         where = "recipient" => job[r].emoji # Clear,
         reaction' \in [Targets \X Users -> ReactionRows \cup {None}], log' = Logged(r),
         wrote' = wrote \cup {r},
         UNCHANGED <<live, comment, spent, platform, pub, notes, job, made, tell, stale, unseen>>
  PROVE  IInv'
  <1>1. TypeOK /\ where \in RequestPCs
    BY DEF IInv, RequestPCs
  <1>2. Moves(r) /\ pc'[r] = where /\ answer'[r] = answer[r]
    BY <1>1, GotoMoves
  <1>3. InOrder(r) /\ answer[r] = "none" /\ \A n \in notes : n.by # r
    BY DEF IInv, StepsAreInOrder, InOrder
  <1>4. InOrder(r)'
    BY <1>2, <1>3 DEF InOrder
  <1>5. r \notin stale => CheckHolds(r)'
    <2>1. r \notin stale => Exists(job[r].on)
      BY DEF IInv, FreshChecksHold, CheckHolds
    <2> QED
      BY <1>2, <2>1 DEF CheckHolds, Exists, GetComment
  <1>6. RightHolds(r)'
    BY <1>2 DEF RightHolds
  <1>7. log' \in [Targets \X Users -> Seq([emoji : Emojis \cup {Clear}, delta : Nat \ {0}])]
    BY <1>1, LoggedType
  <1>8. PublishedPlatformsExist' /\ NotesAreDue'
    BY DEF IInv, PublishedPlatformsExist, NotesAreDue
  <1>9. pub' \subseteq Posts \X Platforms /\ notes' \subseteq Notes
        /\ tell' \in [Requests -> Users \cup {None}]
    BY <1>1 DEF TypeOK
  <1> QED
    BY <1>2, <1>3, <1>4, <1>5, <1>6, <1>7, <1>8, <1>9, QuietStep

LEMMA ClearReactionStep == ASSUME IInv, NEW r \in Requests, ClearReaction(r) PROVE IInv'
  <1>1. reaction' \in [Targets \X Users -> ReactionRows \cup {None}]
    BY DEF ClearReaction, IInv, TypeOK, ReactionRows
  <1> QED
    BY <1>1, ReactionWritten DEF ClearReaction, At

LEMMA UpsertReactionStep == ASSUME IInv, NEW r \in Requests, UpsertReaction(r) PROVE IInv'
  <1> DEFINE n == NewCount(reaction[Row(r)], r)
             row == [emoji |-> job[r].emoji, count |-> n]
  <1>1. TypeOK /\ Row(r) \in Targets \X Users
    BY JobFields DEF IInv, Row, Targets
  <1>2. reaction \in [Targets \X Users -> ReactionRows \cup {None}]
    BY <1>1 DEF TypeOK, ReactionRows
  <1>3. n \in 1..MaxCount
    <2>1. job[r].delta \in Nat \ {0} /\ MaxCount \in Nat \ {0}
      BY <1>1, JobFields, EngagementAssumption
    <2>2. reaction[Row(r)] # None => reaction[Row(r)].count \in 1..MaxCount
      BY <1>1, <1>2 DEF ReactionRows
    <2>3. n <= MaxCount
      BY DEF UpsertReaction
    <2>4. n \in Nat \ {0}
      BY <2>1, <2>2 DEF NewCount
    <2> QED
      BY <2>1, <2>3, <2>4
  <1>4. job[r].emoji \in Emojis
    BY <1>1, JobFields DEF UpsertReaction
  <1>5. reaction' = [reaction EXCEPT ![Row(r)] = row]
    BY DEF UpsertReaction
  <1> HIDE DEF n
  <1>6. row \in ReactionRows
    BY <1>3, <1>4 DEF ReactionRows
  <1> HIDE DEF row
  <1>7. reaction' \in [Targets \X Users -> ReactionRows \cup {None}]
    BY <1>2, <1>5, <1>6
  <1> QED
    BY <1>7, ReactionWritten DEF UpsertReaction, At

LEMMA FindRecipientStep == ASSUME IInv, NEW r \in Requests, FindRecipient(r) PROVE IInv'
  <1>1. /\ TypeOK /\ InOrder(r) /\ r \in wrote /\ answer[r] = "none"
        /\ pc[r] = "recipient" /\ job[r].op = "react" /\ job[r].emoji # Clear
    BY DEF FindRecipient, At, IInv, StepsAreInOrder, InOrder, RightsHold, RightHolds
  <1>2. r \notin stale => Exists(job[r].on)
    BY <1>1 DEF IInv, FreshChecksHold, CheckHolds
  <1>3. /\ UNCHANGED <<live, comment, spent, platform, job, made, stale, unseen>>
        /\ UNCHANGED <<reaction, log, pub, notes, wrote>>
    BY DEF FindRecipient, tables
  <1>4. /\ reaction' \in [Targets \X Users -> ReactionRows \cup {None}]
        /\ log' \in [Targets \X Users -> Seq([emoji : Emojis \cup {Clear}, delta : Nat \ {0}])]
        /\ pub' \subseteq Posts \X Platforms /\ notes' \subseteq Notes
    BY <1>1, <1>3 DEF TypeOK, ReactionRows
  <1>5. PublishedPlatformsExist' /\ NotesAreDue'
    BY <1>3 DEF IInv, PublishedPlatformsExist, NotesAreDue
  <1>6. \A n \in notes : n.by # r
    BY <1>1 DEF InOrder
  <1>7. "notify" \in RequestPCs /\ "read" \in RequestPCs
    BY DEF RequestPCs
  <1>8. CASE /\ Exists(job[r].on) /\ AuthorOf(job[r].on) # job[r].user
             /\ Goto(r, "notify") /\ tell' = [tell EXCEPT ![r] = AuthorOf(job[r].on)]
    <2>1. Moves(r) /\ pc'[r] = "notify" /\ answer'[r] = "none"
      BY <1>1, <1>7, <1>8, GotoMoves
    <2>2. AuthorOf(job[r].on) \in Users /\ job[r].on \notin Comments \ spent
      <3>1. CASE job[r].on \in Posts
        BY <3>1, EngagementAssumption DEF AuthorOf
      <3>2. CASE job[r].on \notin Posts
        <4>1. job[r].on \in Comments /\ comment[job[r].on] # None
          BY <1>1, <1>8, <3>2, JobFields DEF Exists, GetComment
        <4>2. comment[job[r].on] \in CommentRows /\ job[r].on \in spent
          BY <4>1 DEF IInv, TypeOK, CommentRows
        <4> QED
          BY <3>2, <4>2 DEF AuthorOf, CommentRows
      <3> QED
        BY <3>1, <3>2
    <2>3. /\ tell' \in [Requests -> Users \cup {None}] /\ tell'[r] = AuthorOf(job[r].on)
          /\ \A q \in Requests \ {r} : tell'[q] = tell[q]
      BY <1>1, <1>8, <2>2 DEF TypeOK
    <2>4. InOrder(r)'
      BY <1>1, <1>3, <1>6, <2>1 DEF InOrder
    <2>5. CheckHolds(r)'
      BY <1>1, <1>3, <1>8, <2>1 DEF CheckHolds, Exists, GetComment
    <2>6. RightHolds(r)'
      BY <1>1, <1>3, <1>8, <2>1, <2>2, <2>3 DEF RightHolds, AuthorOf
    <2> QED
      BY <1>1, <1>3, <1>4, <1>5, <2>1, <2>3, <2>4, <2>5, <2>6, QuietStep
  <1>9. CASE Goto(r, "read") /\ UNCHANGED tell
    <2>1. Moves(r) /\ pc'[r] = "read" /\ answer'[r] = "none"
      BY <1>1, <1>7, <1>9, GotoMoves
    <2>2. InOrder(r)' /\ RightHolds(r)'
      BY <1>1, <1>3, <1>6, <2>1 DEF InOrder, RightHolds
    <2>3. r \notin stale => CheckHolds(r)'
      BY <1>1, <1>2, <1>3, <2>1 DEF CheckHolds, Exists, GetComment
    <2>4. tell' \in [Requests -> Users \cup {None}]
      BY <1>1, <1>9 DEF TypeOK
    <2> QED
      BY <1>1, <1>3, <1>4, <1>5, <1>9, <2>1, <2>2, <2>3, <2>4, QuietStep
  <1> QED
    BY <1>8, <1>9 DEF FindRecipient

\* A note that a request which is due to tell adds to what was told.
LEMMA NoteIsDue ==
  ASSUME IInv, NEW r \in Requests, pc[r] = "notify", NEW kind \in NoteKinds, NEW on \in Targets,
         UNCHANGED <<comment, spent, job, wrote>>,
         job[r].op = "comment" => kind = "post_comment" /\ on = made[r] /\ comment[made[r]] # None,
         job[r].op = "react" => kind = (IF on \in Posts THEN "post_reaction" ELSE "comment_reaction")
                                /\ on = job[r].on,
         notes' = Told(kind, tell[r], r, on)
  PROVE  /\ notes' \subseteq Notes /\ NotesAreDue'
         /\ \A n \in notes' : n \in notes \/ n.by = r
  <1> DEFINE note == [kind |-> kind, to |-> tell[r], actor |-> job[r].user, on |-> on, by |-> r]
  <1>1. /\ TypeOK /\ NotesAreDue /\ InOrder(r) /\ RightHolds(r) /\ r \in wrote
        /\ job[r].op \in {"comment", "react"} /\ tell[r] \in Users /\ tell[r] # job[r].user
        /\ job[r].user \in Users
    BY JobFields DEF IInv, StepsAreInOrder, InOrder, RightsHold, RightHolds
  <1>2. note \in Notes
    BY <1>1 DEF Notes
  <1>3. notes' = notes \cup {note}
    BY DEF Told
  <1>4. \A n \in notes : n.by # r
    BY <1>1 DEF InOrder
  <1>5. /\ note.to = tell[r] /\ note.actor = job[r].user /\ note.by = r
        /\ note.kind = kind /\ note.on = on
    OBVIOUS
  <1> HIDE DEF note
  <1>6. notes' \subseteq Notes /\ \A n \in notes' : n \in notes \/ n.by = r
    BY <1>1, <1>2, <1>3, <1>5 DEF TypeOK
  <1>7. \A m, n \in notes' : m.by = n.by => m = n
    BY <1>1, <1>3, <1>4, <1>5 DEF NotesAreDue
  <1>8. ASSUME NEW n \in notes'
        PROVE  /\ n.to # n.actor /\ n.actor = job[n.by].user /\ n.by \in wrote
               /\ n.kind = "post_comment" =>
                    /\ n.on \in Comments /\ comment[n.on] # None
                    /\ comment[n.on].author = n.actor /\ n.to = Author[comment[n.on].post]
               /\ n.kind # "post_comment" =>
                    /\ job[n.by].op = "react" /\ job[n.by].on = n.on /\ n.on \notin Comments \ spent
                    /\ job[n.by].emoji # Clear
               /\ n.kind = "post_reaction" => n.to = Author[n.on]
    <2>1. CASE n \in notes
      BY <1>1, <2>1 DEF NotesAreDue
    <2>2. CASE n = note /\ job[r].op = "comment"
      <3>1. /\ kind = "post_comment" /\ on = made[r] /\ comment[made[r]] # None
            /\ comment[made[r]] = [post |-> job[r].on, author |-> job[r].user]
            /\ tell[r] = Author[job[r].on]
        BY <1>1, <2>2 DEF RightHolds
      <3>2. made[r] \in Comments
        BY <1>1, <2>2 DEF RightHolds, TypeOK
      <3> QED
        BY <1>1, <1>5, <2>2, <3>1, <3>2
    <2>3. CASE n = note /\ job[r].op = "react"
      <3>1. /\ kind = (IF on \in Posts THEN "post_reaction" ELSE "comment_reaction")
            /\ on = job[r].on /\ job[r].emoji # Clear /\ on \notin Comments \ spent
            /\ on \in Posts => tell[r] = Author[on]
        BY <1>1, <2>3 DEF RightHolds
      <3> QED
        BY <1>1, <1>5, <2>3, <3>1
    <2> QED
      BY <1>1, <1>3, <2>1, <2>2, <2>3
  <1>9. NotesAreDue'
    BY <1>7, <1>8 DEF NotesAreDue
  <1> QED
    BY <1>6, <1>9

LEMMA NotifyCommentStep == ASSUME IInv, NEW r \in Requests, NotifyComment(r) PROVE IInv'
  <1>1. /\ TypeOK /\ InOrder(r) /\ r \in wrote /\ pc[r] = "notify" /\ job[r].op = "comment"
        /\ RightHolds(r)
    BY DEF NotifyComment, At, IInv, StepsAreInOrder, InOrder, RightsHold
  <1>2. "ok" \in Answers /\ "post_comment" \in NoteKinds
    BY DEF Answers, NoteKinds
  <1>3. Answer(r, "ok")
    BY DEF NotifyComment
  <1>4. Moves(r) /\ pc'[r] = "done" /\ answer'[r] = "ok"
    BY <1>1, <1>2, <1>3, AnswerMoves
  <1>5. InOrder(r)' /\ CheckHolds(r)' /\ RightHolds(r)'
    BY <1>4, AnswerIsSound
  <1>6. /\ UNCHANGED <<live, comment, spent, platform, job, made, stale, unseen>>
        /\ UNCHANGED <<reaction, log, pub, tell, wrote>>
    BY DEF NotifyComment
  <1>7. /\ reaction' \in [Targets \X Users -> ReactionRows \cup {None}]
        /\ log' \in [Targets \X Users -> Seq([emoji : Emojis \cup {Clear}, delta : Nat \ {0}])]
        /\ pub' \subseteq Posts \X Platforms /\ tell' \in [Requests -> Users \cup {None}]
    BY <1>1, <1>6 DEF TypeOK, ReactionRows
  <1>8. PublishedPlatformsExist'
    BY <1>6 DEF IInv, PublishedPlatformsExist
  <1>9. /\ notes' \subseteq Notes /\ NotesAreDue' /\ \A n \in notes' : n \in notes \/ n.by = r
    <2>1. CASE comment[made[r]] = None
      <3>1. notes' = notes
        BY <2>1 DEF NotifyComment
      <3> QED
        BY <1>1, <1>6, <3>1 DEF IInv, NotesAreDue, TypeOK
    <2>2. CASE comment[made[r]] # None
      <3>1. notes' = Told("post_comment", tell[r], r, made[r])
        BY <2>2 DEF NotifyComment
      <3>2. made[r] \in Comments
        BY <1>1 DEF RightHolds, TypeOK
      <3>3. made[r] \in Targets
        BY <3>2 DEF Targets
      <3> QED
        BY <1>1, <1>2, <1>6, <2>2, <3>1, <3>3, NoteIsDue
    <2> QED
      BY <2>1, <2>2
  <1> QED
    BY <1>1, <1>4, <1>5, <1>6, <1>7, <1>8, <1>9, QuietStep

LEMMA NotifyReactionStep == ASSUME IInv, NEW r \in Requests, NotifyReaction(r) PROVE IInv'
  <1>1. /\ TypeOK /\ InOrder(r) /\ r \in wrote /\ pc[r] = "notify" /\ job[r].op = "react"
        /\ answer[r] = "none" /\ (r \notin stale => CheckHolds(r)) /\ job[r].on \in Targets
    BY JobFields DEF NotifyReaction, At, IInv, StepsAreInOrder, InOrder, FreshChecksHold, Targets
  <1>2. "read" \in RequestPCs
    BY DEF RequestPCs
  <1>3. Goto(r, "read")
    BY DEF NotifyReaction
  <1>4. Moves(r) /\ pc'[r] = "read" /\ answer'[r] = "none"
    BY <1>1, <1>2, <1>3, GotoMoves
  <1>5. /\ UNCHANGED <<live, comment, spent, platform, job, made, stale, unseen>>
        /\ UNCHANGED <<reaction, log, pub, tell, wrote>>
    BY DEF NotifyReaction
  <1>6. InOrder(r)' /\ RightHolds(r)' /\ (r \notin stale => CheckHolds(r)')
    BY <1>1, <1>4, <1>5 DEF InOrder, RightHolds, CheckHolds, Exists, GetComment
  <1>7. /\ reaction' \in [Targets \X Users -> ReactionRows \cup {None}]
        /\ log' \in [Targets \X Users -> Seq([emoji : Emojis \cup {Clear}, delta : Nat \ {0}])]
        /\ pub' \subseteq Posts \X Platforms /\ tell' \in [Requests -> Users \cup {None}]
    BY <1>1, <1>5 DEF TypeOK, ReactionRows
  <1>8. PublishedPlatformsExist'
    BY <1>5 DEF IInv, PublishedPlatformsExist
  <1>9. /\ notes' \subseteq Notes /\ NotesAreDue' /\ \A n \in notes' : n \in notes \/ n.by = r
    <2> DEFINE kind == IF job[r].on \in Posts THEN "post_reaction" ELSE "comment_reaction"
    <2>1. kind \in NoteKinds
      BY DEF NoteKinds
    <2>2. notes' = Told(kind, tell[r], r, job[r].on)
      BY DEF NotifyReaction
    <2> QED
      BY <1>1, <1>5, <2>1, <2>2, NoteIsDue
  <1> QED
    BY <1>1, <1>4, <1>5, <1>6, <1>7, <1>8, <1>9, QuietStep

\* A publication is written or taken back, and the request ends.
LEMMA PublicationWritten ==
  ASSUME IInv, NEW r \in Requests, NEW a \in {"ok", "notFound"}, Answer(r, a), pc[r] = "write",
         a = "ok" => wrote' = wrote \cup {r}, a = "notFound" => wrote' = wrote,
         pub' \subseteq Posts \X Platforms, PublishedPlatformsExist',
         UNCHANGED <<live, comment, spent, reaction, platform, notes, job, made, tell, log, stale, unseen>>
  PROVE  IInv'
  <1>1. TypeOK /\ a \in Answers /\ r \notin wrote
    BY DEF IInv, Answers, StepsAreInOrder, InOrder
  <1>2. Moves(r) /\ pc'[r] = "done" /\ answer'[r] = a
    BY <1>1, AnswerMoves
  <1>3. InOrder(r)' /\ CheckHolds(r)' /\ RightHolds(r)'
    BY <1>2, AnswerIsSound
  <1>4. /\ reaction' \in [Targets \X Users -> ReactionRows \cup {None}]
        /\ log' \in [Targets \X Users -> Seq([emoji : Emojis \cup {Clear}, delta : Nat \ {0}])]
        /\ notes' \subseteq Notes /\ tell' \in [Requests -> Users \cup {None}]
    BY <1>1 DEF TypeOK, ReactionRows
  <1>5. NotesAreDue'
    <2>1. ASSUME NEW n \in notes PROVE n.by \in wrote /\ n.by \in wrote'
      BY DEF IInv, NotesAreDue
    <2> QED
      BY <2>1 DEF IInv, NotesAreDue
  <1> QED
    BY <1>1, <1>2, <1>3, <1>4, <1>5, QuietStep

LEMMA PublishStep == ASSUME IInv, NEW r \in Requests, Publish(r) PROVE IInv'
  <1> DEFINE x == <<job[r].on, job[r].platform>>
  <1>1. /\ pc[r] = "write" /\ job[r].op = "publish" /\ platform[job[r].platform] # "none"
        /\ pub' = pub \cup {x}
    BY DEF Publish, At
  <1>2. x \in Posts \X Platforms
    BY <1>1, JobFields DEF IInv
  <1>3. pub' \subseteq Posts \X Platforms
    BY <1>1, <1>2 DEF IInv, TypeOK
  <1>4. PublishedPlatformsExist'
    <2> SUFFICES ASSUME NEW y \in pub' PROVE platform'[y[2]] # "none"
      BY DEF PublishedPlatformsExist
    <2>1. platform' = platform
      BY DEF Publish
    <2>2. CASE y \in pub
      BY <2>1, <2>2 DEF IInv, PublishedPlatformsExist
    <2>3. CASE y = x
      BY <1>1, <2>1, <2>3
    <2> QED
      BY <1>1, <2>2, <2>3
  <1> QED
    BY <1>1, <1>3, <1>4, PublicationWritten DEF Publish

LEMMA UnpublishStep == ASSUME IInv, NEW r \in Requests, Unpublish(r) PROVE IInv'
  <1>1. pc[r] = "write"
    BY DEF Unpublish, At
  <1>2. pub' \subseteq pub
    BY DEF Unpublish
  <1>3. pub' \subseteq Posts \X Platforms
    BY <1>2 DEF IInv, TypeOK
  <1>4. PublishedPlatformsExist'
    BY <1>2 DEF Unpublish, IInv, PublishedPlatformsExist
  <1>5. CASE Answer(r, "ok") /\ wrote' = wrote \cup {r}
    BY <1>1, <1>3, <1>4, <1>5, PublicationWritten DEF Unpublish
  <1>6. CASE Answer(r, "notFound") /\ wrote' = wrote
    BY <1>1, <1>3, <1>4, <1>6, PublicationWritten DEF Unpublish
  <1> QED
    BY <1>5, <1>6 DEF Unpublish

-----------------------------------------------------------------------------
(* Steps that change what other requests are about.                        *)

\* A comment that is written is nobody else's subject yet.
LEMMA CreateCommentStep == ASSUME IInv, NEW r \in Requests, CreateComment(r) PROVE IInv'
  <1>1. PICK c \in Comments \ spent :
          /\ comment' = [comment EXCEPT ![c] = [post |-> job[r].on, author |-> job[r].user]]
          /\ spent' = spent \cup {c}
          /\ made' = [made EXCEPT ![r] = c]
    BY DEF CreateComment
  <1>2. /\ TypeOK /\ InOrder(r) /\ pc[r] = "write" /\ job[r].op = "comment" /\ r \notin wrote
        /\ answer[r] = "none" /\ \A n \in notes : n.by # r
    BY DEF CreateComment, At, IInv, StepsAreInOrder, InOrder
  <1>3. job[r].on \in Posts /\ job[r].user \in Users
    BY <1>2, JobFields
  <1>4. /\ UNCHANGED <<live, reaction, platform, pub, notes, job, log, stale, unseen>>
        /\ wrote' = wrote \cup {r}
    BY DEF CreateComment
  <1>5. c \notin Posts /\ comment[c] = None /\ None \notin CommentRows
    BY EngagementAssumption DEF IInv, CommentRows
  <1>6. [post |-> job[r].on, author |-> job[r].user] \in CommentRows
    BY <1>3 DEF CommentRows
  <1>7. /\ comment' \in [Comments -> CommentRows \cup {None}]
        /\ \A d \in Comments \ {c} : comment'[d] = comment[d]
        /\ comment'[c] = [post |-> job[r].on, author |-> job[r].user] /\ comment'[c] # None
        /\ made' \in [Requests -> Comments \cup {None}] /\ made'[r] = c
        /\ \A q \in Requests \ {r} : made'[q] = made[q]
    <2>1. comment \in [Comments -> CommentRows \cup {None}] /\ made \in [Requests -> Comments \cup {None}]
      BY <1>2 DEF TypeOK, CommentRows
    <2> QED
      BY <1>1, <1>5, <1>6, <2>1
  <1>8. /\ tell' \in [Requests -> Users \cup {None}]
        /\ \A q \in Requests \ {r} : tell'[q] = tell[q]
        /\ Moves(r)
        /\ \/ pc'[r] = "done" /\ answer'[r] = "ok"
           \/ /\ pc'[r] = "notify" /\ answer'[r] = "none"
              /\ tell'[r] = Author[job[r].on] /\ tell'[r] \in Users /\ tell'[r] # job[r].user
    <2>1. Author[job[r].on] \in Users /\ "ok" \in Answers /\ "notify" \in RequestPCs
      BY <1>3, EngagementAssumption DEF Answers, RequestPCs
    <2>2. tell \in [Requests -> Users \cup {None}]
      BY <1>2 DEF TypeOK
    <2>3. CASE Answer(r, "ok") /\ UNCHANGED tell
      BY <1>2, <2>1, <2>2, <2>3, AnswerMoves
    <2>4. CASE /\ Author[job[r].on] # job[r].user /\ Goto(r, "notify")
               /\ tell' = [tell EXCEPT ![r] = Author[job[r].on]]
      <3>1. Moves(r) /\ pc'[r] = "notify" /\ answer'[r] = "none"
        BY <1>2, <2>1, <2>4, GotoMoves
      <3> QED
        BY <2>1, <2>2, <2>4, <3>1
    <2> QED
      BY <2>3, <2>4 DEF CreateComment
  <1>9. TypeOK'
    <2>1. comment' \in [Comments -> [post : Posts, author : Users] \cup {None}]
      BY <1>7 DEF CommentRows
    <2> QED
      BY <1>1, <1>2, <1>4, <1>7, <1>8, <2>1 DEF TypeOK, Moves
  <1>10. StepsAreInOrder'
    <2> SUFFICES ASSUME NEW q \in Requests PROVE InOrder(q)'
      BY DEF StepsAreInOrder
    <2>1. CASE q = r
      BY <1>2, <1>4, <1>8, <2>1 DEF InOrder
    <2>2. CASE q # r
      <3>1. InOrder(q) /\ pc'[q] = pc[q] /\ answer'[q] = answer[q]
        BY <1>8, <2>2 DEF IInv, StepsAreInOrder, Moves
      <3> QED
        BY <1>4, <2>2, <3>1 DEF InOrder
    <2> QED
      BY <2>1, <2>2
  <1>11. \A t \in Posts \cup Comments : Exists(t) => Exists(t)' /\ AuthorOf(t)' = AuthorOf(t)
    BY <1>4, <1>5, <1>7 DEF Exists, GetComment, AuthorOf
  <1>12. FreshChecksHold'
    <2> SUFFICES ASSUME NEW q \in Requests, q \notin stale' PROVE CheckHolds(q)'
      BY DEF FreshChecksHold
    <2>1. CASE q = r
      BY <1>2, <1>4, <1>8, <2>1 DEF CheckHolds
    <2>2. CASE q # r
      <3>1. CheckHolds(q) /\ pc'[q] = pc[q]
        BY <1>4, <1>8, <2>2 DEF IInv, FreshChecksHold, Moves
      <3>2. job[q].on \in Posts \cup Comments /\ job' = job
        BY <1>2, <1>4, JobFields
      <3>3. Exists(job[q].on) => Exists(job[q].on)'
        BY <1>11, <3>2
      <3> QED
        BY <1>4, <3>1, <3>2, <3>3 DEF CheckHolds, Exists, GetComment
    <2> QED
      BY <2>1, <2>2
  <1>13. RightsHold'
    <2> SUFFICES ASSUME NEW q \in Requests PROVE RightHolds(q)'
      BY DEF RightsHold
    <2>1. CASE q = r
      BY <1>1, <1>2, <1>4, <1>7, <1>8, <2>1 DEF RightHolds
    <2>2. CASE q # r
      <3>1. /\ RightHolds(q) /\ pc'[q] = pc[q] /\ tell'[q] = tell[q] /\ made'[q] = made[q]
            /\ job'[q] = job[q] /\ job[q].on \in Posts \cup Comments
        BY <1>2, <1>4, <1>7, <1>8, <2>2, JobFields DEF IInv, RightsHold, Moves
      <3>2. /\ pc'[q] = "write" /\ job'[q].op \in {"uncomment", "deletePost"} =>
                 /\ job'[q].user \notin Admins /\ Exists(job[q].on)' => job'[q].user = AuthorOf(job[q].on)'
                 /\ job'[q].op = "uncomment" => job'[q].on \in spent'
        <4>1. job[q].op = "deletePost" /\ pc[q] = "write" => job[q].on \in Posts
          BY <1>2, JobFields
        <4>2. CASE job[q].op = "deletePost" /\ pc[q] = "write"
          BY <1>4, <3>1, <4>1, <4>2 DEF RightHolds, Exists, AuthorOf
        <4>3. CASE job[q].op = "uncomment" /\ pc[q] = "write"
          <5>1. job[q].on \in Comments /\ job[q].on \in spent /\ job[q].on # c
            BY <1>2, <3>1, <4>3, JobFields DEF RightHolds
          <5>2. /\ job[q].on \notin Posts /\ comment'[job[q].on] = comment[job[q].on]
            BY <1>7, <5>1, EngagementAssumption
          <5> QED
            BY <1>1, <3>1, <4>3, <5>1, <5>2 DEF RightHolds, Exists, GetComment, AuthorOf
        <4> QED
          BY <3>1, <4>2, <4>3
      <3>3. pc'[q] = "notify" =>
              /\ tell'[q] \in Users /\ tell'[q] # job'[q].user
              /\ job'[q].op = "comment" =>
                   /\ made'[q] \in spent' /\ tell'[q] = Author[job'[q].on]
                   /\ comment'[made'[q]] # None =>
                        comment'[made'[q]] = [post |-> job'[q].on, author |-> job'[q].user]
              /\ job'[q].op = "react" => job'[q].emoji # Clear /\ job'[q].on \notin Comments \ spent'
              /\ job'[q].op = "react" /\ job'[q].on \in Posts => tell'[q] = Author[job'[q].on]
        <4> SUFFICES ASSUME pc[q] = "notify"
                     PROVE  /\ tell[q] \in Users /\ tell[q] # job[q].user
                            /\ job[q].op = "comment" =>
                                 /\ made[q] \in spent' /\ tell[q] = Author[job[q].on]
                                 /\ comment'[made[q]] # None =>
                                      comment'[made[q]] = [post |-> job[q].on, author |-> job[q].user]
                            /\ job[q].op = "react" => job[q].emoji # Clear /\ job[q].on \notin Comments \ spent'
                            /\ job[q].op = "react" /\ job[q].on \in Posts => tell[q] = Author[job[q].on]
          BY <3>1
        <4>1. job[q].op = "comment" => made[q] \in spent /\ made[q] # c /\ made[q] \in Comments
          BY <1>2, <3>1 DEF RightHolds, TypeOK
        <4> QED
          BY <1>1, <1>7, <3>1, <4>1 DEF RightHolds
      <3>4. pc'[q] = "recipient" => job'[q].emoji # Clear
        BY <3>1 DEF RightHolds
      <3> QED
        BY <3>1, <3>2, <3>3, <3>4 DEF RightHolds
    <2> QED
      BY <2>1, <2>2
  <1>14. NotesAreDue'
    <2>1. \A n \in notes : n.kind = "post_comment" => n.on \in Comments /\ n.on # c
      BY <1>5 DEF IInv, NotesAreDue
    <2>2. \A n \in notes : n.kind = "post_comment" => comment'[n.on] = comment[n.on]
      BY <1>7, <2>1
    <2> QED
      BY <1>1, <1>4, <2>1, <2>2 DEF IInv, NotesAreDue
  <1>15. PublishedPlatformsExist'
    BY <1>4 DEF IInv, PublishedPlatformsExist
  <1>16. AnswersAreTrue'
    BY <1>2, <1>4, <1>8 DEF IInv, AnswersAreTrue, Moves
  <1>17. \A d \in Comments : comment'[d] # None => d \in spent'
    BY <1>1, <1>7 DEF IInv
  <1> QED
    BY <1>9, <1>10, <1>12, <1>13, <1>14, <1>15, <1>16, <1>17 DEF IInv

\* A request ends with a step that takes something away, or changes a platform,
\* and overtakes all that are about it.
LEMMA OvertakingStep ==
  ASSUME IInv, NEW r \in Requests, NEW about \in SUBSET Requests, pc[r] = "write",
         Answer(r, "ok"), Overtake(r, about), wrote' = wrote \cup {r},
         UNCHANGED <<spent, reaction, pub, job, made, tell, log, unseen>>,
         live' \subseteq live,
         comment' \in [Comments -> CommentRows \cup {None}],
         \A c \in Comments : comment'[c] \in {comment[c], None},
         platform' \in [Platforms -> {"none", "active", "inactive"}], PublishedPlatformsExist',
         notes' \subseteq notes,
         \A n \in notes' : n.kind = "post_comment" => comment'[n.on] # None,
         \A q \in Requests \ about :
           /\ Exists(job[q].on) => Exists(job[q].on)'
           /\ job[q].op = "publish" => platform'[job[q].platform] = platform[job[q].platform]
  PROVE  IInv'
  <1>1. TypeOK /\ r \notin wrote /\ "ok" \in Answers
    BY DEF IInv, StepsAreInOrder, InOrder, Answers
  <1>2. Moves(r) /\ pc'[r] = "done" /\ answer'[r] = "ok"
    BY <1>1, AnswerMoves
  <1>3. /\ stale' = stale \cup {q \in about \ {r} : pc[q] \notin {"new", "done"}}
        /\ stale \subseteq stale' /\ stale' \subseteq Requests
    BY <1>1 DEF Overtake, TypeOK
  <1>4. TypeOK'
    <2>1. comment' \in [Comments -> [post : Posts, author : Users] \cup {None}]
      BY DEF CommentRows
    <2>2. /\ live' \subseteq Posts /\ notes' \subseteq Notes /\ wrote' \subseteq Requests
      BY <1>1 DEF TypeOK
    <2> QED
      BY <1>1, <1>2, <1>3, <2>1, <2>2 DEF TypeOK, Moves
  <1>5. InOrder(r)' /\ CheckHolds(r)' /\ RightHolds(r)'
    BY <1>2, AnswerIsSound
  <1>6. \A q \in Requests \ {r} : pc'[q] = pc[q] /\ answer'[q] = answer[q]
    BY <1>2 DEF Moves
  <1>7. StepsAreInOrder'
    <2> SUFFICES ASSUME NEW q \in Requests, q # r PROVE InOrder(q)'
      BY <1>5 DEF StepsAreInOrder
    <2>1. InOrder(q) /\ pc'[q] = pc[q] /\ answer'[q] = answer[q]
      BY <1>6 DEF IInv, StepsAreInOrder
    <2>2. pc[q] = "new" => q \notin stale'
      BY <1>3, <2>1 DEF InOrder
    <2> QED
      BY <2>1, <2>2 DEF InOrder
  <1>8. FreshChecksHold'
    <2> SUFFICES ASSUME NEW q \in Requests, q \notin stale', q # r PROVE CheckHolds(q)'
      BY <1>5 DEF FreshChecksHold
    <2>1. CheckHolds(q) /\ pc'[q] = pc[q]
      BY <1>3, <1>6 DEF IInv, FreshChecksHold
    <2>2. CASE q \in about
      <3>1. pc'[q] \in {"new", "done"}
        BY <1>3, <2>1, <2>2
      <3> QED
        BY <3>1 DEF CheckHolds
    <2>3. CASE q \notin about
      <3>1. /\ Exists(job[q].on) => Exists(job[q].on)'
            /\ job[q].op = "publish" => platform'[job[q].platform] = platform[job[q].platform]
        BY <2>3
      <3>2. job[q].op = "publish" => (Exists(job[q].on) <=> job[q].on \in live)
                                     /\ (Exists(job[q].on)' <=> job[q].on \in live')
        BY <1>1, JobFields DEF Exists
      <3> QED
        BY <2>1, <3>1, <3>2 DEF CheckHolds
    <2> QED
      BY <2>2, <2>3
  <1>9. RightsHold'
    <2> SUFFICES ASSUME NEW q \in Requests, q # r PROVE RightHolds(q)'
      BY <1>5 DEF RightsHold
    <2>1. RightHolds(q) /\ pc'[q] = pc[q] /\ job[q].on \in Posts \cup Comments
      BY <1>1, <1>6, JobFields DEF IInv, RightsHold
    <2>2. Exists(job[q].on)' => Exists(job[q].on) /\ AuthorOf(job[q].on)' = AuthorOf(job[q].on)
      BY <2>1 DEF Exists, GetComment, AuthorOf
    <2>3. pc[q] = "notify" /\ job[q].op = "comment" => made[q] \in Comments
      BY <1>1, <2>1 DEF RightHolds, TypeOK
    <2>4. pc[q] = "notify" /\ job[q].op = "comment" => comment'[made[q]] \in {comment[made[q]], None}
      BY <2>3
    <2> QED
      BY <2>1, <2>2, <2>4 DEF RightHolds
  <1>10. NotesAreDue'
    <2>1. \A n \in notes' : n.kind = "post_comment" => comment'[n.on] = comment[n.on]
      BY DEF IInv, NotesAreDue
    <2> QED
      BY <2>1 DEF IInv, NotesAreDue
  <1>11. AnswersAreTrue'
    BY <1>2, <1>3, <1>6 DEF IInv, AnswersAreTrue
  <1>12. \A c \in Comments : comment'[c] # None => c \in spent'
    BY DEF IInv
  <1> QED
    BY <1>4, <1>7, <1>8, <1>9, <1>10, <1>11, <1>12 DEF IInv

LEMMA DeleteCommentStep == ASSUME IInv, NEW r \in Requests, DeleteComment(r) PROVE IInv'
  <1> DEFINE t == job[r].on
  <1>1. /\ TypeOK /\ pc[r] = "write" /\ job[r].op = "uncomment" /\ t \in Comments
        /\ comment' = [comment EXCEPT ![t] = None]
        /\ notes' = {n \in notes : ~(n.kind = "post_comment" /\ n.on = t)}
    BY JobFields DEF DeleteComment, At, IInv
  <1>2. comment \in [Comments -> CommentRows \cup {None}]
    BY <1>1 DEF TypeOK, CommentRows
  <1>3. /\ comment' \in [Comments -> CommentRows \cup {None}]
        /\ \A c \in Comments : comment'[c] \in {comment[c], None}
        /\ \A c \in Comments \ {t} : comment'[c] = comment[c]
    BY <1>1, <1>2
  <1>4. \A n \in notes' : n.kind = "post_comment" => comment'[n.on] # None
    BY <1>1, <1>3 DEF IInv, NotesAreDue
  <1>5. ASSUME NEW q \in Requests \ AboutTarget(t)
        PROVE  /\ Exists(job[q].on) => Exists(job[q].on)'
               /\ job[q].op = "publish" => platform'[job[q].platform] = platform[job[q].platform]
    <2>1. job[q].on # t /\ job[q].on \in Posts \cup Comments
      BY <1>1, JobFields DEF AboutTarget
    <2>2. live' = live /\ platform' = platform /\ job' = job
      BY DEF DeleteComment
    <2> QED
      BY <1>3, <2>1, <2>2 DEF Exists, GetComment
  <1>6. PublishedPlatformsExist' /\ AboutTarget(t) \in SUBSET Requests
    BY DEF DeleteComment, IInv, PublishedPlatformsExist, AboutTarget
  <1>7. /\ Answer(r, "ok") /\ Overtake(r, AboutTarget(t)) /\ wrote' = wrote \cup {r}
        /\ UNCHANGED <<live, spent, reaction, platform, pub, job, made, tell, log, unseen>>
    BY DEF DeleteComment
  <1>8. platform' \in [Platforms -> {"none", "active", "inactive"}]
    BY <1>1, <1>7 DEF TypeOK
  <1> QED
    BY <1>1, <1>3, <1>4, <1>5, <1>6, <1>7, <1>8, OvertakingStep

LEMMA DeletePostStep == ASSUME IInv, NEW r \in Requests, DeletePost(r) PROVE IInv'
  <1> DEFINE t == job[r].on
  <1>1. /\ TypeOK /\ pc[r] = "write" /\ job[r].op = "deletePost" /\ t \in Posts
        /\ live' = live \ {t} /\ comment' = comment
        /\ platform' = platform /\ notes' = notes
    BY JobFields DEF DeletePost, At, IInv
  <1>2. /\ comment' \in [Comments -> CommentRows \cup {None}]
        /\ \A c \in Comments : comment'[c] \in {comment[c], None}
        /\ platform' \in [Platforms -> {"none", "active", "inactive"}]
    BY <1>1 DEF TypeOK, CommentRows
  <1>3. \A n \in notes' : n.kind = "post_comment" => comment'[n.on] # None
    BY <1>1 DEF IInv, NotesAreDue
  <1>4. ASSUME NEW q \in Requests \ AboutTarget(t)
        PROVE  /\ Exists(job[q].on) => Exists(job[q].on)'
               /\ job[q].op = "publish" => platform'[job[q].platform] = platform[job[q].platform]
    <2>1. job[q].on # t /\ job' = job
      BY DEF AboutTarget, DeletePost
    <2> QED
      BY <1>1, <2>1 DEF Exists, GetComment
  <1>5. PublishedPlatformsExist' /\ AboutTarget(t) \in SUBSET Requests
    BY DEF DeletePost, IInv, PublishedPlatformsExist, AboutTarget
  <1>6. /\ Answer(r, "ok") /\ Overtake(r, AboutTarget(t)) /\ wrote' = wrote \cup {r}
        /\ UNCHANGED <<spent, reaction, pub, job, made, tell, log, unseen>>
        /\ live' \subseteq live /\ notes' \subseteq notes
    BY <1>1 DEF DeletePost
  <1> QED
    BY <1>1, <1>2, <1>3, <1>4, <1>5, <1>6, OvertakingStep

LEMMA SetPlatformStep ==
  ASSUME IInv, NEW r \in Requests, pc[r] = "write", NEW to \in {"none", "active", "inactive"},
         SetPlatform(r, to), to = "none" => ~Used(job[r].platform)
  PROVE  IInv'
  <1> DEFINE k == job[r].platform
  <1>1. TypeOK /\ k \in Platforms /\ platform' = [platform EXCEPT ![k] = to]
    BY JobFields DEF IInv, SetPlatform
  <1>2. /\ platform' \in [Platforms -> {"none", "active", "inactive"}]
        /\ platform'[k] = to /\ \A l \in Platforms \ {k} : platform'[l] = platform[l]
    BY <1>1 DEF TypeOK
  <1>3. /\ Answer(r, "ok") /\ Overtake(r, AboutPlatform(k)) /\ wrote' = wrote \cup {r}
        /\ UNCHANGED <<live, comment, spent, reaction, pub, notes, job, made, tell, log, unseen>>
        /\ AboutPlatform(k) \in SUBSET Requests
    BY DEF SetPlatform, AboutPlatform
  <1>4. /\ comment' \in [Comments -> CommentRows \cup {None}]
        /\ \A c \in Comments : comment'[c] \in {comment[c], None}
    BY <1>1, <1>3 DEF TypeOK, CommentRows
  <1>5. \A n \in notes' : n.kind = "post_comment" => comment'[n.on] # None
    BY <1>3 DEF IInv, NotesAreDue
  <1>6. PublishedPlatformsExist'
    <2> SUFFICES ASSUME NEW x \in pub PROVE platform'[x[2]] # "none"
      BY <1>3 DEF PublishedPlatformsExist
    <2>1. PICK p \in Posts, l \in Platforms : x = <<p, l>>
      BY <1>1 DEF TypeOK
    <2>2. platform[l] # "none"
      BY <2>1 DEF IInv, PublishedPlatformsExist
    <2>3. l = k => to # "none"
      BY <2>1 DEF Used
    <2> QED
      BY <1>2, <2>1, <2>2, <2>3
  <1>7. ASSUME NEW q \in Requests \ AboutPlatform(k)
        PROVE  /\ Exists(job[q].on) => Exists(job[q].on)'
               /\ job[q].op = "publish" => platform'[job[q].platform] = platform[job[q].platform]
    <2>1. job[q].op = "publish" => job[q].platform # k
      BY DEF AboutPlatform
    <2>2. job[q].platform \in Platforms
      BY <1>1, JobFields
    <2> QED
      BY <1>2, <1>3, <2>1, <2>2 DEF Exists, GetComment
  <1> QED
    BY <1>2, <1>3, <1>4, <1>5, <1>6, <1>7, OvertakingStep

LEMMA PlatformStep ==
  ASSUME IInv, NEW r \in Requests, AddPlatform(r) \/ UpdatePlatform(r) \/ DropPlatform(r)
  PROVE  IInv'
  <1>1. pc[r] = "write"
    BY DEF AddPlatform, UpdatePlatform, DropPlatform, At
  <1>2. CASE SetPlatform(r, StateOf(r))
    <2>1. StateOf(r) \in {"active", "inactive"}
      BY DEF StateOf
    <2> QED
      BY <1>1, <1>2, <2>1, SetPlatformStep
  <1>3. CASE SetPlatform(r, "none") /\ ~Used(job[r].platform)
    BY <1>1, <1>3, SetPlatformStep
  <1> QED
    BY <1>2, <1>3 DEF AddPlatform, UpdatePlatform, DropPlatform

-----------------------------------------------------------------------------
(* The invariant holds, and what follows from it.                          *)

LEMMA NextInv == IInv /\ [Next]_vars => IInv'
  <1> SUFFICES ASSUME IInv, [Next]_vars PROVE IInv'
    OBVIOUS
  <1>1. CASE UNCHANGED vars
    <2>1. /\ UNCHANGED <<live, comment, spent, reaction, platform, pub, notes>>
          /\ UNCHANGED <<job, pc, made, tell, answer, wrote, log, stale, unseen>>
      BY <1>1 DEF vars, tables
    <2>2. TypeOK' /\ \A c \in Comments : comment'[c] # None => c \in spent'
      BY <2>1 DEF IInv, TypeOK
    <2>3. NotesAreDue' /\ PublishedPlatformsExist' /\ AnswersAreTrue'
      BY <2>1 DEF IInv, NotesAreDue, PublishedPlatformsExist, AnswersAreTrue
    <2>4. ASSUME NEW r \in Requests
          PROVE  InOrder(r)' /\ (r \notin stale' => CheckHolds(r)') /\ RightHolds(r)'
      <3>1. InOrder(r) /\ (r \notin stale => CheckHolds(r)) /\ RightHolds(r)
        BY DEF IInv, StepsAreInOrder, FreshChecksHold, RightsHold
      <3>2. InOrder(r)'
        BY <2>1, <3>1 DEF InOrder
      <3>3. r \notin stale' => CheckHolds(r)'
        BY <2>1, <3>1 DEF CheckHolds, Exists, GetComment
      <3>4. RightHolds(r)'
        BY <2>1, <3>1 DEF RightHolds, Exists, GetComment, AuthorOf
      <3> QED
        BY <3>2, <3>3, <3>4
    <2>5. StepsAreInOrder' /\ FreshChecksHold' /\ RightsHold'
      BY <2>4 DEF StepsAreInOrder, FreshChecksHold, RightsHold
    <2> QED
      BY <2>2, <2>3, <2>5 DEF IInv
  <1>2. ASSUME NEW r \in Requests, CommentStep(r) PROVE IInv'
    BY <1>2, CheckTargetStep, CreateCommentStep, NotifyCommentStep, CheckOwnStep,
       DeleteCommentStep, DeletePostStep, RefusedStep DEF CommentStep
  <1>3. ASSUME NEW r \in Requests, ReactionStep(r) PROVE IInv'
    BY <1>3, ClearReactionStep, UpsertReactionStep, RefusedStep, FindRecipientStep,
       NotifyReactionStep, ReadSummariesStep DEF ReactionStep
  <1>4. ASSUME NEW r \in Requests, PublicationStep(r) PROVE IInv'
    BY <1>4, CheckPublishStep, CheckPostStep, PublishStep, RefusedStep, CheckUnpublishStep,
       UnpublishStep, CheckPlatformStep, PlatformStep DEF PublicationStep
  <1> QED
    BY <1>1, <1>2, <1>3, <1>4, FailureSteps DEF Next

\* Whatever the users, posts, comments and platforms are and however many
\* requests run at once, fail or die, what a request has checked holds where it
\* writes unless it was overtaken, and its answer, its notifications and the
\* tables agree (comments.go, reactions.go, publications.go, notifications.go).
THEOREM InvariantHolds == Spec => []IInv
  <1> QED
    BY InitInv, NextInv, PTL DEF Spec

\* Notifications tell the author, of somebody else's real doing, once.
THEOREM DueNotes == Spec => []NotesAreDue
  <1>1. IInv => NotesAreDue
    BY DEF IInv
  <1> QED
    BY <1>1, InvariantHolds, PTL

\* What is refused was not written and "ok" was, whatever fails and whoever runs
\* in between - but for a reaction that is stored and answered with "not found",
\* as its target goes in the middle or a query for it fails (targetExists).
THEOREM TrueAnswers == Spec => []AnswersAreTrue
  <1>1. IInv => AnswersAreTrue
    BY DEF IInv
  <1> QED
    BY <1>1, InvariantHolds, PTL

\* A request that is not overtaken writes only to what is there.
THEOREM FreshWrites == Spec => FreshWritesHitWhatIsThere
  <1>1. IInv /\ [Next]_vars =>
          [\A r \in Requests \ stale :
             /\ CreateComment(r) => job[r].on \in live
             /\ UpsertReaction(r) => Exists(job[r].on)
             /\ Publish(r) => job[r].on \in live /\ platform[job[r].platform] = "active"]_vars
    <2> SUFFICES ASSUME IInv, NEW r \in Requests \ stale
                 PROVE  /\ CreateComment(r) => job[r].on \in live
                        /\ UpsertReaction(r) => Exists(job[r].on)
                        /\ Publish(r) => job[r].on \in live /\ platform[job[r].platform] = "active"
      OBVIOUS
    <2>1. CheckHolds(r) /\ TypeOK
      BY DEF IInv, FreshChecksHold
    <2>2. job[r].op = "comment" => job[r].on \in Posts
      BY <2>1, JobFields
    <2> QED
      BY <2>1, <2>2 DEF CreateComment, UpsertReaction, Publish, At, CheckHolds, Exists
  <1> QED
    BY <1>1, InvariantHolds, PTL DEF Spec, FreshWritesHitWhatIsThere

\* What a step takes away is the subject of a request that deletes it.
LEMMA OnlyDeletionsDelete ==
  ASSUME IInv, NEW t \in Targets, Exists(t), ~Exists(t)', NEW r \in Requests,
         CommentStep(r) \/ ReactionStep(r) \/ PublicationStep(r) \/ FailureStep(r)
  PROVE  (DeleteComment(r) \/ DeletePost(r)) /\ job[r].on = t
  <1>1. CASE UNCHANGED <<live, comment>>
    BY <1>1 DEF Exists, GetComment
  <1>2. CASE CreateComment(r)
    <2>1. PICK c \in Comments \ spent :
            comment' = [comment EXCEPT ![c] = [post |-> job[r].on, author |-> job[r].user]]
      BY <1>2 DEF CreateComment
    <2>2. comment[c] = None /\ c \notin Posts /\ live' = live
      BY <1>2, <2>1, EngagementAssumption DEF IInv, CreateComment
    <2>3. \A d \in Comments \ {c} : comment'[d] = comment[d]
      BY <2>1 DEF IInv, TypeOK
    <2>4. t # c
      BY <2>2 DEF Exists, GetComment
    <2> QED
      BY <2>2, <2>3, <2>4 DEF Exists, GetComment, Targets
  <1>3. CASE DeleteComment(r)
    <2>1. comment' = [comment EXCEPT ![job[r].on] = None] /\ live' = live
      BY <1>3 DEF DeleteComment
    <2>2. \A d \in Comments \ {job[r].on} : comment'[d] = comment[d]
      BY <2>1 DEF IInv, TypeOK
    <2> QED
      BY <1>3, <2>1, <2>2 DEF Exists, GetComment, Targets
  <1>4. CASE DeletePost(r)
    <2>1. live' = live \ {job[r].on} /\ comment' = comment
      BY <1>4 DEF DeletePost
    <2> QED
      BY <1>4, <2>1 DEF Exists, GetComment
  <1>5. CASE CommentStep(r)
    BY <1>1, <1>2, <1>3, <1>4, <1>5
    DEF CommentStep, CheckTarget, NotifyComment, CheckOwn, DeleteMisses, Reads, tables
  <1>6. CASE ReactionStep(r)
    BY <1>1, <1>6 DEF ReactionStep, ClearReaction, UpsertReaction, UpsertOverflows, FindRecipient,
                      NotifyReaction, ReadSummaries, Reads, tables
  <1>7. CASE PublicationStep(r)
    BY <1>1, <1>7 DEF PublicationStep, CheckPublish, CheckPost, Publish, PublishRefused,
                      CheckUnpublish, Unpublish, CheckPlatform, AddPlatform, UpdatePlatform,
                      DropPlatform, SetPlatform, PlatformRefused, Reads, tables
  <1>8. CASE FailureStep(r)
    BY <1>1, <1>8 DEF FailureStep, Fail, TargetUnseen, TellingFails, Die, Reads, tables
  <1> QED
    BY <1>5, <1>6, <1>7, <1>8

\* Comments and posts disappear only by requests of their authors and of
\* administrators, although the right is looked at before the deletion
\* (CommentService.Delete, PostService.Delete).
THEOREM EntitledDeletions == Spec => OnlyEntitledDelete
  <1>1. IInv /\ [Next]_vars =>
          [\A t \in Targets : Exists(t) /\ ~Exists(t)' =>
             \E r \in Requests : /\ job[r].user \in {AuthorOf(t)} \cup Admins
                                 /\ job[r].op \in {"uncomment", "deletePost"} /\ job[r].on = t
                                 /\ pc[r] = "write" /\ pc'[r] = "done"]_vars
    <2> SUFFICES ASSUME IInv, Next, NEW t \in Targets, Exists(t), ~Exists(t)'
                 PROVE  \E r \in Requests :
                          /\ job[r].user \in {AuthorOf(t)} \cup Admins
                          /\ job[r].op \in {"uncomment", "deletePost"} /\ job[r].on = t
                          /\ pc[r] = "write" /\ pc'[r] = "done"
      OBVIOUS
    <2>1. PICK r \in Requests : CommentStep(r) \/ ReactionStep(r) \/ PublicationStep(r) \/ FailureStep(r)
      BY DEF Next
    <2>2. (DeleteComment(r) \/ DeletePost(r)) /\ job[r].on = t
      BY <2>1, OnlyDeletionsDelete
    <2>3. /\ pc[r] = "write" /\ job[r].op \in {"uncomment", "deletePost"} /\ Answer(r, "ok")
      BY <2>2 DEF DeleteComment, DeletePost, At
    <2>4. pc'[r] = "done"
      BY <2>3, AnswerMoves DEF IInv, Answers
    <2>5. job[r].user \in {AuthorOf(t)} \cup Admins
      BY <2>2, <2>3 DEF IInv, RightsHold, RightHolds
    <2> QED
      BY <2>2, <2>3, <2>4, <2>5
  <1> QED
    BY <1>1, InvariantHolds, PTL DEF Spec, OnlyEntitledDelete

\* Induction over data, without the library's induction theorems: what fails for
\* some finite set fails for one with the least number of elements.
Less == OpToRel(<, Nat)

\* A set of numbers has a least one.
LEMMA LeastNat ==
  ASSUME NEW T \in SUBSET Nat, T # {}
  PROVE  \E x \in T : \A y \in T : x <= y
  <1>1. IsWellFoundedOn(Less, Nat)
    BY NatLessThanWellFounded, Zenon DEF Less
  <1>2. PICK x \in T : \A y \in T : ~(<<y, x>> \in Less)
    BY <1>1, WFMin
  <1>3. Less = {p \in Nat \X Nat : p[1] < p[2]}
    BY DEF Less, OpToRel
  <1>4. ASSUME NEW y \in T PROVE x <= y
    <2>1. x \in Nat /\ y \in Nat /\ <<y, x>> \in Nat \X Nat
      OBVIOUS
    <2>2. <<y, x>> \notin {p \in Nat \X Nat : p[1] < p[2]}
      BY <1>2, <1>3
    <2> QED
      BY <2>1, <2>2
  <1> QED
    BY <1>4

\* The sum that MapThenSumSet takes of the deltas in a log, and the function
\* that it is defined by.
Sum(s, T) == MapThenSumSet(LAMBDA i : s[i].delta, T)

Choice(T) == CHOOSE x \in T : TRUE

IsSums(s, S, g) ==
  g = [T \in SUBSET S |-> IF T = {} THEN 0 ELSE s[Choice(T)].delta + g[T \ {Choice(T)}]]

\* The sum is a value of that function.
LEMMA SumIs == ASSUME NEW s, NEW S PROVE Sum(s, S) = (CHOOSE g : IsSums(s, S, g))[S]
  BY DEF Sum, MapThenSumSet, MapThenFoldSet, Choice, IsSums

\* A chosen element leaves a smaller set.
LEMMA Chosen ==
  ASSUME NEW T, IsFiniteSet(T), T # {}
  PROVE  /\ Choice(T) \in T /\ IsFiniteSet(T \ {Choice(T)})
         /\ Cardinality(T) \in Nat /\ Cardinality(T \ {Choice(T)}) \in Nat
         /\ Cardinality(T \ {Choice(T)}) = Cardinality(T) - 1
  <1>1. Choice(T) \in T
    BY DEF Choice
  <1> QED
    BY <1>1, FS_RemoveElement, FS_CardinalityType

\* It exists: step by step for larger sets.
LEMMA SumsExist ==
  ASSUME NEW s, NEW S, IsFiniteSet(S)
  PROVE  \E g : IsSums(s, S, g)
  <1> DEFINE Upto(n) == {T \in SUBSET S : Cardinality(T) <= n}
             Value(g, T) == IF T = {} THEN 0 ELSE s[Choice(T)].delta + g[T \ {Choice(T)}]
             Bad == {n \in Nat : ~\E g : g = [T \in Upto(n) |-> Value(g, T)]}
  <1>1. \A T \in SUBSET S : IsFiniteSet(T) /\ Cardinality(T) \in Nat /\ Cardinality(T) <= Cardinality(S)
    BY FS_Subset, FS_CardinalityType
  <1>2. Bad = {}
    <2> SUFFICES ASSUME Bad # {} PROVE FALSE
      OBVIOUS
    <2>1. PICK n \in Bad : \A m \in Bad : n <= m
      BY LeastNat
    <2>2. CASE n = 0
      <3> DEFINE g == [T \in Upto(n) |-> 0]
      <3>1. ASSUME NEW T \in Upto(n) PROVE Value(g, T) = 0
        BY <1>1, <2>2, FS_EmptySet
      <3>2. g = [T \in Upto(n) |-> Value(g, T)]
        BY <3>1
      <3> QED
        BY <2>1, <3>2
    <2>3. CASE n # 0
      <3>1. n - 1 \in Nat /\ n - 1 \notin Bad /\ n \in Nat
        <4>1. n \in Nat /\ n - 1 \in Nat /\ ~(n <= n - 1)
          BY <2>3
        <4> QED
          BY <2>1, <4>1
      <3>2. PICK g : g = [T \in Upto(n - 1) |-> Value(g, T)]
        BY <3>1
      <3> DEFINE h == [T \in Upto(n) |-> Value(g, T)]
      <3>3. ASSUME NEW T \in Upto(n) PROVE Value(h, T) = Value(g, T)
        <4>1. CASE T # {}
          <5> DEFINE U == T \ {Choice(T)}
          <5>1. U \in Upto(n - 1) /\ U \in Upto(n)
            <6>1. U \in SUBSET S /\ Cardinality(U) = Cardinality(T) - 1 /\ Cardinality(U) \in Nat
                  /\ Cardinality(T) \in Nat /\ Cardinality(T) <= n
              BY <1>1, <4>1, Chosen
            <6> HIDE DEF U
            <6>2. Cardinality(U) <= n - 1 /\ Cardinality(U) <= n
              BY <3>1, <6>1
            <6> QED
              BY <6>1, <6>2
          <5>2. h[U] = Value(g, U) /\ g[U] = Value(g, U)
            <6> HIDE DEF Value, U
            <6> QED
              BY <3>2, <5>1
          <5> QED
            BY <4>1, <5>2
        <4> QED
          BY <4>1
      <3>4. h = [T \in Upto(n) |-> Value(h, T)]
        BY <3>3
      <3> QED
        BY <2>1, <3>4
    <2> QED
      BY <2>2, <2>3
  <1>3. Cardinality(S) \in Nat /\ Upto(Cardinality(S)) = SUBSET S
    BY <1>1, FS_CardinalityType
  <1>4. PICK g : g = [T \in Upto(Cardinality(S)) |-> Value(g, T)]
    BY <1>2, <1>3
  <1> QED
    BY <1>3, <1>4 DEF IsSums

\* The value of the function at a set.
LEMMA SumsValue ==
  ASSUME NEW s, NEW S, NEW g, IsSums(s, S, g), NEW T \in SUBSET S
  PROVE  g[T] = IF T = {} THEN 0 ELSE s[Choice(T)].delta + g[T \ {Choice(T)}]
  BY Zenon DEF IsSums

\* The sums of a set are those of a larger one.
LEMMA SumsAgree ==
  ASSUME NEW s, NEW S, IsFiniteSet(S), NEW g, IsSums(s, S, g), NEW R \in SUBSET S,
         NEW h, IsSums(s, R, h)
  PROVE  \A T \in SUBSET R : g[T] = h[T]
  <1> DEFINE Bad == {n \in Nat : \E T \in SUBSET R : Cardinality(T) = n /\ g[T] # h[T]}
  <1>1. \A T \in SUBSET R : IsFiniteSet(T) /\ Cardinality(T) \in Nat
    BY FS_Subset, FS_CardinalityType
  <1> SUFFICES ASSUME Bad # {} PROVE FALSE
    BY <1>1
  <1>2. PICK n \in Bad : \A m \in Bad : n <= m
    BY LeastNat
  <1>3. PICK T \in SUBSET R : Cardinality(T) = n /\ g[T] # h[T]
    BY <1>2
  <1>4. T # {}
    BY <1>3, SumsValue
  <1> DEFINE U == T \ {Choice(T)}
  <1>5. U \in SUBSET R /\ Cardinality(U) \in Nat /\ Cardinality(U) = n - 1 /\ n \in Nat
    BY <1>1, <1>3, <1>4, Chosen
  <1>6. g[U] # h[U]
    BY <1>3, <1>4, SumsValue
  <1> HIDE DEF U
  <1>7. Cardinality(U) \in Bad
    BY <1>5, <1>6
  <1>8. n <= Cardinality(U)
    BY <1>2, <1>7
  <1> QED
    BY <1>5, <1>8

\* The sum by its definition ...
LEMMA SumByChoice ==
  ASSUME NEW s, NEW S, IsFiniteSet(S)
  PROVE  /\ S = {} => Sum(s, S) = 0
         /\ S # {} => Sum(s, S) = s[Choice(S)].delta + Sum(s, S \ {Choice(S)})
  <1> DEFINE R == S \ {Choice(S)}
  <1>1. PICK g : IsSums(s, S, g) /\ Sum(s, S) = g[S]
    <2>1. IsSums(s, S, CHOOSE g : IsSums(s, S, g))
      BY SumsExist
    <2> QED
      BY <2>1, SumIs
  <1>2. IsFiniteSet(R) /\ R \in SUBSET S
    BY FS_Subset
  <1> HIDE DEF R
  <1>3. PICK h : IsSums(s, R, h) /\ Sum(s, R) = h[R]
    <2>1. IsSums(s, R, CHOOSE h : IsSums(s, R, h))
      BY <1>2, SumsExist
    <2> QED
      BY <2>1, SumIs
  <1>4. g[R] = h[R]
    BY <1>1, <1>2, <1>3, SumsAgree
  <1>5. g[S] = IF S = {} THEN 0 ELSE s[Choice(S)].delta + g[R]
    BY <1>1, SumsValue DEF R
  <1> QED
    BY <1>1, <1>3, <1>4, <1>5 DEF R

\* ... and with any element taken out.
LEMMA SumWithout ==
  ASSUME NEW s, NEW S, IsFiniteSet(S), \A i \in S : s[i].delta \in Nat
  PROVE  /\ Sum(s, S) \in Nat
         /\ \A x \in S : Sum(s, S) = s[x].delta + Sum(s, S \ {x})
  <1> DEFINE Good(T) == /\ Sum(s, T) \in Nat
                        /\ \A x \in T : Sum(s, T) = s[x].delta + Sum(s, T \ {x})
             Bad == {n \in Nat : \E T \in SUBSET S : Cardinality(T) = n /\ ~Good(T)}
  <1>1. \A T \in SUBSET S : IsFiniteSet(T) /\ Cardinality(T) \in Nat
    BY FS_Subset, FS_CardinalityType
  <1> SUFFICES ASSUME Bad # {} PROVE FALSE
    BY <1>1, Zenon
  <1>2. PICK n \in Bad : \A m \in Bad : n <= m
    BY LeastNat
  <1>3. PICK T \in SUBSET S : Cardinality(T) = n /\ ~Good(T)
    BY <1>2
  <1> HIDE DEF Good
  <1>4. ASSUME NEW U \in SUBSET T, U # T PROVE Good(U)
    <2>1. U \in SUBSET S /\ Cardinality(U) \in Nat /\ n \in Nat
      BY <1>1, <1>3
    <2>2. Cardinality(U) <= Cardinality(T) /\ (Cardinality(U) = Cardinality(T) => U = T)
      BY <1>1, FS_Subset
    <2>3. ~(n <= Cardinality(U))
      BY <1>3, <1>4, <2>1, <2>2
    <2> QED
      BY <1>2, <2>1, <2>3
  <1>5. T # {}
    <2> SUFFICES ASSUME T = {} PROVE FALSE
      OBVIOUS
    <2>1. Sum(s, T) = 0
      BY <1>1, SumByChoice
    <2> QED
      BY <1>3, <2>1 DEF Good
  <1> DEFINE c == Choice(T)
             U == T \ {c}
  <1>6. c \in T /\ Sum(s, T) = s[c].delta + Sum(s, U) /\ s[c].delta \in Nat
    BY <1>1, <1>5, Chosen, SumByChoice
  <1> HIDE DEF c
  <1>7. Good(U)
    BY <1>4, <1>6
  <1>8. Sum(s, T) \in Nat
    BY <1>6, <1>7 DEF Good
  <1>9. ASSUME NEW x \in T PROVE Sum(s, T) = s[x].delta + Sum(s, T \ {x})
    <2>1. CASE x = c
      BY <1>6, <2>1
    <2>2. CASE x # c
      <3> DEFINE V == U \ {x}
                 W == T \ {x}
      <3>1. x \in U /\ c \in W /\ V = W \ {c} /\ W \in SUBSET T /\ W # T /\ V \in SUBSET T /\ V # T
        BY <1>6, <2>2
      <3>2. Good(W) /\ Good(V)
        BY <1>4, <3>1
      <3>3. Sum(s, U) = s[x].delta + Sum(s, V)
        BY <1>7, <3>1 DEF Good
      <3>4. Sum(s, W) = s[c].delta + Sum(s, V)
        BY <3>1, <3>2 DEF Good
      <3>5. s[x].delta \in Nat /\ Sum(s, V) \in Nat
        BY <1>3, <3>2 DEF Good
      <3> HIDE DEF U, V, W
      <3>6. Sum(s, T) = s[x].delta + Sum(s, W)
        BY <1>6, <3>3, <3>4, <3>5
      <3> QED
        BY <3>6 DEF W
    <2> QED
      BY <2>1, <2>2
  <1> QED
    BY <1>3, <1>8, <1>9 DEF Good

\* Logs that have the same deltas there have the same sum.
LEMMA SumSame ==
  ASSUME NEW s, NEW t, NEW S, IsFiniteSet(S), \A i \in S : s[i].delta = t[i].delta
  PROVE  Sum(s, S) = Sum(t, S)
  <1> DEFINE Bad == {n \in Nat : \E T \in SUBSET S : Cardinality(T) = n /\ Sum(s, T) # Sum(t, T)}
  <1>1. \A T \in SUBSET S : IsFiniteSet(T) /\ Cardinality(T) \in Nat
    BY FS_Subset, FS_CardinalityType
  <1> SUFFICES ASSUME Bad # {} PROVE FALSE
    BY <1>1
  <1>2. PICK n \in Bad : \A m \in Bad : n <= m
    BY LeastNat
  <1>3. PICK T \in SUBSET S : Cardinality(T) = n /\ Sum(s, T) # Sum(t, T)
    BY <1>2
  <1>4. T # {}
    BY <1>1, <1>3, SumByChoice
  <1> DEFINE U == T \ {Choice(T)}
  <1>5. U \in SUBSET S /\ Cardinality(U) \in Nat /\ Cardinality(U) = n - 1 /\ n \in Nat
    BY <1>1, <1>3, <1>4, Chosen
  <1>6. Sum(s, U) # Sum(t, U)
    BY <1>1, <1>3, <1>4, Chosen, SumByChoice
  <1> HIDE DEF U
  <1>7. Cardinality(U) \in Bad
    BY <1>5, <1>6
  <1>8. n <= Cardinality(U)
    BY <1>2, <1>7
  <1> QED
    BY <1>5, <1>8

\* The entries of a log.
Entries == [emoji : Emojis \cup {Clear}, delta : Nat \ {0}]

\* The last run of a log goes on, or a new one begins.
GoesOn(s, e, t, n) ==
  /\ t # <<>> /\ Len(t) = n /\ t[n] = e
  /\ LastRun(t) = (IF s # <<>> /\ s[Len(s)].emoji = e.emoji THEN LastRun(s) ELSE {}) \cup {n}
  /\ n \notin LastRun(s) /\ \A i \in LastRun(s) : t[i] = s[i]

LEMMA RunGoesOn ==
  ASSUME NEW s \in Seq(Entries), NEW e \in Entries, NEW t, t = Append(s, e), NEW n, n = Len(s) + 1
  PROVE  GoesOn(s, e, t, n)
  <1>1. PICK l : l = Len(s) /\ n = l + 1
    OBVIOUS
  <1>2. l \in Nat /\ DOMAIN s = 1 .. l
    BY <1>1
  <1>3. /\ t \in Seq(Entries) /\ Len(t) = n /\ t[n] = e /\ DOMAIN t = 1 .. n
        /\ \A i \in 1 .. l : t[i] = s[i]
    BY <1>1, <1>2, AppendProperties
  <1>4. t # <<>>
    BY <1>1, <1>2, <1>3
  <1>5. \A i \in 1 .. n : i \in LastRun(t) <=> \A j \in i .. n : t[j].emoji = e.emoji
    BY <1>3 DEF LastRun
  <1>6. n \in LastRun(t)
    BY <1>1, <1>2, <1>3, <1>5
  <1>7. \A i \in 1 .. l : i \in LastRun(s) <=> \A j \in i .. l : s[j].emoji = s[l].emoji
    BY <1>1, <1>2 DEF LastRun
  <1>8. LastRun(s) \subseteq 1 .. l /\ LastRun(t) \subseteq 1 .. n
    BY <1>2, <1>3 DEF LastRun
  <1>9. CASE l # 0 /\ s[l].emoji = e.emoji
    <2>1. ASSUME NEW i \in 1 .. l PROVE i \in LastRun(t) <=> i \in LastRun(s)
      <3>1. (\A j \in i .. n : t[j].emoji = e.emoji) <=> \A j \in i .. l : s[j].emoji = e.emoji
        <4>1. \A j \in i .. n : j \in i .. l \/ j = n
          BY <1>1, <1>2
        <4>2. \A j \in i .. l : j \in i .. n /\ j \in 1 .. l
          BY <1>1, <1>2
        <4> QED
          BY <1>3, <4>1, <4>2
      <3>2. i \in 1 .. n
        BY <1>1, <1>2
      <3> QED
        BY <1>5, <1>7, <1>9, <3>1, <3>2
    <2>2. LastRun(t) = LastRun(s) \cup {n}
      <3>1. \A i \in 1 .. n : i \in 1 .. l \/ i = n
        BY <1>1, <1>2
      <3> QED
        BY <1>6, <1>8, <2>1, <3>1
    <2> QED
      BY <1>1, <1>2, <1>3, <1>4, <1>8, <1>9, <2>2 DEF GoesOn
  <1>10. CASE l = 0 \/ s[l].emoji # e.emoji
    <2>1. ASSUME NEW i \in LastRun(t), i # n PROVE FALSE
      <3>1. i \in 1 .. n /\ l \in i .. n /\ l \in 1 .. l
        BY <1>1, <1>2, <1>8, <2>1
      <3>2. t[l].emoji = e.emoji
        BY <1>5, <2>1, <3>1
      <3> QED
        BY <1>3, <1>10, <3>1, <3>2
    <2>2. LastRun(t) = {n}
      BY <1>6, <2>1
    <2>3. s = <<>> \/ s[Len(s)].emoji # e.emoji
      BY <1>1, <1>10
    <2> QED
      BY <1>1, <1>2, <1>3, <1>4, <1>8, <2>2, <2>3 DEF GoesOn
  <1> QED
    BY <1>9, <1>10

\* What a log leaves, by the sum of its last run.
LEMMA ReactedIs ==
  ASSUME NEW s
  PROVE  Reacted(s) = IF s = <<>> \/ s[Len(s)].emoji = Clear THEN None
                      ELSE [emoji |-> s[Len(s)].emoji, count |-> Sum(s, LastRun(s))]
  BY DEF Reacted, Sum

\* The property for one user and one target.
AddsUp(s, row) ==
  row = IF s = <<>> \/ s[Len(s)].emoji = Clear THEN None
        ELSE [emoji |-> s[Len(s)].emoji, count |-> Sum(s, LastRun(s))]

\* The property, and the property of the next state, row by row.
LEMMA AddUp ==
  /\ ReactionsAddUp <=> \A x \in Targets \X Users : AddsUp(log[x], reaction[x])
  /\ ReactionsAddUp' <=> \A x \in Targets \X Users : AddsUp(log'[x], reaction'[x])
  <1>1. \A s, row : AddsUp(s, row) <=> row = Reacted(s)
    BY ReactedIs DEF AddsUp
  <1> QED
    BY <1>1 DEF ReactionsAddUp

\* One more reaction counts on, or begins anew.
LEMMA OneMore ==
  ASSUME NEW s \in Seq(Entries), NEW e \in Entries, e.emoji # Clear, NEW row, AddsUp(s, row)
  PROVE  AddsUp(Append(s, e),
                [emoji |-> e.emoji,
                 count |-> IF row # None /\ row.emoji = e.emoji THEN row.count + e.delta ELSE e.delta])
  <1>1. PICK t, n : t = Append(s, e) /\ n = Len(s) + 1
    OBVIOUS
  <1>2. /\ t # <<>> /\ Len(t) = n /\ t[n] = e
        /\ LastRun(t) = (IF s # <<>> /\ s[Len(s)].emoji = e.emoji THEN LastRun(s) ELSE {}) \cup {n}
        /\ n \notin LastRun(s) /\ \A i \in LastRun(s) : t[i] = s[i]
    <2>1. GoesOn(s, e, t, n)
      BY <1>1, RunGoesOn
    <2> QED
      BY <2>1 DEF GoesOn
  <1>3. IsFiniteSet(LastRun(s)) /\ \A i \in LastRun(s) : s[i].delta \in Nat
    <2>1. LastRun(s) \in SUBSET (1 .. Len(s)) /\ Len(s) \in Nat
      BY DEF LastRun
    <2>2. IsFiniteSet(1 .. Len(s))
      BY <2>1, FS_Interval
    <2>3. ASSUME NEW i \in 1 .. Len(s) PROVE s[i].delta \in Nat
      <3>1. s[i] \in Entries
        OBVIOUS
      <3> QED
        BY <3>1 DEF Entries
    <2> QED
      BY <2>1, <2>2, <2>3, FS_Subset
  <1>4. e.delta \in Nat
    BY DEF Entries
  <1>5. AddsUp(t, [emoji |-> e.emoji, count |-> Sum(t, LastRun(t))])
    BY <1>2 DEF AddsUp
  <1>6. CASE s # <<>> /\ s[Len(s)].emoji = e.emoji
    <2>1. row = [emoji |-> e.emoji, count |-> Sum(s, LastRun(s))]
      BY <1>6 DEF AddsUp
    <2>2. LastRun(t) = LastRun(s) \cup {n}
      BY <1>2, <1>6
    <2>3. IsFiniteSet(LastRun(t)) /\ LastRun(t) \ {n} = LastRun(s) /\ n \in LastRun(t)
      BY <1>2, <1>3, <2>2, FS_AddElement
    <2>4. \A i \in LastRun(t) : t[i].delta \in Nat
      BY <1>2, <1>3, <1>4, <2>2
    <2>5. Sum(t, LastRun(t)) = e.delta + Sum(t, LastRun(s))
      BY <1>2, <2>3, <2>4, SumWithout
    <2>6. Sum(t, LastRun(s)) = Sum(s, LastRun(s)) /\ Sum(s, LastRun(s)) \in Nat
      BY <1>2, <1>3, SumSame, SumWithout
    <2>7. row # None
      <3>1. e.emoji \in Emojis
        BY DEF Entries
      <3> QED
        BY <2>1, <2>6, <3>1, EngagementAssumption
    <2>8. row.count + e.delta = Sum(t, LastRun(t))
      BY <1>4, <2>1, <2>5, <2>6
    <2> QED
      BY <1>1, <1>5, <2>1, <2>7, <2>8
  <1>7. CASE ~(s # <<>> /\ s[Len(s)].emoji = e.emoji)
    <2>1. ~(row # None /\ row.emoji = e.emoji)
      BY <1>7 DEF AddsUp
    <2>2. LastRun(t) = {n}
      BY <1>2, <1>7
    <2>3. IsFiniteSet(LastRun(t)) /\ IsFiniteSet({}) /\ LastRun(t) \ {n} = {}
      BY <2>2, FS_Singleton, FS_EmptySet
    <2>4. Sum(t, LastRun(t)) = e.delta + Sum(t, {})
      BY <1>2, <1>4, <2>2, <2>3, SumWithout
    <2>5. Sum(t, {}) = 0
      BY <2>3, SumByChoice
    <2>6. Sum(t, LastRun(t)) = e.delta
      BY <1>4, <2>4, <2>5
    <2> QED
      BY <1>1, <1>5, <2>1, <2>6
  <1> QED
    BY <1>6, <1>7

\* What a reaction writes, and all that writes reactions.
LEMMA ReactionAddsUp ==
  ASSUME IInv, ReactionsAddUp, NEW r \in Requests, ClearReaction(r) \/ UpsertReaction(r)
  PROVE  ReactionsAddUp'
  <1> DEFINE e == [emoji |-> job[r].emoji, delta |-> job[r].delta]
  <1>1. Row(r) \in Targets \X Users /\ e \in Entries
    <2>1. TypeOK
      BY DEF IInv
    <2> QED
      BY <2>1, JobFields DEF Row, Entries, Targets
  <1>2. /\ log \in [Targets \X Users -> Seq(Entries)] /\ log' = Logged(r)
        /\ DOMAIN reaction = Targets \X Users
    BY DEF IInv, TypeOK, ClearReaction, UpsertReaction, Entries
  <1>3. log'[Row(r)] = Append(log[Row(r)], e) /\ \A x \in (Targets \X Users) \ {Row(r)} : log'[x] = log[x]
    BY <1>1, <1>2 DEF Logged
  <1>4. ASSUME NEW x \in (Targets \X Users) \ {Row(r)} PROVE reaction'[x] = reaction[x]
    BY <1>1, <1>2 DEF ClearReaction, UpsertReaction
  <1>5. AddsUp(log[Row(r)], reaction[Row(r)]) /\ log[Row(r)] \in Seq(Entries)
    BY <1>1, <1>2, AddUp
  <1>6. AddsUp(log'[Row(r)], reaction'[Row(r)])
    <2>1. CASE ClearReaction(r)
      <3>1. reaction'[Row(r)] = None /\ e.emoji = Clear
        BY <1>1, <1>2, <2>1 DEF ClearReaction
      <3>2. \A s \in Seq(Entries) : Len(Append(s, e)) = Len(s) + 1 /\ Append(s, e)[Len(s) + 1] = e
        BY <1>1, AppendProperties
      <3>3. log'[Row(r)][Len(log'[Row(r)])].emoji = Clear
        BY <1>3, <1>5, <3>1, <3>2
      <3> QED
        BY <3>1, <3>3 DEF AddsUp
    <2>2. CASE UpsertReaction(r)
      <3>1. /\ e.emoji # Clear
            /\ reaction'[Row(r)] = [emoji |-> e.emoji, count |-> NewCount(reaction[Row(r)], r)]
        BY <1>1, <1>2, <2>2 DEF UpsertReaction
      <3>2. NewCount(reaction[Row(r)], r) =
              IF reaction[Row(r)] # None /\ reaction[Row(r)].emoji = e.emoji
              THEN reaction[Row(r)].count + e.delta ELSE e.delta
        BY DEF NewCount
      <3> HIDE DEF e
      <3> QED
        BY <1>1, <1>3, <1>5, <3>1, <3>2, OneMore
    <2> QED
      BY <2>1, <2>2
  <1>7. \A x \in Targets \X Users : AddsUp(log'[x], reaction'[x])
    BY <1>3, <1>4, <1>6, AddUp
  <1> QED
    BY <1>7, AddUp

\* The reaction of a user is what the log of the requests adds up to, however
\* many devices react at once (ToggleReaction).
THEOREM SumsAreKept == Spec => []ReactionsAddUp
  <1>1. Init => ReactionsAddUp
    BY DEF Init, ReactionsAddUp, Reacted
  <1>2. IInv /\ ReactionsAddUp /\ [Next]_vars => ReactionsAddUp'
    <2> SUFFICES ASSUME IInv, ReactionsAddUp, [Next]_vars PROVE ReactionsAddUp'
      OBVIOUS
    <2>1. CASE UNCHANGED <<reaction, log>>
      BY <2>1, AddUp
    <2>2. CASE \E r \in Requests : ClearReaction(r) \/ UpsertReaction(r)
      BY <2>2, ReactionAddsUp
    <2>3. ASSUME NEW r \in Requests,
                 CommentStep(r) \/ ReactionStep(r) \/ PublicationStep(r) \/ FailureStep(r),
                 ~ClearReaction(r), ~UpsertReaction(r)
          PROVE  UNCHANGED <<reaction, log>>
      <3>1. CASE CommentStep(r)
        BY <3>1 DEF CommentStep, CheckTarget, CreateComment, NotifyComment, CheckOwn, DeleteComment,
                    DeletePost, DeleteMisses, Reads, tables
      <3>2. CASE ReactionStep(r)
        BY <2>3, <3>2 DEF ReactionStep, UpsertOverflows, FindRecipient, NotifyReaction, ReadSummaries,
                          Reads, tables
      <3>3. CASE PublicationStep(r)
        BY <3>3 DEF PublicationStep, CheckPublish, CheckPost, Publish, PublishRefused, CheckUnpublish,
                    Unpublish, CheckPlatform, AddPlatform, UpdatePlatform, DropPlatform, SetPlatform,
                    PlatformRefused, Reads, tables
      <3> QED
        BY <2>3, <3>1, <3>2, <3>3 DEF FailureStep, Fail, TargetUnseen, TellingFails, Die, Reads, tables
    <2> QED
      BY <2>1, <2>2, <2>3 DEF Next, vars, tables
  <1> QED
    BY <1>1, <1>2, InvariantHolds, PTL DEF Spec
=============================================================================
