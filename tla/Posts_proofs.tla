---------------------------- MODULE Posts_proofs ----------------------------
(***************************************************************************)
(* What is proved about posts: their review (PostReview), and reading them *)
(* page by page (Listings), for any number of posts, users and requests,   *)
(* however many of them run at the same time.                              *)
(***************************************************************************)
EXTENDS PostReview, Listings, FiniteSetTheorems, TLAPS

-----------------------------------------------------------------------------
(* The review.                                                             *)

\* The initial states of the table and the requests satisfy the invariant.
LEMMA InitInv == Init => IInv
  <1> SUFFICES ASSUME Init PROVE IInv
    OBVIOUS
  <1> USE PostReviewAssumption DEF Init
  <1>1. TypeOK
    BY DEF TypeOK, Levels, Statuses, RequestPCs, Ops
  <1>2. RequestsAreEntitled
    BY DEF RequestsAreEntitled
  <1>3. CreatedOnce
    BY DEF CreatedOnce
  <1>4. ReviewIsSigned /\ UnchangedSinceReview /\ NotesAreOfStarted /\ NotesAreExplained
    BY DEF ReviewIsSigned, UnchangedSinceReview, NotesAreOfStarted, NotesAreExplained
  <1>5. FreshIsCurrent /\ TimesHavePassed
    BY DEF FreshIsCurrent, TimesHavePassed
  <1> QED
    BY <1>1, <1>2, <1>3, <1>4, <1>5 DEF IInv

-----------------------------------------------------------------------------
(* One lemma per conjunct.                                                 *)

\* Every step keeps the types.
LEMMA TypeStep == ASSUME IInv, [Next]_vars PROVE TypeOK'
  <1> USE PostReviewAssumption DEF IInv, TypeOK, Overtake, vars, postVars, requestVars
  <1>1. ASSUME NEW u \in Users, NEW l \in Levels, ChangeRights(u, l) PROVE TypeOK'
    BY <1>1 DEF ChangeRights
  <1> SUFFICES ASSUME NEW r \in Requests,
                      \/ \E u \in Users, o \in Ops : Authenticate(r, u, o)
                      \/ RequestStep(r)
                      \/ Fail(r)
               PROVE  TypeOK'
    BY <1>1 DEF Next
  <1>2. ASSUME NEW u \in Users, NEW o \in Ops, Authenticate(r, u, o) PROVE TypeOK'
    BY <1>2 DEF Authenticate, RequestPCs
  <1>3. CASE Read(r)
    BY <1>3 DEF Read, RequestPCs
  <1>4. CASE Begin(r)
    BY <1>4 DEF Begin, RequestPCs
  <1>5. CASE Create(r)
    BY <1>5 DEF Create, RequestPCs, Statuses
  <1>6. CASE Edit(r)
    BY <1>6 DEF Edit, Writes, RequestPCs
  <1>7. CASE Decide(r)
    <2>1. StatusOf(op[r]) \in Statuses
      BY DEF StatusOf, Statuses
    <2> QED
      BY <1>7, <2>1 DEF Decide, Writes, Reviewed, RequestPCs
  <1>8. CASE Delete(r) \/ PostGone(r)
    BY <1>8 DEF Delete, Writes, PostGone, RequestPCs
  <1>9. CASE ListReviewers(r)
    BY <1>9 DEF ListReviewers, Audience, Reviewers, RequestPCs
  <1>10. ASSUME NEW u \in Users, NotifyOne(r, u) PROVE TypeOK'
    <2>1. KindOf[op[r]] \in Kinds
      BY <1>10 DEF NotifyOne, RequestsAreEntitled, Verdicts, KindOf, Kinds
    <2> QED
      BY <1>10, <2>1 DEF NotifyOne, RequestPCs
  <1>11. CASE Fail(r)
    BY <1>11 DEF Fail, RequestPCs
  <1> QED
    BY <1>2, <1>3, <1>4, <1>5, <1>6, <1>7, <1>8, <1>9, <1>10, <1>11 DEF RequestStep, WriteStep

\* A request only goes on if its user may do what it asks for, and a user's
\* rights, once read, do not change during the request.
LEMMA EntitledStep == ASSUME IInv, [Next]_vars PROVE RequestsAreEntitled'
  <1> USE PostReviewAssumption DEF IInv, TypeOK, RequestsAreEntitled, Entitled, CanReview,
          vars, postVars, requestVars
  <1>1. ASSUME NEW u \in Users, NEW l \in Levels, ChangeRights(u, l) PROVE RequestsAreEntitled'
    BY <1>1 DEF ChangeRights
  <1> SUFFICES ASSUME NEW r \in Requests,
                      \/ \E u \in Users, o \in Ops : Authenticate(r, u, o)
                      \/ RequestStep(r)
                      \/ Fail(r)
               PROVE  RequestsAreEntitled'
    BY <1>1 DEF Next
  <1>2. ASSUME NEW u \in Users, NEW o \in Ops, Authenticate(r, u, o) PROVE RequestsAreEntitled'
    BY <1>2 DEF Authenticate
  <1>3. CASE Read(r)
    BY <1>3 DEF Read, Passes, MayResubmit, Verdicts, Ops
  <1>4. CASE Begin(r)
    BY <1>4 DEF Begin
  <1>5. CASE Create(r)
    BY <1>5 DEF Create
  <1>6. CASE Edit(r)
    BY <1>6 DEF Edit, Writes
  <1>7. CASE Decide(r)
    BY <1>7 DEF Decide, Writes, Verdicts
  <1>8. CASE Delete(r) \/ PostGone(r)
    BY <1>8 DEF Delete, Writes, PostGone
  <1>9. CASE ListReviewers(r)
    BY <1>9 DEF ListReviewers, Audience, Reviewers, Verdicts
  <1>10. ASSUME NEW u \in Users, NotifyOne(r, u) PROVE RequestsAreEntitled'
    BY <1>10 DEF NotifyOne
  <1>11. CASE Fail(r)
    BY <1>11 DEF Fail
  <1> QED
    BY <1>2, <1>3, <1>4, <1>5, <1>6, <1>7, <1>8, <1>9, <1>10, <1>11 DEF RequestStep, WriteStep

\* Only Authenticate changes op and actor, only Create makes a post.
LEMMA CreatedOnceStep == ASSUME IInv, [Next]_vars PROVE CreatedOnce'
  <1> USE PostReviewAssumption DEF IInv, TypeOK, CreatedOnce, vars, postVars, requestVars
  <1>1. ASSUME NEW u \in Users, NEW l \in Levels, ChangeRights(u, l) PROVE CreatedOnce'
    BY <1>1 DEF ChangeRights
  <1> SUFFICES ASSUME NEW r \in Requests,
                      \/ \E u \in Users, o \in Ops : Authenticate(r, u, o)
                      \/ RequestStep(r)
                      \/ Fail(r)
               PROVE  CreatedOnce'
    BY <1>1 DEF Next
  <1>2. ASSUME NEW u \in Users, NEW o \in Ops, Authenticate(r, u, o) PROVE CreatedOnce'
    BY <1>2 DEF Authenticate
  <1>3. CASE Read(r)
    BY <1>3 DEF Read, RequestsAreEntitled
  <1>4. CASE Begin(r)
    BY <1>4 DEF Begin
  <1>5. CASE Create(r)
    BY <1>5 DEF Create
  <1>6. CASE Edit(r) \/ Decide(r) \/ Delete(r) \/ PostGone(r)
    BY <1>6 DEF Edit, Decide, Delete, Writes, PostGone
  <1>7. CASE ListReviewers(r)
    BY <1>7 DEF ListReviewers
  <1>8. ASSUME NEW u \in Users, NotifyOne(r, u) PROVE CreatedOnce'
    BY <1>8 DEF NotifyOne
  <1>9. CASE Fail(r)
    BY <1>9 DEF Fail
  <1> QED
    BY <1>2, <1>3, <1>4, <1>5, <1>6, <1>7, <1>8, <1>9 DEF RequestStep, WriteStep

\* A review is signed by the request that writes it; the requests that have
\* signed one stay as they are.
LEMMA SignedStep == ASSUME IInv, [Next]_vars PROVE ReviewIsSigned' /\ UnchangedSinceReview'
  <1> DEFINE Goal == ReviewIsSigned /\ UnchangedSinceReview
  <1> USE PostReviewAssumption DEF IInv, TypeOK, vars, postVars, requestVars
  <1>0. ASSUME UNCHANGED <<status, reviewedAt, reviewedBy>>,
               \A q \in Requests : op[q] \in Verdicts =>
                 op'[q] = op[q] /\ actor'[q] = actor[q] /\ level'[q] = level[q]
        PROVE  ReviewIsSigned'
    BY <1>0 DEF ReviewIsSigned, CanReview, StatusOf
  <1>1. ASSUME NEW u \in Users, NEW l \in Levels, ChangeRights(u, l) PROVE Goal'
    BY <1>0, <1>1 DEF ChangeRights, UnchangedSinceReview
  <1>s. CASE UNCHANGED vars
    BY <1>0, <1>s DEF UnchangedSinceReview
  <1> SUFFICES ASSUME NEW r \in Requests,
                      \/ \E u \in Users, o \in Ops : Authenticate(r, u, o)
                      \/ RequestStep(r)
                      \/ Fail(r)
               PROVE  Goal'
    BY <1>1, <1>s DEF Next
  <1>2. ASSUME NEW u \in Users, NEW o \in Ops, Authenticate(r, u, o) PROVE Goal'
    <2>1. op[r] \notin Verdicts
      BY <1>2 DEF Authenticate, RequestsAreEntitled, Verdicts
    <2> QED
      BY <1>0, <1>2, <2>1 DEF Authenticate, UnchangedSinceReview
  <1>3. CASE Read(r) \/ Begin(r) \/ PostGone(r) \/ ListReviewers(r) \/ Fail(r)
    BY <1>0, <1>3 DEF Read, Begin, PostGone, ListReviewers, Fail, UnchangedSinceReview
  <1>4. ASSUME NEW u \in Users, NotifyOne(r, u) PROVE Goal'
    BY <1>0, <1>4 DEF NotifyOne, UnchangedSinceReview
  <1>5. CASE Create(r)
    BY <1>5 DEF Create, ReviewIsSigned, UnchangedSinceReview
  <1>6. CASE Edit(r) \/ Delete(r)
    BY <1>0, <1>6 DEF Edit, Delete, UnchangedSinceReview
  <1>7. CASE Decide(r)
    <2>1. /\ op[r] \in Verdicts
          /\ at[r] > 0
          /\ op[r] # "reopen" => CanReview(r)
      BY <1>7 DEF Decide, Writes, RequestsAreEntitled, Entitled, Verdicts
    <2>2. StatusOf(op[r]) = "pending" <=> op[r] = "reopen"
      BY <2>1 DEF StatusOf, Verdicts
    <2>3. UNCHANGED <<op, actor, level>>
      BY <1>7 DEF Decide
    <2>4. /\ status' = StatusOf(op[r])
          /\ reviewedAt' = IF op[r] = "reopen" THEN 0 ELSE at[r]
          /\ reviewedBy' = IF op[r] = "reopen" THEN NoUser ELSE actor[r]
          /\ updatedAt' = at[r]
      BY <1>7 DEF Decide, Reviewed
    <2>5. UnchangedSinceReview'
      BY <2>2, <2>4 DEF UnchangedSinceReview
    <2>6. CASE op[r] = "reopen"
      BY <2>2, <2>4, <2>5, <2>6 DEF ReviewIsSigned
    <2>7. CASE op[r] # "reopen"
      <3>1. CanReview(r)' /\ (op[r] \in Verdicts)' /\ (StatusOf(op[r]))' = status'
        BY <2>1, <2>3, <2>4, <2>7 DEF CanReview, StatusOf
      <3>2. status' # "pending" /\ reviewedAt' > 0 /\ reviewedBy' = actor'[r]
        BY <2>1, <2>2, <2>3, <2>4, <2>7
      <3> QED
        BY <2>5, <3>1, <3>2 DEF ReviewIsSigned
    <2> QED
      BY <2>6, <2>7
  <1> QED
    BY <1>2, <1>3, <1>4, <1>5, <1>6, <1>7 DEF RequestStep, WriteStep

\* A notification is written by a request that has made its decision, to a
\* member of the audience.
LEMMA NotesStep == ASSUME IInv, [Next]_vars PROVE NotesAreOfStarted' /\ NotesAreExplained'
  <1> DEFINE Goal == NotesAreOfStarted /\ NotesAreExplained
  <1> USE PostReviewAssumption DEF IInv, TypeOK, vars, postVars, requestVars
  <1>0. ASSUME UNCHANGED notes,
               \A q \in Requests : pc[q] \in {"notify", "done"} =>
                 /\ pc'[q] \in {"notify", "done"}
                 /\ op'[q] = op[q] /\ actor'[q] = actor[q] /\ level'[q] = level[q]
        PROVE  Goal'
    <2> SUFFICES ASSUME NEW n \in notes
                 PROVE  /\ pc'[n.by] \in {"notify", "done"}
                        /\ actor'[n.by] # n.to
                        /\ n.kind = KindOf[op'[n.by]]
                        /\ n.kind \in {"post_approved", "post_rejected"} =>
                             n.to = Author /\ level'[n.by] \in ReviewLevels
                        /\ n.kind = "post_created" => actor'[n.by] = Author
                        /\ n.kind = "post_resubmitted" => op'[n.by] = "reopen"
      BY <1>0 DEF NotesAreOfStarted, NotesAreExplained, CanReview, KindOf
    <2>1. n.by \in Requests /\ pc[n.by] \in {"notify", "done"}
      BY DEF NotesAreOfStarted
    <2>2. /\ pc'[n.by] \in {"notify", "done"}
          /\ op'[n.by] = op[n.by] /\ actor'[n.by] = actor[n.by] /\ level'[n.by] = level[n.by]
      BY <1>0, <2>1
    <2> QED
      BY <2>2 DEF NotesAreExplained, CanReview
  <1>1. ASSUME NEW u \in Users, NEW l \in Levels, ChangeRights(u, l) PROVE Goal'
    BY <1>0, <1>1 DEF ChangeRights
  <1>s. CASE UNCHANGED vars
    BY <1>0, <1>s
  <1> SUFFICES ASSUME NEW r \in Requests,
                      \/ \E u \in Users, o \in Ops : Authenticate(r, u, o)
                      \/ RequestStep(r)
                      \/ Fail(r)
               PROVE  Goal'
    BY <1>1, <1>s DEF Next
  <1>2. ASSUME NEW u \in Users, NEW o \in Ops, Authenticate(r, u, o) PROVE Goal'
    BY <1>0, <1>2 DEF Authenticate
  <1>3. CASE Read(r) \/ Begin(r) \/ PostGone(r) \/ ListReviewers(r) \/ Fail(r)
    BY <1>0, <1>3 DEF Read, Begin, PostGone, ListReviewers, Fail
  <1>4. CASE Create(r) \/ Edit(r) \/ Decide(r) \/ Delete(r)
    BY <1>0, <1>4 DEF Create, Edit, Decide, Delete, Writes
  <1>5. ASSUME NEW u \in Users, NotifyOne(r, u) PROVE Goal'
    <2> DEFINE new == [by |-> r, to |-> u, kind |-> KindOf[op[r]]]
    <2>1. /\ UNCHANGED <<op, actor, level>>
          /\ pc[r] = "notify" /\ u \in todo[r]
          /\ \A q \in Requests : pc[q] \in {"notify", "done"} => pc'[q] \in {"notify", "done"}
          /\ pc'[r] \in {"notify", "done"}
          /\ notes' = notes \/ notes' = notes \cup {new}
      BY <1>5 DEF NotifyOne
    <2>2. /\ op[r] \in {"create"} \cup Verdicts
          /\ Entitled(r)
          /\ actor[r] # u
          /\ op[r] \in {"approve", "reject"} => u = Author
      BY <2>1 DEF RequestsAreEntitled
    <2>3. /\ KindOf[op[r]] \in {"post_approved", "post_rejected"} <=> op[r] \in {"approve", "reject"}
          /\ KindOf[op[r]] = "post_created" <=> op[r] = "create"
          /\ KindOf[op[r]] = "post_resubmitted" => op[r] = "reopen"
      BY <2>2 DEF KindOf, Verdicts
    <2>4. /\ new.by = r /\ new.to = u /\ new.kind = KindOf[op[r]]
          /\ new.kind \in {"post_approved", "post_rejected"} => u = Author /\ CanReview(r)
          /\ new.kind = "post_created" => actor[r] = Author
          /\ new.kind = "post_resubmitted" => op[r] = "reopen"
      BY <2>2, <2>3 DEF Entitled
    <2> HIDE DEF new
    <2>5. CASE notes' = notes
      BY <1>0, <2>1, <2>5
    <2>6. CASE notes' = notes \cup {new}
      <3>1. NotesAreOfStarted'
        BY <2>1, <2>4, <2>6 DEF NotesAreOfStarted
      <3>2. NotesAreExplained'
        BY <2>1, <2>2, <2>4, <2>6 DEF NotesAreExplained, CanReview, KindOf
      <3> QED
        BY <3>1, <3>2
    <2> QED
      BY <2>1, <2>5, <2>6
  <1> QED
    BY <1>2, <1>3, <1>4, <1>5 DEF RequestStep, WriteStep

\* Only a write changes what others have checked, and it makes them stale.
LEMMA FreshStep == ASSUME IInv, [Next]_vars PROVE FreshIsCurrent' /\ TimesHavePassed'
  <1> DEFINE Goal == FreshIsCurrent /\ TimesHavePassed
  <1> USE PostReviewAssumption DEF IInv, TypeOK, TimesHavePassed, vars, postVars, requestVars
  <1>0. ASSUME UNCHANGED <<postVars, clock, seen, at, stale>>,
               \A q \in Requests : pc'[q] \in {"begin", "write"} /\ op'[q] # "create" =>
                 pc'[q] = pc[q] /\ op'[q] = op[q] /\ level'[q] = level[q],
               \A q \in Requests : pc'[q] = "write" => pc[q] = "write"
        PROVE  Goal'
    BY <1>0 DEF FreshIsCurrent, CanReview
  <1>1. ASSUME NEW u \in Users, NEW l \in Levels, ChangeRights(u, l) PROVE Goal'
    BY <1>0, <1>1 DEF ChangeRights
  <1>s. CASE UNCHANGED vars
    BY <1>0, <1>s
  <1> SUFFICES ASSUME NEW r \in Requests,
                      \/ \E u \in Users, o \in Ops : Authenticate(r, u, o)
                      \/ RequestStep(r)
                      \/ Fail(r)
               PROVE  Goal'
    BY <1>1, <1>s DEF Next
  <1>2. ASSUME NEW u \in Users, NEW o \in Ops, Authenticate(r, u, o) PROVE Goal'
    BY <1>0, <1>2 DEF Authenticate
  <1>3. CASE Read(r)
    <2>1. CASE ~Passes(r)
      BY <1>0, <1>3, <2>1 DEF Read
    <2>2. CASE Passes(r)
      <3>1. /\ seen' = [seen EXCEPT ![r] = [status |-> status, content |-> content]]
            /\ pc' = [pc EXCEPT ![r] = "begin"]
            /\ UNCHANGED <<postVars, clock, op, level, at, stale>>
        BY <1>3, <2>2 DEF Read
      <3>2. life = "live"
        BY <2>2 DEF Passes
      <3>3. op[r] \in Verdicts /\ ~CanReview(r) => op[r] = "reopen" /\ status = "rejected" /\ editedSince
        <4>1. status = "rejected" => reviewedAt > 0
          BY DEF ReviewIsSigned
        <4> QED
          BY <2>2, <4>1 DEF Passes, MayResubmit, UnchangedSinceReview
      <3> QED
        BY <3>1, <3>2, <3>3 DEF FreshIsCurrent, CanReview
    <2> QED
      BY <2>1, <2>2
  <1>4. CASE Begin(r)
    <2>1. /\ clock' = clock + 1 /\ at' = [at EXCEPT ![r] = clock + 1]
          /\ pc[r] = "begin" /\ pc' = [pc EXCEPT ![r] = "write"]
          /\ UNCHANGED <<postVars, op, level, seen, stale>>
      BY <1>4 DEF Begin
    <2> QED
      BY <2>1 DEF FreshIsCurrent, CanReview
  <1>5. CASE Create(r) \/ Edit(r) \/ Decide(r) \/ Delete(r)
    <2>1. /\ \A q \in Requests \ stale' : pc'[q] \notin {"begin", "write"}
          /\ reviewedAt' \in {0, reviewedAt, at[r]}
          /\ UNCHANGED <<clock, at>>
      BY <1>5 DEF Create, Edit, Decide, Delete, Writes, Reviewed, Overtake
    <2> QED
      BY <2>1 DEF FreshIsCurrent
  <1>6. CASE PostGone(r) \/ ListReviewers(r) \/ Fail(r)
    BY <1>0, <1>6 DEF PostGone, ListReviewers, Fail
  <1>7. ASSUME NEW u \in Users, NotifyOne(r, u) PROVE Goal'
    BY <1>0, <1>7 DEF NotifyOne
  <1> QED
    BY <1>2, <1>3, <1>4, <1>5, <1>6, <1>7 DEF RequestStep, WriteStep

-----------------------------------------------------------------------------

\* The inductive invariant holds in every reachable state, for all constants.
THEOREM InvariantHolds == Spec => []IInv
  <1>1. IInv /\ [Next]_vars => IInv'
    BY TypeStep, EntitledStep, CreatedOnceStep, SignedStep, NotesStep, FreshStep DEF IInv
  <1> QED
    BY InitInv, <1>1, PTL DEF Spec

\* The variables of PostReview keep their types (TypeOK).
THEOREM TypeCorrect == Spec => []TypeOK
  <1>1. IInv => TypeOK
    BY DEF IInv
  <1> QED
    BY InvariantHolds, <1>1, PTL

\* Every approval and rejection bears the hour and the name of somebody who
\* was authenticated with the right to review and asked for it (ReviewIsSigned).
THEOREM ReviewsAreSigned == Spec => []ReviewIsSigned
  <1>1. IInv => ReviewIsSigned
    BY DEF IInv
  <1> QED
    BY InvariantHolds, <1>1, PTL

\* updated_at > reviewed_at only after an edit that followed the review.
THEOREM NewerPostsAreEdited == Spec => []NewerMeansEdited
  <1>1. IInv => NewerMeansEdited
    BY DEF IInv, TypeOK, UnchangedSinceReview, NewerMeansEdited
  <1> QED
    BY InvariantHolds, <1>1, PTL

\* No notification without its cause, and none to the actor (NotesAreExplained).
THEOREM NotificationsAreExplained == Spec => []NotesAreExplained
  <1>1. IInv => NotesAreExplained
    BY DEF IInv
  <1> QED
    BY InvariantHolds, <1>1, PTL

\* A deleted post never changes (DeletedPostIsFrozen).
THEOREM DeletedPostsAreFrozen == Spec => DeletedPostIsFrozen
  <1>1. ASSUME IInv, [Next]_vars, life = "deleted" PROVE UNCHANGED postVars
    <2> USE <1>1 DEF IInv, vars
    <2>1. ASSUME NEW u \in Users, NEW l \in Levels, ChangeRights(u, l) PROVE UNCHANGED postVars
      BY <2>1 DEF ChangeRights
    <2> SUFFICES ASSUME NEW r \in Requests,
                        \/ \E u \in Users, o \in Ops : Authenticate(r, u, o)
                        \/ RequestStep(r)
                        \/ Fail(r)
                 PROVE  UNCHANGED postVars
      BY <2>1 DEF Next
    <2>2. ~(Create(r) \/ Edit(r) \/ Decide(r) \/ Delete(r))
      BY DEF Create, CreatedOnce, Edit, Decide, Delete, Writes
    <2> QED
      BY <2>2 DEF Authenticate, RequestStep, WriteStep, Read, Begin, PostGone,
                  ListReviewers, NotifyOne, Fail
  <1>2. IInv /\ [Next]_vars => [life = "deleted" => UNCHANGED postVars]_vars
    BY <1>1
  <1> QED
    BY InvariantHolds, <1>2, PTL DEF Spec, DeletedPostIsFrozen

\* For the requests that no other has overtaken, in the midst of any others, the
\* checks before the write hold at the write: a resubmission follows an edit
\* (FreshResubmissionFollowsEdit), an edit of a rejected post is recognised
\* (FreshEditIsRecognised), and what is not edited stays (FreshRestKeepsContent).
THEOREM FreshRequestsWriteWhatTheyChecked ==
  Spec => FreshRequestsKeepTheirChecks
  <1> DEFINE A(r) == Decide(r) /\ ~CanReview(r)
                       => status = "rejected" /\ status' = "pending" /\ editedSince
             B(r) == Edit(r) /\ status = "rejected" => updatedAt' > reviewedAt'
             C(r) == op[r] = "editRest" /\ Edit(r) => content' = content
  <1>1. ASSUME IInv, NEW r \in Requests \ stale PROVE A(r) /\ B(r) /\ C(r)
    <2> USE <1>1 DEF IInv
    <2>1. A(r)
      BY DEF Decide, Writes, FreshIsCurrent, StatusOf, Verdicts
    <2>2. B(r)
      BY DEF Edit, Writes, FreshIsCurrent
    <2>3. C(r)
      BY DEF Edit, Writes, FreshIsCurrent
    <2> QED
      BY <2>1, <2>2, <2>3
  <1>2. IInv /\ [Next]_vars => [\A r \in Requests \ stale : A(r)]_vars
    BY <1>1
  <1>3. IInv /\ [Next]_vars => [\A r \in Requests \ stale : B(r)]_vars
    BY <1>1
  <1>4. IInv /\ [Next]_vars => [\A r \in Requests \ stale : C(r)]_vars
    BY <1>1
  <1>5. Spec => FreshResubmissionFollowsEdit
    BY InvariantHolds, <1>2, PTL DEF Spec, FreshResubmissionFollowsEdit
  <1>6. Spec => FreshEditIsRecognised
    BY InvariantHolds, <1>3, PTL DEF Spec, FreshEditIsRecognised
  <1>7. Spec => FreshRestKeepsContent
    BY InvariantHolds, <1>4, PTL DEF Spec, FreshRestKeepsContent
  <1> QED
    BY <1>5, <1>6, <1>7 DEF FreshRequestsKeepTheirChecks

-----------------------------------------------------------------------------
(* Reading page by page.  The places of a list.                            *)

\* As many items as places.
LEMMA Places ==
  ASSUME NEW L, IsFiniteSet(L), NEW s, s \in SetToSeqs(L)
  PROVE  /\ Cardinality(L) \in Nat /\ DOMAIN s = 1 .. Cardinality(L)
         /\ \A x \in DOMAIN s : s[x] \in L
         /\ \A x, y \in DOMAIN s : s[x] = s[y] => x = y
         /\ \A i \in L : \E x \in DOMAIN s : s[x] = i
  <1>1. PICK D : D = 1 .. Cardinality(L)
    OBVIOUS
  <1>2. s \in [D -> L] /\ \A x, y \in D : x # y => s[x] # s[y]
    BY <1>1 DEF SetToSeqs
  <1>3. Cardinality(L) \in Nat
    BY FS_CardinalityType
  <1>4. Cardinality(D) = Cardinality(L)
    BY <1>1, <1>3, FS_Interval
  <1>5. s \in Injection(D, L)
    BY <1>2 DEF Injection, IsInjective
  <1>6. s \in Surjection(D, L)
    BY <1>4, <1>5, FS_Injection
  <1> QED
    BY <1>1, <1>2, <1>3, <1>6 DEF Surjection

\* The items in places a to b.
Between(s, a, b) == {s[x] : x \in a .. b}

LEMMA Segment ==
  ASSUME NEW s, \A x, y \in DOMAIN s : s[x] = s[y] => x = y,
         NEW a \in Int, NEW b \in Int, a .. b \subseteq DOMAIN s
  PROVE  IsFiniteSet(Between(s, a, b)) /\ Cardinality(Between(s, a, b)) = IF a > b THEN 0 ELSE b - a + 1
  <1>1. PICK f : f = [x \in a .. b |-> s[x]]
    OBVIOUS
  <1>2. f \in Bijection(a .. b, Between(s, a, b))
    BY <1>1 DEF Between, Bijection, Injection, Surjection, IsInjective
  <1>3. ExistsBijection(a .. b, Between(s, a, b))
    BY <1>2 DEF ExistsBijection
  <1> QED
    BY <1>3, FS_Interval, FS_Bijection

\* What a request lists depends on what it asks for.
SameQuestion(r, q) ==
  q.kind = r.kind /\ q.ask = r.ask /\ q.one = r.one /\ q.from = r.from /\ q.to = r.to

LEMMA SameLists ==
  ASSUME NEW r, NEW q, SameQuestion(r, q), NEW table, NEW users
  PROVE  /\ Listed(q, table, users) = Listed(r, table, users)
         /\ \A a, b : Before(q, table, users, a, b) = Before(r, table, users, a, b)
         /\ Ties(q, table, users) = Ties(r, table, users)
  <1>1. Listed(q, table, users) = Listed(r, table, users)
    BY DEF Listed, SameQuestion
  <1>2. \A a, b : Before(q, table, users, a, b) = Before(r, table, users, a, b)
    BY DEF Before, SameQuestion
  <1> QED
    BY <1>1, <1>2 DEF Ties, SameQuestion

Tables == [Posts -> PostRows]
UserTables == [Users -> 0 .. MaxTime]

\* Lists are finite.
LEMMA ListsAreFinite ==
  ASSUME NEW r, r.kind \in ListKinds, r.one \in SUBSET Posts, NEW table, NEW users
  PROVE  /\ Listed(r, table, users) \subseteq Items
         /\ r.kind \in {"feed", "post"} => Listed(r, table, users) \subseteq Posts
         /\ r.kind \in {"users", "members"} => Listed(r, table, users) \subseteq Users
         /\ IsFiniteSet(Listed(r, table, users)) /\ Cardinality(Listed(r, table, users)) \in Nat
  <1>1. CASE r.kind \in {"feed", "post"}
    <2>1. Listed(r, table, users) \subseteq Posts
      BY <1>1 DEF Listed
    <2>2. IsFiniteSet(Posts)
      BY ListingsAssumption
    <2> QED
      BY <1>1, <2>1, <2>2, FS_Subset, FS_CardinalityType DEF Items
  <1>2. CASE r.kind \in {"users", "members"}
    <2>1. Listed(r, table, users) \subseteq Users
      BY <1>2 DEF Listed
    <2>2. IsFiniteSet(Users)
      BY ListingsAssumption
    <2> QED
      BY <1>2, <2>1, <2>2, FS_Subset, FS_CardinalityType DEF Items
  <1> QED
    BY <1>1, <1>2 DEF ListKinds

\* The numbers of posts that members are ordered by.
LEMMA CountsAreNumbers ==
  ASSUME NEW table, NEW u, NEW f, NEW t
  PROVE  PostsCreated(table, u, f, t) \in Nat
  <1>1. {p \in Counted(table, f, t) : table[p].by = u} \subseteq Posts /\ IsFiniteSet(Posts)
    BY ListingsAssumption DEF Counted
  <1> QED
    BY <1>1, FS_Subset, FS_CardinalityType DEF PostsCreated

\* Without ties one of two items comes first.
LEMMA OneIsFirst ==
  ASSUME NEW r, r.kind \in ListKinds, r.one \in SUBSET Posts, NEW table, NEW users,
         ~Ties(r, table, users),
         NEW a \in Listed(r, table, users), NEW b \in Listed(r, table, users), a # b
  PROVE  Before(r, table, users, a, b) \/ Before(r, table, users, b, a)
  <1>1. CASE r.kind # "members"
    BY <1>1 DEF Ties
  <1>2. CASE r.kind = "members"
    <2>1. a \in Users /\ b \in Users
      BY <1>2, ListsAreFinite
    <2>2. Rank[a] \in Nat /\ Rank[b] \in Nat /\ Rank[a] # Rank[b]
      BY <2>1, ListingsAssumption
    <2>3. PICK m, n : /\ m = PostsCreated(table, a, r.from, r.to) /\ m \in Nat
                      /\ n = PostsCreated(table, b, r.from, r.to) /\ n \in Nat
      BY CountsAreNumbers
    <2>4. /\ Before(r, table, users, a, b) <=> m > n \/ (m = n /\ Rank[a] < Rank[b])
          /\ Before(r, table, users, b, a) <=> n > m \/ (n = m /\ Rank[b] < Rank[a])
      BY <1>2, <2>3 DEF Before
    <2> QED
      BY <2>2, <2>3, <2>4
  <1> QED
    BY <1>1, <1>2

-----------------------------------------------------------------------------
(* A page of the list.                                                     *)

\* The fields of the reader.
LEMMA ReaderFields ==
  ASSUME PagesTypeOK
  PROVE  /\ reader.pc \in {"idle", "count", "list", "pubs", "tags", "show", "done", "failed"}
         /\ reader.kind \in ListKinds /\ reader.ask \in Questions /\ reader.one \in SUBSET Posts
         /\ reader.from \in 1 .. MaxTime /\ reader.to \in 2 .. MaxTime + 1
         /\ reader.limit \in 1 .. MaxLimit /\ reader.offset \in Nat /\ reader.total \in Nat
         /\ reader.page \in SUBSET Items /\ reader.look \in [Posts -> PostRows]
         /\ reader.first \in SUBSET Items /\ reader.shown \in [Items -> Nat]
         /\ reader.stale \in SUBSET Posts
         /\ reader.left \in BOOLEAN /\ reader.came \in BOOLEAN /\ reader.late \in BOOLEAN
         /\ reader.moved \in BOOLEAN /\ reader.tied \in BOOLEAN
  BY DEF PagesTypeOK, Readers

Here == Listed(reader, post, user)

LEMMA HereIsFinite ==
  ASSUME PagesTypeOK
  PROVE  /\ Here \subseteq Items /\ IsFiniteSet(Here) /\ Cardinality(Here) \in Nat
         /\ \A i : /\ Ahead(i) \subseteq Here /\ IsFiniteSet(Ahead(i))
                   /\ Cardinality(Ahead(i)) \in Nat /\ Cardinality(Ahead(i)) <= Cardinality(Here)
  <1>1. Here \subseteq Items /\ IsFiniteSet(Here) /\ Cardinality(Here) \in Nat
    BY ReaderFields, ListsAreFinite DEF Here
  <1>2. \A i : Ahead(i) \in SUBSET Here
    BY DEF Ahead, Here
  <1> QED
    BY <1>1, <1>2, FS_Subset, FS_CardinalityType

Page(s) == {s[x] : x \in (DOMAIN s) \cap (reader.offset + 1 .. reader.offset + reader.limit)}

LEMMA PageIsListed ==
  ASSUME PagesTypeOK, NEW s \in Orders(reader)
  PROVE  /\ Page(s) \subseteq Here /\ IsFiniteSet(Page(s)) /\ Cardinality(Page(s)) \in Nat
  <1>1. s \in SetToSeqs(Here)
    BY DEF Orders, Here
  <1>2. Page(s) \in SUBSET Here
    BY <1>1, HereIsFinite, Places DEF Page
  <1> QED
    BY <1>2, HereIsFinite, FS_Subset, FS_CardinalityType

\* Without ties an item stands in the place that its order gives it.
LEMMA PlacesAreRanks ==
  ASSUME PagesTypeOK, ~Ties(reader, post, user), NEW s \in Orders(reader),
         NEW x \in DOMAIN s
  PROVE  Cardinality(Ahead(s[x])) = x - 1
  <1>1. /\ s \in SetToSeqs(Here)
        /\ \A y, z \in DOMAIN s : y < z => ~Before(reader, post, user, s[z], s[y])
    BY DEF Orders, Here
  <1>2. /\ Cardinality(Here) \in Nat /\ DOMAIN s = 1 .. Cardinality(Here)
        /\ \A y \in DOMAIN s : s[y] \in Here
        /\ \A y, z \in DOMAIN s : s[y] = s[z] => y = z
        /\ \A i \in Here : \E y \in DOMAIN s : s[y] = i
    BY <1>1, HereIsFinite, Places
  <1>3. \A y \in DOMAIN s : ~Before(reader, post, user, s[y], s[y])
    <2> SUFFICES ASSUME NEW y \in DOMAIN s PROVE ~Before(reader, post, user, s[y], s[y])
      OBVIOUS
    <2>1. CASE reader.kind = "members"
      <3>1. PICK m : m = PostsCreated(post, s[y], reader.from, reader.to) /\ m \in Nat
        BY CountsAreNumbers
      <3>2. s[y] \in Users
        BY <1>2, <2>1, ListsAreFinite, ReaderFields DEF Here
      <3>3. Rank[s[y]] \in Nat
        BY <3>2, ListingsAssumption
      <3> QED
        BY <2>1, <3>1, <3>3 DEF Before
    <2>2. CASE reader.kind = "users"
      <3>1. s[y] \in Users
        BY <1>2, <2>2, ListsAreFinite, ReaderFields DEF Here
      <3>2. user[s[y]] \in Nat
        BY <3>1, ListingsAssumption DEF PagesTypeOK
      <3> QED
        BY <2>2, <3>2 DEF Before
    <2>3. CASE reader.kind \in {"feed", "post"}
      <3>1. s[y] \in Posts
        BY <1>2, <2>3, ListsAreFinite, ReaderFields DEF Here
      <3>2. post[s[y]] \in PostRows
        BY <3>1 DEF PagesTypeOK
      <3>3. post[s[y]].at \in Nat
        BY <3>2, ListingsAssumption DEF PostRows
      <3> QED
        BY <2>3, <3>3 DEF Before
    <2> QED
      BY <2>1, <2>2, <2>3, ReaderFields DEF ListKinds
  <1>4. ASSUME NEW y \in DOMAIN s PROVE Before(reader, post, user, s[y], s[x]) <=> y < x
    <2>1. x \in Nat /\ y \in Nat
      BY <1>2
    <2>2. CASE y < x
      <3>1. s[x] # s[y] /\ ~Before(reader, post, user, s[x], s[y])
        BY <1>1, <1>2, <2>1, <2>2
      <3> QED
        BY <1>2, <2>2, <3>1, OneIsFirst, ReaderFields DEF Here
    <2>3. CASE y = x
      BY <1>3, <2>1, <2>3
    <2>4. CASE x < y
      BY <1>1, <2>1, <2>4
    <2> QED
      BY <2>1, <2>2, <2>3, <2>4
  <1>5. PICK z : z = x - 1
    OBVIOUS
  <1>6. z \in Nat /\ z + 1 = x /\ 1 .. z \subseteq DOMAIN s
    BY <1>2, <1>5
  <1>7. \A y \in DOMAIN s : y < x <=> y \in 1 .. z
    BY <1>2, <1>6
  <1>8. Ahead(s[x]) = Between(s, 1, z)
    BY <1>2, <1>4, <1>6, <1>7 DEF Ahead, Here, Between
  <1>9. Cardinality(Ahead(s[x])) = IF 1 > z THEN 0 ELSE z - 1 + 1
    BY <1>2, <1>6, <1>8, Segment
  <1> QED
    BY <1>5, <1>6, <1>9

\* The page has what stands from the offset on, as many as its number says.
LEMMA PageIsNext ==
  ASSUME PagesTypeOK, ~Ties(reader, post, user), NEW s \in Orders(reader)
  PROVE  LET next == reader.offset + Cardinality(Page(s)) IN
         /\ \A i \in Page(s) : reader.offset <= Cardinality(Ahead(i)) /\ Cardinality(Ahead(i)) < next
         /\ \A i \in Here \ Page(s) :
              reader.offset <= Cardinality(Ahead(i)) =>
                /\ next <= Cardinality(Ahead(i)) /\ Page(s) # {}
                /\ Cardinality(Ahead(i)) < Cardinality(Here)
  <1>1. s \in SetToSeqs(Here)
    BY DEF Orders, Here
  <1>2. PICK n : n = Cardinality(Here)
    OBVIOUS
  <1>3. /\ n \in Nat /\ DOMAIN s = 1 .. n
        /\ \A y \in DOMAIN s : s[y] \in Here
        /\ \A y, z \in DOMAIN s : s[y] = s[z] => y = z
        /\ \A i \in Here : \E y \in DOMAIN s : s[y] = i
    BY <1>1, <1>2, HereIsFinite, Places
  <1>4. PICK o, l : /\ o = reader.offset /\ o \in Nat /\ l = reader.limit /\ l \in Nat /\ 1 <= l
    BY ReaderFields, ListingsAssumption
  <1>5. PICK m : m = IF n <= o + l THEN n ELSE o + l
    OBVIOUS
  <1>6. (DOMAIN s) \cap (o + 1 .. o + l) = o + 1 .. m /\ m \in Nat
    BY <1>3, <1>4, <1>5
  <1>7. Page(s) = Between(s, o + 1, m)
    BY <1>4, <1>6 DEF Page, Between
  <1>8. Cardinality(Page(s)) = IF o + 1 > m THEN 0 ELSE m - (o + 1) + 1
    <2>1. o + 1 \in Int /\ m \in Int /\ o + 1 .. m \subseteq DOMAIN s
      BY <1>4, <1>6
    <2>2. Cardinality(Between(s, o + 1, m)) = IF o + 1 > m THEN 0 ELSE m - (o + 1) + 1
      BY <1>3, <2>1, Segment
    <2> QED
      BY <1>7, <2>2
  <1>9. PICK c : c = Cardinality(Page(s)) /\ c = IF o < m THEN m - o ELSE 0
    BY <1>4, <1>6, <1>8
  <1>10. ASSUME NEW i \in Page(s) PROVE o <= Cardinality(Ahead(i)) /\ Cardinality(Ahead(i)) < o + c
    <2>1. PICK y \in o + 1 .. m : i = s[y]
      BY <1>7 DEF Between
    <2>2. y \in DOMAIN s
      BY <1>6
    <2>3. Cardinality(Ahead(i)) = y - 1
      BY <2>1, <2>2, PlacesAreRanks
    <2> QED
      BY <1>4, <1>6, <1>9, <2>3
  <1>11. ASSUME NEW i \in Here \ Page(s), o <= Cardinality(Ahead(i))
         PROVE  o + c <= Cardinality(Ahead(i)) /\ Page(s) # {} /\ Cardinality(Ahead(i)) < n
    <2>1. PICK y \in DOMAIN s : i = s[y]
      BY <1>3
    <2>2. Cardinality(Ahead(i)) = y - 1
      BY <2>1, PlacesAreRanks
    <2>3. y \notin o + 1 .. m
      BY <1>7, <1>11, <2>1 DEF Between
    <2>4. y \in Nat /\ y <= n /\ o + 1 <= y /\ m < y
      BY <1>3, <1>4, <1>6, <1>11, <2>2, <2>3
    <2>5. m = o + l
      BY <1>3, <1>4, <1>5, <2>4
    <2>6. s[o + 1] \in Page(s)
      <3>1. o + 1 \in o + 1 .. m
        BY <1>4, <2>5
      <3> QED
        BY <1>7, <3>1 DEF Between
    <2>7. o + c = m /\ m <= y - 1 /\ y - 1 < n
      BY <1>3, <1>4, <1>6, <1>9, <2>4, <2>5
    <2> QED
      BY <2>2, <2>6, <2>7
  <1> QED
    BY <1>2, <1>4, <1>9, <1>10, <1>11

-----------------------------------------------------------------------------
(* Steps of the reader.                                                    *)

\* The lists are the same as long as the question and the tables are.
LEMMA SameHere ==
  ASSUME SameQuestion(reader, reader'), UNCHANGED <<post, user>>
  PROVE  /\ Here' = Here /\ \A i : Ahead(i)' = Ahead(i)
         /\ Ties(reader, post, user)' = Ties(reader, post, user)
  <1>1. /\ Listed(reader', post, user) = Listed(reader, post, user)
        /\ \A a, b : Before(reader', post, user, a, b) = Before(reader, post, user, a, b)
        /\ Ties(reader', post, user) = Ties(reader, post, user)
    BY SameLists
  <1> QED
    BY <1>1 DEF Here, Ahead

LEMMA PagesInitInv == ASSUME PagesInit PROVE PagesInv
  <1>1. PagesTypeOK
    <2>1. /\ post \in Tables /\ user \in UserTables /\ writes = 0
          /\ \A p \in Posts : post[p].state # "none" => user[post[p].by] > 0
      BY ListingsAssumption DEF PagesInit, Tables, UserTables
    <2>2. reader \in Readers
      BY <2>1, ListingsAssumption DEF PagesInit, Readers, ListKinds, Tables
    <2> QED
      BY <2>1, <2>2, ListingsAssumption DEF PagesTypeOK, Tables, UserTables
  <1>2. /\ reader.pc = "idle" /\ reader.offset = 0 /\ reader.page = {}
        /\ reader.shown = [i \in Items |-> 0]
    BY DEF PagesInit
  <1> QED
    BY <1>1, <1>2 DEF PagesInv, ReaderIsSound, HistoryIsTrue, ShownStandsInFront, MissingIsToCome,
                      FreshItemsAreTrue

\* A step that reads another part of the page, or leaves off.
LEMMA QuietStep ==
  ASSUME PagesInv, UNCHANGED <<post, user, writes>>, reader' \in Readers,
         SameQuestion(reader, reader'), reader.pc \notin {"idle", "failed", "done"},
         reader'.pc \in {"pubs", "tags", "show"} <=> reader.pc \in {"pubs", "tags", "show"},
         reader'.pc # "list", reader'.pc # "idle", reader'.pc # "done",
         reader'.page = reader.page, reader'.offset = reader.offset, reader'.shown = reader.shown,
         reader'.first = reader.first, reader'.total = reader.total, reader'.left = reader.left,
         reader'.came = reader.came, reader'.late = reader.late, reader'.moved = reader.moved,
         reader'.tied = reader.tied, FreshItemsAreTrue'
  PROVE  PagesInv'
  <1>1. PagesTypeOK'
    BY DEF PagesInv, PagesTypeOK
  <1>2. /\ Here' = Here /\ \A i : Ahead(i)' = Ahead(i)
        /\ Ties(reader, post, user)' = Ties(reader, post, user)
    BY SameHere
  <1>3. Shown' = Shown
    BY DEF Shown
  <1>4. ReaderIsSound'
    BY DEF PagesInv, ReaderIsSound
  <1>5. HistoryIsTrue'
    BY <1>2 DEF PagesInv, HistoryIsTrue, Here
  <1>6. ShownStandsInFront'
    BY <1>2, <1>3 DEF PagesInv, ShownStandsInFront, Here
  <1>7. MissingIsToCome'
    BY <1>2, <1>3 DEF PagesInv, MissingIsToCome
  <1> QED
    BY <1>1, <1>4, <1>5, <1>6, <1>7 DEF PagesInv

LEMMA ReadPublicationsStep == ASSUME PagesInv, ReadPublications PROVE PagesInv'
  <1>1. reader \in Readers /\ reader.pc = "pubs" /\ UNCHANGED <<post, user, writes>>
        /\ post \in [Posts -> PostRows] /\ reader.look \in [Posts -> PostRows]
    BY ReaderFields DEF PagesInv, PagesTypeOK, ReadPublications
  <1>2. PICK look : look = [p \in Posts |-> [reader.look[p] EXCEPT !.on = post[p].on]]
    OBVIOUS
  <1>3. reader' = [reader EXCEPT !.pc = "tags", !.look = look]
    BY <1>2 DEF ReadPublications
  <1>4. look \in [Posts -> PostRows]
    <2> SUFFICES ASSUME NEW p \in Posts PROVE [reader.look[p] EXCEPT !.on = post[p].on] \in PostRows
      BY <1>2
    <2>1. reader.look[p] \in PostRows /\ post[p] \in PostRows
      BY <1>1
    <2> QED
      BY <2>1 DEF PostRows
  <1>5. reader' \in Readers
    BY <1>1, <1>3, <1>4 DEF Readers
  <1>6. /\ SameQuestion(reader, reader') /\ reader'.pc = "tags" /\ reader'.look = look
        /\ reader'.page = reader.page /\ reader'.offset = reader.offset
        /\ reader'.shown = reader.shown /\ reader'.first = reader.first
        /\ reader'.total = reader.total /\ reader'.stale = reader.stale
        /\ reader'.left = reader.left /\ reader'.came = reader.came /\ reader'.late = reader.late
        /\ reader'.moved = reader.moved /\ reader'.tied = reader.tied
    BY <1>1, <1>3 DEF Readers, SameQuestion
  <1>7. FreshItemsAreTrue'
    <2> SUFFICES ASSUME reader.page # {}, reader.kind = "feed", NEW p \in reader.page \ reader.stale
                 PROVE  p \in Posts /\ look[p] = post[p] /\ Fits(post[p], reader.ask)
      BY <1>1, <1>6 DEF FreshItemsAreTrue, SameQuestion
    <2>1. p \in Posts /\ reader.look[p] = post[p] /\ Fits(post[p], reader.ask)
      BY DEF PagesInv, FreshItemsAreTrue
    <2>2. post[p] \in PostRows
      BY <1>1, <2>1
    <2> QED
      BY <1>2, <2>1, <2>2 DEF PostRows
  <1> QED
    BY <1>1, <1>5, <1>6, <1>7, QuietStep

LEMMA ReadHashtagsStep == ASSUME PagesInv, ReadHashtags PROVE PagesInv'
  <1>1. reader \in Readers /\ reader.pc = "tags" /\ UNCHANGED <<post, user, writes>>
        /\ post \in [Posts -> PostRows] /\ reader.look \in [Posts -> PostRows]
    BY ReaderFields DEF PagesInv, PagesTypeOK, ReadHashtags
  <1>2. PICK look : look = [p \in Posts |-> [reader.look[p] EXCEPT !.tags = post[p].tags]]
    OBVIOUS
  <1>3. reader' = [reader EXCEPT !.pc = "show", !.look = look]
    BY <1>2 DEF ReadHashtags
  <1>4. look \in [Posts -> PostRows]
    <2> SUFFICES ASSUME NEW p \in Posts PROVE [reader.look[p] EXCEPT !.tags = post[p].tags] \in PostRows
      BY <1>2
    <2>1. reader.look[p] \in PostRows /\ post[p] \in PostRows
      BY <1>1
    <2> QED
      BY <2>1 DEF PostRows
  <1>5. reader' \in Readers
    BY <1>1, <1>3, <1>4 DEF Readers
  <1>6. /\ SameQuestion(reader, reader') /\ reader'.pc = "show" /\ reader'.look = look
        /\ reader'.page = reader.page /\ reader'.offset = reader.offset
        /\ reader'.shown = reader.shown /\ reader'.first = reader.first
        /\ reader'.total = reader.total /\ reader'.stale = reader.stale
        /\ reader'.left = reader.left /\ reader'.came = reader.came /\ reader'.late = reader.late
        /\ reader'.moved = reader.moved /\ reader'.tied = reader.tied
    BY <1>1, <1>3 DEF Readers, SameQuestion
  <1>7. FreshItemsAreTrue'
    <2> SUFFICES ASSUME reader.page # {}, reader.kind = "feed", NEW p \in reader.page \ reader.stale
                 PROVE  p \in Posts /\ look[p] = post[p] /\ Fits(post[p], reader.ask)
      BY <1>1, <1>6 DEF FreshItemsAreTrue, SameQuestion
    <2>1. p \in Posts /\ reader.look[p] = post[p] /\ Fits(post[p], reader.ask)
      BY DEF PagesInv, FreshItemsAreTrue
    <2>2. post[p] \in PostRows
      BY <1>1, <2>1
    <2> QED
      BY <1>2, <2>1, <2>2 DEF PostRows
  <1> QED
    BY <1>1, <1>5, <1>6, <1>7, QuietStep

LEMMA FailStep == ASSUME PagesInv, ReadFails PROVE PagesInv'
  <1>1. /\ reader \in Readers /\ reader.pc # "idle" /\ UNCHANGED <<post, user, writes>>
        /\ post \in [Posts -> PostRows]
        /\ reader' = [reader EXCEPT !.pc = "failed", !.page = {}, !.look = post, !.stale = {}]
    BY DEF PagesInv, PagesTypeOK, ReadFails
  <1>2. reader' \in Readers
    BY <1>1 DEF Readers
  <1>3. /\ SameQuestion(reader, reader') /\ reader'.pc = "failed" /\ reader'.page = {}
        /\ reader'.offset = reader.offset /\ reader'.shown = reader.shown
        /\ reader'.first = reader.first /\ reader'.left = reader.left /\ reader'.came = reader.came
        /\ reader'.moved = reader.moved /\ reader'.tied = reader.tied
    BY <1>1 DEF Readers, SameQuestion
  <1>4. /\ Here' = Here /\ \A i : Ahead(i)' = Ahead(i)
        /\ Ties(reader, post, user)' = Ties(reader, post, user)
    BY <1>1, <1>3, SameHere
  <1>5. Shown' = Shown
    BY <1>3 DEF Shown
  <1>6. PagesTypeOK' /\ ReaderIsSound' /\ HistoryIsTrue' /\ MissingIsToCome' /\ FreshItemsAreTrue'
    BY <1>1, <1>2, <1>3, <1>4 DEF PagesInv, PagesTypeOK, ReaderIsSound, HistoryIsTrue, MissingIsToCome,
       FreshItemsAreTrue, Here
  <1>7. ShownStandsInFront'
    <2>1. Cardinality({}) = 0 /\ reader.offset \in Nat
      BY FS_EmptySet, ReaderFields DEF PagesInv
    <2> QED
      BY <1>1, <1>3, <1>4, <1>5, <2>1 DEF PagesInv, ShownStandsInFront, Here
  <1> QED
    BY <1>6, <1>7 DEF PagesInv

LEMMA CountStep == ASSUME PagesInv, Count PROVE PagesInv'
  <1>1. PICK n : n = Cardinality(Here)
    OBVIOUS
  <1>2. n \in Nat
    BY <1>1, HereIsFinite DEF PagesInv
  <1>3. /\ reader \in Readers /\ reader.pc = "count" /\ UNCHANGED <<post, user, writes>>
        /\ reader' = [reader EXCEPT !.pc = "list", !.total = n]
    BY <1>1 DEF PagesInv, PagesTypeOK, Count, Here
  <1>4. reader' \in Readers
    BY <1>2, <1>3 DEF Readers
  <1>5. /\ SameQuestion(reader, reader') /\ reader'.pc = "list" /\ reader'.total = n
        /\ reader'.page = reader.page /\ reader'.offset = reader.offset
        /\ reader'.shown = reader.shown /\ reader'.first = reader.first
        /\ reader'.stale = reader.stale /\ reader'.look = reader.look
        /\ reader'.left = reader.left /\ reader'.came = reader.came /\ reader'.late = reader.late
        /\ reader'.moved = reader.moved /\ reader'.tied = reader.tied
    BY <1>3 DEF Readers, SameQuestion
  <1>6. /\ Here' = Here /\ \A i : Ahead(i)' = Ahead(i)
        /\ Ties(reader, post, user)' = Ties(reader, post, user)
    BY <1>3, <1>5, SameHere
  <1>7. Shown' = Shown
    BY <1>5 DEF Shown
  <1>8. reader.page = {}
    BY <1>3 DEF PagesInv, ReaderIsSound
  <1>9. PagesTypeOK' /\ ReaderIsSound' /\ FreshItemsAreTrue'
    BY <1>3, <1>4, <1>5, <1>8 DEF PagesInv, PagesTypeOK, ReaderIsSound, FreshItemsAreTrue
  <1>10. HistoryIsTrue'
    BY <1>1, <1>2, <1>3, <1>5, <1>6 DEF PagesInv, HistoryIsTrue, Here
  <1>11. ShownStandsInFront'
    BY <1>3, <1>5, <1>6, <1>7 DEF PagesInv, ShownStandsInFront, Here
  <1>12. MissingIsToCome'
    BY <1>3, <1>5, <1>6, <1>7 DEF PagesInv, MissingIsToCome
  <1> QED
    BY <1>9, <1>10, <1>11, <1>12 DEF PagesInv

LEMMA ListStep == ASSUME PagesInv, List PROVE PagesInv'
  <1>1. /\ PagesTypeOK /\ reader \in Readers /\ reader.pc = "list" /\ reader.page = {}
        /\ UNCHANGED <<post, user, writes>> /\ post \in [Posts -> PostRows]
    BY DEF PagesInv, PagesTypeOK, ReaderIsSound, List
  <1>2. PICK s \in Orders(reader) :
          reader' = [reader EXCEPT !.page = Page(s), !.look = post,
                       !.pc = IF Page(s) = {} THEN "done"
                              ELSE IF Page(s) \subseteq Posts THEN "pubs" ELSE "show"]
    BY DEF List, Page
  <1>3. PICK page, where : /\ page = Page(s)
                           /\ where = IF page = {} THEN "done"
                                      ELSE IF page \subseteq Posts THEN "pubs" ELSE "show"
    OBVIOUS
  <1>4. page \subseteq Here /\ Cardinality(page) \in Nat /\ page \in SUBSET Items
    BY <1>1, <1>3, PageIsListed, HereIsFinite
  <1>5. reader' \in Readers
    BY <1>1, <1>2, <1>3, <1>4 DEF Readers
  <1>6. /\ SameQuestion(reader, reader') /\ reader'.pc = where /\ reader'.total = reader.total
        /\ reader'.page = page /\ reader'.look = post /\ reader'.offset = reader.offset
        /\ reader'.shown = reader.shown /\ reader'.first = reader.first
        /\ reader'.left = reader.left /\ reader'.came = reader.came /\ reader'.late = reader.late
        /\ reader'.moved = reader.moved /\ reader'.tied = reader.tied
    BY <1>1, <1>2, <1>3 DEF Readers, SameQuestion
  <1>7. /\ Here' = Here /\ \A i : Ahead(i)' = Ahead(i)
        /\ Ties(reader, post, user)' = Ties(reader, post, user)
    BY <1>1, <1>6, SameHere
  <1>8. Shown' = Shown
    BY <1>6 DEF Shown
  <1>9. ~reader.tied => ~Ties(reader, post, user)
    BY <1>1 DEF PagesInv, HistoryIsTrue
  <1>10. PagesTypeOK' /\ ReaderIsSound'
    BY <1>1, <1>3, <1>5, <1>6 DEF PagesTypeOK, ReaderIsSound
  <1>11. HistoryIsTrue'
    BY <1>1, <1>3, <1>6, <1>7 DEF PagesInv, HistoryIsTrue, Here
  <1>12. FreshItemsAreTrue'
    <2> SUFFICES ASSUME reader.kind = "feed", NEW p \in page
                 PROVE  p \in Posts /\ Fits(post[p], reader.ask)
      BY <1>1, <1>6 DEF FreshItemsAreTrue, SameQuestion
    <2> QED
      BY <1>4 DEF Here, Listed
  <1>13. PICK o, c : o = reader.offset /\ o \in Nat /\ c = Cardinality(page) /\ c \in Nat
    BY <1>1, <1>4, ReaderFields
  <1>14. ASSUME ~reader.tied
         PROVE  /\ \A i \in page : o <= Cardinality(Ahead(i)) /\ Cardinality(Ahead(i)) < o + c
                /\ \A i \in Here \ page : o <= Cardinality(Ahead(i)) =>
                     /\ o + c <= Cardinality(Ahead(i)) /\ page # {}
                     /\ Cardinality(Ahead(i)) < Cardinality(Here)
    BY <1>1, <1>3, <1>9, <1>13, <1>14, PageIsNext
  <1>15. /\ Cardinality({}) = 0 /\ Cardinality(Here) \in Nat
         /\ \A i : Cardinality(Ahead(i)) \in Nat
    BY <1>1, FS_EmptySet, HereIsFinite
  <1>16. ShownStandsInFront'
    <2> SUFFICES ASSUME ~reader.came, ~reader.moved, ~reader.tied
                 PROVE  /\ page \cap Shown = {}
                        /\ \A i \in Items : reader.shown[i] <= 1
                        /\ \A i \in Here : /\ i \in Shown => Cardinality(Ahead(i)) < o
                                           /\ i \in page => Cardinality(Ahead(i)) < o + c
      BY <1>6, <1>7, <1>8, <1>13 DEF ShownStandsInFront, Here
    <2>1. /\ \A i \in Items : reader.shown[i] <= 1
          /\ \A i \in Here : i \in Shown => Cardinality(Ahead(i)) < o
      BY <1>1, <1>13 DEF PagesInv, ShownStandsInFront, Here
    <2>2. \A i \in page : i \in Here /\ o <= Cardinality(Ahead(i)) /\ Cardinality(Ahead(i)) < o + c
      BY <1>4, <1>14
    <2>3. page \cap Shown = {}
      <3> SUFFICES ASSUME NEW i \in page, i \in Shown PROVE FALSE
        OBVIOUS
      <3>1. Cardinality(Ahead(i)) < o /\ o <= Cardinality(Ahead(i))
        BY <2>1, <2>2
      <3> QED
        BY <1>13, <1>15, <3>1
    <2> QED
      BY <2>1, <2>2, <2>3
  <1>17. MissingIsToCome'
    <2> SUFFICES ASSUME ~reader.left, ~reader.moved, ~reader.tied, ~reader.late,
                        NEW i \in reader.first \ (Shown \cup page)
                 PROVE  /\ o + c <= Cardinality(Ahead(i)) /\ o + c < reader.total
                        /\ where # "done"
      BY <1>6, <1>7, <1>8, <1>13 DEF MissingIsToCome
    <2>1. reader.offset + Cardinality(reader.page) <= Cardinality(Ahead(i))
      BY <1>1 DEF PagesInv, MissingIsToCome
    <2>2. o <= Cardinality(Ahead(i))
      BY <1>1, <1>13, <1>15, <2>1
    <2>3. i \in Here \ page /\ Cardinality(Here) <= reader.total /\ reader.total \in Nat
      BY <1>1, ReaderFields DEF PagesInv, HistoryIsTrue, Here
    <2>4. /\ o + c <= Cardinality(Ahead(i)) /\ page # {}
          /\ Cardinality(Ahead(i)) < Cardinality(Here)
      BY <1>14, <2>2, <2>3
    <2> QED
      BY <1>3, <1>13, <1>15, <2>3, <2>4
  <1> QED
    BY <1>10, <1>11, <1>12, <1>16, <1>17 DEF PagesInv

LEMMA AnswerStep == ASSUME PagesInv, Answer PROVE PagesInv'
  <1>1. /\ PagesTypeOK /\ reader \in Readers /\ reader.pc = "show"
        /\ UNCHANGED <<post, user, writes>> /\ post \in [Posts -> PostRows]
    BY DEF PagesInv, PagesTypeOK, Answer
  <1>2. PICK o, c, page : /\ o = reader.offset /\ o \in Nat /\ page = reader.page
                          /\ c = Cardinality(page) /\ c \in Nat /\ page \in SUBSET Items
    <2>1. IsFiniteSet(Items)
      BY FS_Union, ListingsAssumption DEF Items
    <2> QED
      BY <1>1, <2>1, ReaderFields, FS_Subset, FS_CardinalityType
  <1>3. PICK where, shown : /\ where = IF o + c >= reader.total THEN "done" ELSE "count"
                            /\ shown = [i \in Items |-> reader.shown[i] + (IF i \in page THEN 1 ELSE 0)]
    OBVIOUS
  <1>4. reader' = [reader EXCEPT !.pc = where, !.offset = o + c, !.page = {}, !.look = post,
                                 !.stale = {}, !.shown = shown]
    BY <1>2, <1>3 DEF Answer
  <1>5. reader.shown \in [Items -> Nat] /\ shown \in [Items -> Nat]
    BY <1>1, <1>3, ReaderFields
  <1>6. reader' \in Readers
    <2>1. PICK n : n = o + c /\ n \in Nat
      BY <1>2
    <2>2. where \in {"done", "count"} /\ post \in [Posts -> PostRows]
      BY <1>1, <1>3
    <2>3. reader' = [reader EXCEPT !.pc = where, !.offset = n, !.page = {}, !.look = post,
                                   !.stale = {}, !.shown = shown]
      BY <1>4, <2>1
    <2> QED
      BY <1>1, <1>5, <2>1, <2>2, <2>3 DEF Readers
  <1>7. /\ SameQuestion(reader, reader') /\ reader'.pc = where /\ reader'.total = reader.total
        /\ reader'.page = {} /\ reader'.offset = o + c
        /\ reader'.shown = shown /\ reader'.first = reader.first
        /\ reader'.left = reader.left /\ reader'.came = reader.came /\ reader'.late = reader.late
        /\ reader'.moved = reader.moved /\ reader'.tied = reader.tied
    BY <1>1, <1>4 DEF Readers, SameQuestion
  <1>8. /\ Here' = Here /\ \A i : Ahead(i)' = Ahead(i)
        /\ Ties(reader, post, user)' = Ties(reader, post, user)
    BY <1>1, <1>7, SameHere
  <1>9. Shown' = Shown \cup page
    BY <1>2, <1>3, <1>5, <1>7 DEF Shown
  <1>10. PagesTypeOK' /\ ReaderIsSound' /\ FreshItemsAreTrue'
    BY <1>1, <1>3, <1>6, <1>7 DEF PagesTypeOK, ReaderIsSound, FreshItemsAreTrue
  <1>11. HistoryIsTrue'
    BY <1>1, <1>3, <1>7, <1>8 DEF PagesInv, HistoryIsTrue, Here
  <1>12. Cardinality({}) = 0 /\ \A i : Cardinality(Ahead(i)) \in Nat
    BY <1>1, FS_EmptySet, HereIsFinite
  <1>13. ShownStandsInFront'
    <2> SUFFICES ASSUME ~reader.came, ~reader.moved, ~reader.tied
                 PROVE  /\ \A i \in Items : shown[i] <= 1
                        /\ \A i \in Here : i \in Shown \cup page => Cardinality(Ahead(i)) < o + c
      BY <1>7, <1>8, <1>9, <1>12 DEF ShownStandsInFront, Here
    <2>1. /\ page \cap Shown = {} /\ \A i \in Items : reader.shown[i] <= 1
          /\ \A i \in Here : /\ i \in Shown => Cardinality(Ahead(i)) < o
                             /\ i \in page => Cardinality(Ahead(i)) < o + c
      BY <1>1, <1>2 DEF PagesInv, ShownStandsInFront, Here
    <2>2. ASSUME NEW i \in Items PROVE shown[i] <= 1
      <3>1. i \in page => reader.shown[i] = 0
        BY <1>5, <2>1 DEF Shown
      <3> QED
        BY <1>3, <1>5, <2>1, <3>1
    <2> QED
      BY <1>2, <1>12, <2>1, <2>2
  <1>14. MissingIsToCome'
    <2> SUFFICES ASSUME ~reader.left, ~reader.moved, ~reader.tied, ~reader.late,
                        NEW i \in reader.first \ (Shown \cup page)
                 PROVE  o + c + 0 <= Cardinality(Ahead(i)) /\ where # "done"
      BY <1>3, <1>7, <1>8, <1>9, <1>12 DEF MissingIsToCome
    <2>1. o + c <= Cardinality(Ahead(i)) /\ o + c < reader.total /\ reader.total \in Nat
      BY <1>1, <1>2, ReaderFields DEF PagesInv, MissingIsToCome
    <2> QED
      BY <1>2, <1>3, <2>1
  <1> QED
    BY <1>10, <1>11, <1>13, <1>14 DEF PagesInv

\* A reader that begins, on the first page.
LEMMA BeginStep ==
  ASSUME PagesInv, NEW r, r \in Readers, StartReading(r), r.pc \in {"count", "list"},
         r.page = {}, r.offset = 0, r.shown = [i \in Items |-> 0],
         r.pc = "list" => Cardinality(Listed(r, post, user)) <= r.total
  PROVE  PagesInv'
  <1>1. PICK first, tied : first = Listed(r, post, user) /\ tied = Ties(r, post, user)
    OBVIOUS
  <1>2. first \in SUBSET Items /\ r.offset \in Nat
    BY <1>1, ListsAreFinite DEF Readers
  <1>3. tied \in BOOLEAN
    BY <1>1 DEF Ties
  <1>4. reader' = [r EXCEPT !.first = first, !.tied = tied] /\ UNCHANGED <<post, user, writes>>
    BY <1>1 DEF StartReading
  <1>5. reader' \in Readers
    BY <1>2, <1>3, <1>4 DEF Readers
  <1>6. /\ SameQuestion(r, reader') /\ reader'.pc = r.pc /\ reader'.total = r.total
        /\ reader'.page = {} /\ reader'.offset = 0 /\ reader'.shown = [i \in Items |-> 0]
        /\ reader'.first = first /\ reader'.tied = tied
    BY <1>4 DEF Readers, SameQuestion
  <1>7. Here' = first /\ Ties(reader, post, user)' = tied
    BY <1>1, <1>4, <1>6, SameLists DEF Here
  <1>8. Shown' = {}
    BY <1>6 DEF Shown
  <1>9. PagesTypeOK'
    BY <1>4, <1>5 DEF PagesInv, PagesTypeOK
  <1>10. ReaderIsSound' /\ FreshItemsAreTrue'
    BY <1>6 DEF ReaderIsSound, FreshItemsAreTrue
  <1>11. HistoryIsTrue'
    BY <1>1, <1>6, <1>7 DEF HistoryIsTrue, Here
  <1>12. ShownStandsInFront'
    BY <1>6, <1>8 DEF ShownStandsInFront
  <1>13. MissingIsToCome'
    <2>1. \A i : Cardinality(Ahead(i))' \in Nat
      <3>1. \A i : Ahead(i)' \in SUBSET first
        BY <1>7 DEF Ahead, Here
      <3>2. IsFiniteSet(first)
        BY <1>1, ListsAreFinite DEF Readers
      <3> QED
        BY <3>1, <3>2, FS_Subset, FS_CardinalityType
    <2>2. Cardinality({}) = 0
      BY FS_EmptySet
    <2> QED
      BY <1>6, <2>1, <2>2 DEF MissingIsToCome
  <1> QED
    BY <1>9, <1>10, <1>11, <1>12, <1>13 DEF PagesInv

LEMMA StartPagesStep ==
  ASSUME PagesInv, NEW kind \in {"feed", "users", "members"}, NEW ask \in Questions,
         NEW limit \in Limits, NEW f \in 1 .. MaxTime, NEW t \in 2 .. MaxTime + 1,
         StartPages(kind, ask, f, t, limit)
  PROVE  PagesInv'
  <1>1. PICK l : l = Clamped(limit) /\ l \in 1 .. MaxLimit
    BY ListingsAssumption DEF Clamped
  <1>2. PICK r : r = [reader EXCEPT !.pc = "count", !.kind = kind, !.ask = ask, !.from = f, !.to = t,
                                    !.limit = l]
    OBVIOUS
  <1>3. StartReading(r) /\ reader.pc = "idle" /\ reader \in Readers
    BY <1>1, <1>2 DEF StartPages, StartReading, PagesInv, PagesTypeOK
  <1>4. r \in Readers
    BY <1>1, <1>2, <1>3 DEF Readers, ListKinds
  <1>5. r.pc = "count" /\ r.page = reader.page /\ r.offset = reader.offset /\ r.shown = reader.shown
    BY <1>2, <1>3 DEF Readers
  <1>6. r.page = {} /\ r.offset = 0 /\ r.shown = [i \in Items |-> 0]
    BY <1>3, <1>5 DEF PagesInv, ReaderIsSound
  <1> QED
    BY <1>3, <1>4, <1>5, <1>6, BeginStep

LEMMA StartPostStep == ASSUME PagesInv, NEW p \in Posts, StartPost(p) PROVE PagesInv'
  <1>1. PICK r : r = [reader EXCEPT !.pc = "list", !.kind = "post", !.one = {p}, !.limit = 1,
                                    !.total = 1]
    OBVIOUS
  <1>2. StartReading(r) /\ reader.pc = "idle" /\ reader \in Readers
    BY <1>1 DEF StartPost, StartReading, PagesInv, PagesTypeOK
  <1>3. 1 \in 1 .. MaxLimit /\ {p} \in SUBSET Posts
    BY ListingsAssumption
  <1>4. r \in Readers
    BY <1>1, <1>2, <1>3 DEF Readers, ListKinds
  <1>5. /\ r.pc = "list" /\ r.kind = "post" /\ r.one = {p} /\ r.total = 1
        /\ r.page = reader.page /\ r.offset = reader.offset /\ r.shown = reader.shown
    BY <1>1, <1>2 DEF Readers
  <1>6. r.page = {} /\ r.offset = 0 /\ r.shown = [i \in Items |-> 0]
    BY <1>2, <1>5 DEF PagesInv, ReaderIsSound
  <1>7. Cardinality(Listed(r, post, user)) <= r.total
    <2>1. Listed(r, post, user) \in SUBSET {p}
      BY <1>5 DEF Listed
    <2>2. IsFiniteSet({p}) /\ Cardinality({p}) = 1
      BY FS_Singleton
    <2> QED
      BY <1>5, <2>1, <2>2, FS_Subset
  <1> QED
    BY <1>2, <1>4, <1>5, <1>6, <1>7, BeginStep

-----------------------------------------------------------------------------
(* Writes.                                                                 *)

\* What a write does to the list.
LEMMA TablesStep ==
  ASSUME PagesInv, NEW table \in Tables, NEW users \in UserTables,
         \A p \in Posts : table[p].state # "none" => users[table[p].by] > 0,
         Write(table, users)
  PROVE  PagesInv'
  <1>1. /\ PagesTypeOK /\ reader \in Readers /\ reader.pc \in {"count", "list", "pubs", "tags", "show"}
        /\ writes < MaxWrites /\ writes' = writes + 1 /\ post' = table /\ user' = users
        /\ reader' = Disturbed(table, users)
    BY DEF PagesInv, PagesTypeOK, Write
  <1>2. PICK new : new = Listed(reader, table, users)
    OBVIOUS
  <1>3. PICK left, came, late, moved, tied :
          /\ left  = (reader.left \/ ~(Here \subseteq new))
          /\ came  = (reader.came \/ ~(new \subseteq Here))
          /\ late  = (reader.late \/ (reader.pc = "list" /\ ~(new \subseteq Here)))
          /\ moved = (reader.moved \/ \E a, b \in Here \cap new :
                        Before(reader, post, user, a, b) # Before(reader, table, users, a, b))
          /\ tied  = (reader.tied \/ Ties(reader, table, users))
    OBVIOUS
  <1>4. PICK old : old = reader.stale \cup {p \in Posts \cap reader.page : table[p] # post[p]}
    OBVIOUS
  <1>5. reader' = [reader EXCEPT !.left = left, !.came = came, !.late = late, !.moved = moved,
                                 !.tied = tied, !.stale = old]
    BY <1>1, <1>2, <1>3, <1>4 DEF Disturbed, Here
  <1>6. /\ left \in BOOLEAN /\ came \in BOOLEAN /\ late \in BOOLEAN /\ moved \in BOOLEAN
        /\ tied \in BOOLEAN
    BY <1>3, Zenon DEF Ties
  <1>7. reader.stale \in SUBSET Posts /\ old \in SUBSET Posts
    BY <1>1, <1>4, ReaderFields
  <1>8. reader' \in Readers
    <2>1. reader \in Readers
      BY <1>1
    <2>2. [reader EXCEPT !.left = left, !.came = came, !.late = late, !.moved = moved] \in Readers
      BY <1>6, <2>1 DEF Readers
    <2>3. PICK r \in Readers :
            r = [reader EXCEPT !.left = left, !.came = came, !.late = late, !.moved = moved]
      BY <2>2
    <2>4. reader' = [r EXCEPT !.tied = tied, !.stale = old]
      BY <1>5, <2>1, <2>3 DEF Readers
    <2> QED
      BY <1>6, <1>7, <2>4 DEF Readers
  <1>9. /\ SameQuestion(reader, reader') /\ reader'.pc = reader.pc /\ reader'.total = reader.total
        /\ reader'.page = reader.page /\ reader'.offset = reader.offset /\ reader'.look = reader.look
        /\ reader'.shown = reader.shown /\ reader'.first = reader.first
    BY <1>1, <1>5 DEF Readers, SameQuestion
  <1>10. /\ reader'.left = left /\ reader'.came = came /\ reader'.late = late
         /\ reader'.moved = moved /\ reader'.tied = tied /\ reader'.stale = old
    BY <1>1, <1>5 DEF Readers
  <1>11. Here' = new /\ Ties(reader, post, user)' = Ties(reader, table, users)
    BY <1>1, <1>2, <1>9, SameLists DEF Here
  <1>12. Shown' = Shown
    BY <1>9 DEF Shown
  <1>13. PagesTypeOK'
    <2>1. writes' \in 0 .. MaxWrites
      BY <1>1, ListingsAssumption DEF PagesTypeOK
    <2> QED
      BY <1>1, <1>8, <2>1 DEF PagesTypeOK, Tables, UserTables
  <1>14. ReaderIsSound'
    BY <1>1, <1>9 DEF PagesInv, ReaderIsSound
  <1>15. /\ ~moved => \A i, j \in Here \cap new :
              Before(reader, table, users, j, i) = Before(reader, post, user, j, i)
         /\ ~left => ~reader.left /\ Here \subseteq new
         /\ ~came => ~reader.came /\ new \subseteq Here
         /\ ~late => ~reader.late /\ (reader.pc = "list" => new \subseteq Here)
         /\ ~moved => ~reader.moved
         /\ ~tied => ~reader.tied /\ ~Ties(reader, table, users)
    BY <1>3
  <1>16. \A i : Ahead(i)' = {j \in new : Before(reader, table, users, j, i)}
    BY <1>1, <1>2, <1>9, <1>11, SameLists DEF Ahead, Here
  <1>17. /\ Here \subseteq Items /\ IsFiniteSet(Here) /\ IsFiniteSet(new) /\ Cardinality(Here) \in Nat
         /\ Cardinality(new) \in Nat
         /\ \A i : /\ IsFiniteSet(Ahead(i)) /\ Cardinality(Ahead(i)) \in Nat
                   /\ IsFiniteSet(Ahead(i)') /\ Cardinality(Ahead(i)') \in Nat
    <2>1. IsFiniteSet(new) /\ Cardinality(new) \in Nat
      BY <1>1, <1>2, ReaderFields, ListsAreFinite
    <2>2. \A i : Ahead(i)' \in SUBSET new
      BY <1>16
    <2> QED
      BY <1>1, <2>1, <2>2, HereIsFinite, FS_Subset, FS_CardinalityType
  <1>18. ASSUME ~came, ~moved, NEW i \in new
         PROVE  i \in Here /\ Cardinality(Ahead(i)') <= Cardinality(Ahead(i))
    <2>1. i \in Here /\ Ahead(i)' \in SUBSET Ahead(i)
      BY <1>15, <1>16, <1>18 DEF Ahead, Here
    <2> QED
      BY <1>17, <2>1, FS_Subset
  <1>19. ASSUME ~left, ~moved, NEW i \in Here
         PROVE  i \in new /\ Cardinality(Ahead(i)) <= Cardinality(Ahead(i)')
    <2>1. i \in new /\ Ahead(i) \in SUBSET (Ahead(i)')
      BY <1>15, <1>16, <1>19 DEF Ahead, Here
    <2> QED
      BY <1>17, <2>1, FS_Subset
  <1>20. HistoryIsTrue'
    <2> SUFFICES /\ ~tied => ~Ties(reader, table, users)
                 /\ ~left => reader.first \subseteq new
                 /\ reader.pc = "list" /\ ~late => Cardinality(new) <= reader.total
      BY <1>9, <1>10, <1>11 DEF HistoryIsTrue, Here
    <2>1. ~left => reader.first \subseteq new
      BY <1>1, <1>15 DEF PagesInv, HistoryIsTrue, Here
    <2>2. ASSUME reader.pc = "list", ~late PROVE Cardinality(new) <= reader.total
      <3>1. new \in SUBSET Here /\ Cardinality(Here) <= reader.total /\ reader.total \in Nat
        BY <1>1, <1>15, <2>2, ReaderFields DEF PagesInv, HistoryIsTrue, Here
      <3>2. Cardinality(new) <= Cardinality(Here)
        BY <1>17, <3>1, FS_Subset
      <3> QED
        BY <1>17, <3>1, <3>2
    <2> QED
      BY <1>15, <2>1, <2>2
  <1>21. PICK o, c : o = reader.offset /\ o \in Nat /\ c = Cardinality(reader.page) /\ c \in Nat
    <2>1. IsFiniteSet(Items)
      BY FS_Union, ListingsAssumption DEF Items
    <2> QED
      BY <1>1, <2>1, ReaderFields, FS_Subset, FS_CardinalityType
  <1>22. ShownStandsInFront'
    <2> SUFFICES ASSUME ~came, ~moved, ~tied
                 PROVE  /\ reader.page \cap Shown = {}
                        /\ \A i \in Items : reader.shown[i] <= 1
                        /\ \A i \in new : /\ i \in Shown => Cardinality(Ahead(i)') < o
                                          /\ i \in reader.page => Cardinality(Ahead(i)') < o + c
      BY <1>9, <1>10, <1>11, <1>12, <1>21 DEF ShownStandsInFront, Here
    <2>1. /\ reader.page \cap Shown = {} /\ \A i \in Items : reader.shown[i] <= 1
          /\ \A i \in Here : /\ i \in Shown => Cardinality(Ahead(i)) < o
                             /\ i \in reader.page => Cardinality(Ahead(i)) < o + c
      BY <1>1, <1>15, <1>21 DEF PagesInv, ShownStandsInFront, Here
    <2>2. ASSUME NEW i \in new
          PROVE  /\ i \in Shown => Cardinality(Ahead(i)') < o
                 /\ i \in reader.page => Cardinality(Ahead(i)') < o + c
      <3>1. i \in Here /\ Cardinality(Ahead(i)') <= Cardinality(Ahead(i))
        BY <1>18
      <3>2. Cardinality(Ahead(i)) \in Nat /\ Cardinality(Ahead(i)') \in Nat
        BY <1>17
      <3> QED
        BY <1>21, <2>1, <3>1, <3>2
    <2> QED
      BY <2>1, <2>2
  <1>23. MissingIsToCome'
    <2> SUFFICES ASSUME ~left, ~moved, ~tied, ~late,
                        NEW i \in reader.first \ (Shown \cup reader.page)
                 PROVE  /\ o + c <= Cardinality(Ahead(i)')
                        /\ reader.pc \in {"pubs", "tags", "show"} => o + c < reader.total
      BY <1>1, <1>9, <1>10, <1>12, <1>21 DEF MissingIsToCome
    <2>1. /\ o + c <= Cardinality(Ahead(i))
          /\ reader.pc \in {"pubs", "tags", "show"} => o + c < reader.total
      BY <1>1, <1>15, <1>21 DEF PagesInv, MissingIsToCome
    <2>2. i \in Here
      BY <1>1, <1>15 DEF PagesInv, HistoryIsTrue, Here
    <2>3. Cardinality(Ahead(i)) <= Cardinality(Ahead(i)')
      BY <1>19, <2>2
    <2>4. Cardinality(Ahead(i)) \in Nat /\ Cardinality(Ahead(i)') \in Nat
      BY <1>17
    <2> QED
      BY <1>21, <2>1, <2>3, <2>4
  <1>24. FreshItemsAreTrue'
    <2> SUFFICES ASSUME reader.page # {}, reader.kind = "feed", NEW p \in reader.page \ old
                 PROVE  p \in Posts /\ reader.look[p] = table[p] /\ Fits(table[p], reader.ask)
      BY <1>1, <1>9, <1>10 DEF FreshItemsAreTrue, SameQuestion
    <2>1. p \in Posts /\ reader.look[p] = post[p] /\ Fits(post[p], reader.ask)
      BY <1>4 DEF PagesInv, FreshItemsAreTrue
    <2>2. table[p] = post[p]
      BY <1>4, <2>1
    <2> QED
      BY <2>1, <2>2
  <1> QED
    BY <1>13, <1>14, <1>20, <1>22, <1>23, <1>24 DEF PagesInv

\* Every write leaves tables of rows.
LEMMA WriterStep == ASSUME PagesInv, Writer PROVE PagesInv'
  <1>1. /\ post \in Tables /\ user \in UserTables
        /\ \A p \in Posts : post[p].state # "none" => user[post[p].by] > 0
        /\ \A p \in Posts : post[p] \in PostRows
    BY DEF PagesInv, PagesTypeOK, Tables, UserTables
  <1>2. ASSUME NEW p \in Posts, NEW row \in PostRows, row.state # "none" => user[row.by] > 0,
               Write([post EXCEPT ![p] = row], user)
        PROVE  PagesInv'
    <2>1. PICK table : table = [post EXCEPT ![p] = row]
      OBVIOUS
    <2>2. table \in Tables
      BY <1>1, <2>1 DEF Tables
    <2>3. \A q \in Posts : table[q].state # "none" => user[table[q].by] > 0
      BY <1>1, <1>2, <2>1 DEF Tables
    <2>4. Write(table, user)
      BY <1>2, <2>1
    <2> QED
      BY <1>1, <2>2, <2>3, <2>4, TablesStep
  <1>3. ASSUME NEW p \in Posts, SoftDeletePost(p) PROVE PagesInv'
    <2>1. PICK row : row = [post[p] EXCEPT !.state = "deleted"]
      OBVIOUS
    <2>2. row \in PostRows /\ row.by = post[p].by /\ post[p].state = "live"
      BY <1>1, <1>3, <2>1 DEF PostRows, SoftDeletePost
    <2>3. Write([post EXCEPT ![p] = row], user)
      BY <1>1, <1>3, <2>1 DEF SoftDeletePost, Tables
    <2> QED
      BY <1>1, <1>2, <2>2, <2>3
  <1>4. ASSUME NEW p \in Posts, NEW new \in NewPosts, CreatePost(p, new[1], new[2], new[3])
        PROVE  PagesInv'
    <2>1. new[1] \in 1 .. MaxTime /\ new[2] \in Users /\ new[3] \in SUBSET Tags
      BY ListingsAssumption
    <2>2. PICK row : row = [state |-> "live", at |-> new[1], by |-> new[2], status |-> "pending",
                            on |-> {}, tags |-> new[3]]
      OBVIOUS
    <2>3. row \in PostRows /\ user[row.by] > 0
      BY <1>4, <2>1, <2>2 DEF PostRows, Statuses, CreatePost
    <2>4. Write([post EXCEPT ![p] = row], user)
      BY <1>4, <2>2 DEF CreatePost
    <2> QED
      BY <1>2, <2>3, <2>4
  <1>5. ASSUME NEW p \in Posts, NEW verdict \in Statuses, Review(p, verdict) PROVE PagesInv'
    <2>1. PICK row : row = [post[p] EXCEPT !.status = verdict]
      OBVIOUS
    <2>2. row \in PostRows /\ row.by = post[p].by /\ post[p].state = "live"
      BY <1>1, <1>5, <2>1 DEF PostRows, Review
    <2>3. Write([post EXCEPT ![p] = row], user)
      BY <1>1, <1>5, <2>1 DEF Review, Tables
    <2> QED
      BY <1>1, <1>2, <2>2, <2>3
  <1>6. ASSUME NEW p \in Posts, NEW k \in Platforms, Publish(p, k) PROVE PagesInv'
    <2>1. PICK row : row = [post[p] EXCEPT !.on = @ \cup {k}]
      OBVIOUS
    <2>2. row \in PostRows /\ row.by = post[p].by /\ post[p].state = "live"
      BY <1>1, <1>6, <2>1 DEF PostRows, Publish
    <2>3. Write([post EXCEPT ![p] = row], user)
      BY <1>1, <1>6, <2>1 DEF Publish, Tables
    <2> QED
      BY <1>1, <1>2, <2>2, <2>3
  <1>7. ASSUME NEW p \in Posts, NEW k \in Platforms, Unpublish(p, k) PROVE PagesInv'
    <2>1. PICK row : row = [post[p] EXCEPT !.on = @ \ {k}]
      OBVIOUS
    <2>2. row \in PostRows /\ row.by = post[p].by /\ row.state = post[p].state
      BY <1>1, <1>7, <2>1 DEF PostRows, Unpublish
    <2>3. Write([post EXCEPT ![p] = row], user)
      BY <1>1, <1>7, <2>1 DEF Unpublish, Tables
    <2> QED
      BY <1>1, <1>2, <2>2, <2>3
  <1>8. ASSUME NEW p \in Posts, NEW tags \in SUBSET Tags, Retag(p, tags) PROVE PagesInv'
    <2>1. PICK row : row = [post[p] EXCEPT !.tags = tags]
      OBVIOUS
    <2>2. row \in PostRows /\ row.by = post[p].by /\ post[p].state = "live"
      BY <1>1, <1>8, <2>1 DEF PostRows, Retag
    <2>3. Write([post EXCEPT ![p] = row], user)
      BY <1>1, <1>8, <2>1 DEF Retag, Tables
    <2> QED
      BY <1>1, <1>2, <2>2, <2>3
  <1>9. ASSUME NEW us \in SUBSET Users, NEW t \in 1 .. MaxTime, ImportUsers(us, t) PROVE PagesInv'
    <2>1. PICK users : users = [u \in Users |-> IF u \in us THEN t ELSE user[u]]
      OBVIOUS
    <2>2. users \in UserTables
      BY <1>1, <2>1, ListingsAssumption DEF UserTables
    <2>3. \A p \in Posts : post[p].state # "none" => users[post[p].by] > 0
      <3> SUFFICES ASSUME NEW p \in Posts, post[p].state # "none" PROVE users[post[p].by] > 0
        OBVIOUS
      <3>1. post[p].by \in Users
        BY <1>1 DEF PostRows
      <3> QED
        BY <1>1, <2>1, <3>1
    <2>4. Write(post, users)
      BY <1>9, <2>1 DEF ImportUsers
    <2> QED
      BY <1>1, <2>2, <2>3, <2>4, TablesStep
  <1> QED
    BY <1>3, <1>4, <1>5, <1>6, <1>7, <1>8, <1>9 DEF Writer

LEMMA PagesNextInv == ASSUME PagesInv, [PagesNext]_pagesVars PROVE PagesInv'
  <1>1. CASE UNCHANGED pagesVars
    <2>1. UNCHANGED <<post, user, reader, writes>>
      BY <1>1 DEF pagesVars
    <2> QED
      BY <2>1 DEF PagesInv, PagesTypeOK, ReaderIsSound, HistoryIsTrue, ShownStandsInFront, MissingIsToCome,
                  FreshItemsAreTrue, Shown, Ahead
  <1>2. CASE Writer
    BY <1>2, WriterStep
  <1>3. CASE Reader
    <2>1. ASSUME NEW kind \in {"feed", "users", "members"}, NEW ask \in Questions, NEW limit \in Limits,
                 NEW f \in 1 .. MaxTime, NEW t \in 2 .. MaxTime + 1, StartPages(kind, ask, f, t, limit)
          PROVE  PagesInv'
      BY <2>1, StartPagesStep
    <2>2. ASSUME NEW p \in Posts, StartPost(p) PROVE PagesInv'
      BY <2>2, StartPostStep
    <2> QED
      BY <1>3, <2>1, <2>2, CountStep, ListStep, ReadPublicationsStep, ReadHashtagsStep, AnswerStep,
         FailStep DEF Reader
  <1> QED
    BY <1>1, <1>2, <1>3 DEF PagesNext

-----------------------------------------------------------------------------
(* What follows.                                                           *)

LEMMA NothingIsMissing == ASSUME PagesInv PROVE NothingSkipped
  <1> SUFFICES ASSUME reader.pc = "done", ~reader.left, ~reader.moved, ~reader.tied, ~reader.late,
                      NEW i \in reader.first
               PROVE  reader.shown[i] >= 1
    BY DEF NothingSkipped
  <1>1. reader.page = {} /\ reader.first \in SUBSET Items /\ reader.shown \in [Items -> Nat]
    BY ReaderFields DEF PagesInv, ReaderIsSound
  <1>2. i \in Shown
    BY <1>1 DEF PagesInv, MissingIsToCome
  <1>3. reader.shown[i] \in Nat /\ reader.shown[i] > 0
    BY <1>1, <1>2 DEF Shown
  <1> QED
    BY <1>3

LEMMA NothingIsDouble == ASSUME PagesInv PROVE NothingTwice
  <1>1. CASE reader.pc = "idle"
    BY <1>1 DEF PagesInv, ReaderIsSound, NothingTwice
  <1>2. CASE reader.pc # "idle"
    BY <1>2 DEF PagesInv, ShownStandsInFront, NothingTwice
  <1> QED
    BY <1>1, <1>2

LEMMA FreshItemsFit == ASSUME PagesInv PROVE FreshItemsFitTheRequest
  <1> SUFFICES ASSUME reader.kind = "feed", NEW p \in reader.page \ reader.stale
               PROVE  LET row == reader.look[p] IN
                      /\ row.state = "live"
                      /\ reader.ask.tags \subseteq row.tags
                      /\ \A f \in reader.ask.pubs :
                           /\ f[2] = "published" => Key[f[1]] \in row.on
                           /\ f[2] = "missing" => Key[f[1]] \notin row.on
    BY DEF FreshItemsFitTheRequest
  <1>1. PICK row : row = reader.look[p] /\ Fits(row, reader.ask)
    BY DEF PagesInv, FreshItemsAreTrue
  <1>2. row.state = "live" /\ reader.ask.tags \subseteq row.tags
    BY <1>1 DEF Fits
  <1>3. ASSUME NEW f \in reader.ask.pubs
        PROVE  /\ f[2] = "published" => Key[f[1]] \in row.on
               /\ f[2] = "missing" => Key[f[1]] \notin row.on
    <2>1. <<Key[f[1]], f[2]>> \in Wanted(reader.ask.pubs)
      BY DEF Wanted
    <2> QED
      BY <1>1, <2>1 DEF Fits
  <1> QED
    BY <1>1, <1>2, <1>3

\* Two parts of a finite set without a common element.
LEMMA Parts ==
  ASSUME NEW S, IsFiniteSet(S), NEW A, NEW B, A \subseteq S, B \subseteq S, A \cap B = {}
  PROVE  Cardinality(A \cup B) = Cardinality(A) + Cardinality(B)
  <1>1. IsFiniteSet(A) /\ IsFiniteSet(B)
    BY FS_Subset
  <1>2. Cardinality(A \cap B) = 0 /\ Cardinality(A) \in Nat /\ Cardinality(B) \in Nat
    BY <1>1, FS_EmptySet, FS_CardinalityType
  <1>3. Cardinality(A \cup B) = Cardinality(A) + Cardinality(B) - Cardinality(A \cap B)
    BY <1>1, FS_Union
  <1> QED
    BY <1>2, <1>3

\* The posts of a range with one status, and those that are published or not.
OfStatus(P, verdict) == {p \in P : post[p].status = verdict}
OnSome(P) == {p \in P : post[p].on # {}}
OnNone(P) == {p \in P : post[p].on = {}}

LEMMA OverviewIs ==
  ASSUME NEW f, NEW t
  PROVE  LET P == Counted(post, f, t) IN
         /\ Overview(f, t).total = Cardinality(P)
         /\ Overview(f, t).pending = Cardinality(OfStatus(P, "pending"))
         /\ Overview(f, t).approved = Cardinality(OfStatus(P, "approved"))
         /\ Overview(f, t).rejected = Cardinality(OfStatus(P, "rejected"))
         /\ Overview(f, t).published = Cardinality(OnSome(P))
         /\ Overview(f, t).unpublished = Cardinality(OnNone(P))
  BY DEF Overview, OfStatus, OnSome, OnNone

LEMMA StatisticsAddUp == ASSUME PagesTypeOK PROVE StatisticsAgree
  <1>1. IsFiniteSet(Posts) /\ MaxTime \in Nat /\ MaxTime # 0
    BY ListingsAssumption
  <1>2. ASSUME NEW p \in Posts
        PROVE  /\ post[p].status \in Statuses /\ post[p].at \in 1 .. MaxTime
    <2>1. post[p] \in PostRows
      BY DEF PagesTypeOK
    <2> QED
      BY <2>1 DEF PostRows
  <1>3. ASSUME NEW f \in 1 .. MaxTime, NEW t \in 2 .. MaxTime + 1, f < t
        PROVE  LET o == Overview(f, t) IN
               /\ o.pending + o.approved + o.rejected = o.total
               /\ o.published + o.unpublished = o.total
               /\ \A mid \in f + 1 .. t - 1 :
                    Overview(f, mid).total + Overview(mid, t).total = o.total
    <2>1. PICK P : P = Counted(post, f, t)
      OBVIOUS
    <2>2. P \in SUBSET Posts
      BY <2>1 DEF Counted
    <2>3. IsFiniteSet(P)
      BY <1>1, <2>2, FS_Subset
    <2>4. PICK a, b, c : a = OfStatus(P, "pending") /\ b = OfStatus(P, "approved")
                         /\ c = OfStatus(P, "rejected")
      OBVIOUS
    <2>5. /\ a \in SUBSET P /\ b \in SUBSET P /\ c \in SUBSET P /\ a \cup b \in SUBSET P
          /\ a \cap b = {} /\ (a \cup b) \cap c = {} /\ a \cup b \cup c = P
      BY <1>2, <2>2, <2>4 DEF OfStatus, Statuses
    <2>6. Cardinality(a) + Cardinality(b) + Cardinality(c) = Cardinality(P)
      <3>1. Cardinality(a \cup b) = Cardinality(a) + Cardinality(b)
        BY <2>3, <2>5, Parts
      <3>2. Cardinality(a \cup b \cup c) = Cardinality(a \cup b) + Cardinality(c)
        BY <2>3, <2>5, Parts
      <3> QED
        BY <2>5, <3>1, <3>2
    <2>7. Cardinality(OnSome(P)) + Cardinality(OnNone(P)) = Cardinality(P)
      <3>1. /\ OnSome(P) \in SUBSET P /\ OnNone(P) \in SUBSET P
            /\ OnSome(P) \cap OnNone(P) = {} /\ OnSome(P) \cup OnNone(P) = P
        BY DEF OnSome, OnNone
      <3>2. Cardinality(OnSome(P) \cup OnNone(P)) = Cardinality(OnSome(P)) + Cardinality(OnNone(P))
        BY <2>3, <3>1, Parts
      <3> QED
        BY <3>1, <3>2
    <2>8. ASSUME NEW mid \in f + 1 .. t - 1
          PROVE  Cardinality(Counted(post, f, mid)) + Cardinality(Counted(post, mid, t)) = Cardinality(P)
      <3>1. PICK A, B : A = Counted(post, f, mid) /\ B = Counted(post, mid, t)
        OBVIOUS
      <3>2. \A p \in Posts : /\ InRange(post[p].at, f, t) <=>
                                  InRange(post[p].at, f, mid) \/ InRange(post[p].at, mid, t)
                             /\ ~(InRange(post[p].at, f, mid) /\ InRange(post[p].at, mid, t))
        BY <1>1, <1>2 DEF InRange
      <3>3. A \in SUBSET P /\ B \in SUBSET P /\ A \cap B = {} /\ A \cup B = P
        BY <2>1, <3>1, <3>2 DEF Counted
      <3>4. Cardinality(A \cup B) = Cardinality(A) + Cardinality(B)
        BY <2>3, <3>3, Parts
      <3> QED
        BY <3>1, <3>3, <3>4
    <2> QED
      BY <2>1, <2>4, <2>6, <2>7, <2>8, OverviewIs
  <1>4. /\ Overview(1, MaxTime + 1).total = Cardinality({p \in Posts : Fits(post[p], NoFilter)})
        /\ Overview(1, MaxTime + 1).pending =
             Cardinality({p \in Posts : Fits(post[p], [NoFilter EXCEPT !.status = {"pending"}])})
        /\ Overview(1, MaxTime + 1).published =
             Cardinality({p \in Posts : Fits(post[p], [NoFilter EXCEPT !.anywhere = TRUE])})
    <2>1. PICK P : P = Counted(post, 1, MaxTime + 1)
      OBVIOUS
    <2>2. P = {p \in Posts : post[p].state = "live"}
      <3>1. \A p \in Posts : InRange(post[p].at, 1, MaxTime + 1)
        BY <1>1, <1>2 DEF InRange
      <3> QED
        BY <2>1, <3>1 DEF Counted
    <2>3. ASSUME NEW p \in Posts
          PROVE  /\ Fits(post[p], NoFilter) <=> post[p].state = "live"
                 /\ Fits(post[p], [NoFilter EXCEPT !.status = {"pending"}]) <=>
                      post[p].state = "live" /\ post[p].status = "pending"
                 /\ Fits(post[p], [NoFilter EXCEPT !.anywhere = TRUE]) <=>
                      post[p].state = "live" /\ post[p].on # {}
      BY DEF Fits, NoFilter, Wanted
    <2>4. /\ P = {p \in Posts : Fits(post[p], NoFilter)}
          /\ OfStatus(P, "pending") = {p \in Posts : Fits(post[p], [NoFilter EXCEPT !.status = {"pending"}])}
          /\ OnSome(P) = {p \in Posts : Fits(post[p], [NoFilter EXCEPT !.anywhere = TRUE])}
      BY <2>2, <2>3 DEF OfStatus, OnSome
    <2>5. /\ Overview(1, MaxTime + 1).total = Cardinality(P)
          /\ Overview(1, MaxTime + 1).pending = Cardinality(OfStatus(P, "pending"))
          /\ Overview(1, MaxTime + 1).published = Cardinality(OnSome(P))
      BY <2>1, OverviewIs
    <2> QED
      BY <2>4, <2>5
  <1> QED
    BY <1>3, <1>4 DEF StatisticsAgree

-----------------------------------------------------------------------------

\* Whatever is written while a reader reads, page by page, the history and what
\* was shown agree with the list (service/posts.go ListFeed, service/stats.go).
THEOREM PagesHold == PagesSpec => []PagesInv
  <1>1. PagesInit => PagesInv
    BY PagesInitInv
  <1>2. PagesInv /\ [PagesNext]_pagesVars => PagesInv'
    BY PagesNextInv
  <1> QED
    BY <1>1, <1>2, PTL DEF PagesSpec

\* Posts, users and the reader keep their types, and every post that was
\* created has an author who is there (PagesTypeOK).
THEOREM PagesTypeCorrect == PagesSpec => []PagesTypeOK
  <1>1. PagesInv => PagesTypeOK
    BY DEF PagesInv
  <1> QED
    BY PagesHold, <1>1, PTL

\* Reading to the end misses nothing, whatever arrives in front of the page,
\* unless what is listed leaves, changes places, has equal keys or arrives
\* between a count and its rows (NothingSkipped).
THEOREM NothingIsSkipped == PagesSpec => []NothingSkipped
  <1>1. PagesInv => NothingSkipped
    BY NothingIsMissing
  <1> QED
    BY PagesHold, <1>1, PTL

\* ... and shows nothing twice, whatever leaves (NothingTwice).
THEOREM NothingIsShownTwice == PagesSpec => []NothingTwice
  <1>1. PagesInv => NothingTwice
    BY NothingIsDouble
  <1> QED
    BY PagesHold, <1>1, PTL

\* A post is shown with the publications and hashtags that were asked for,
\* unless it was written to after it was chosen (FreshItemsFitTheRequest).
THEOREM FreshItemsAnswerTheRequest == PagesSpec => []FreshItemsFitTheRequest
  <1>1. PagesInv => FreshItemsFitTheRequest
    BY FreshItemsFit
  <1> QED
    BY PagesHold, <1>1, PTL

\* The statistics add up, and agree with the totals of the feed (StatisticsAgree).
THEOREM StatisticsAlwaysAgree == PagesSpec => []StatisticsAgree
  <1>1. PagesInv => StatisticsAgree
    BY StatisticsAddUp DEF PagesInv
  <1> QED
    BY PagesHold, <1>1, PTL
=============================================================================
