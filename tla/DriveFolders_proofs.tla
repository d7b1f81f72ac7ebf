------------------------- MODULE DriveFolders_proofs -------------------------
(***************************************************************************)
(* DriveFolders for any folders, roots and first order of the folders, any *)
(* number of moves, and any mix of any number of requests.                 *)
(***************************************************************************)
EXTENDS DriveFolders, SequenceTheorems, FiniteSetTheorems, WellFoundedInduction, TLAPS

-----------------------------------------------------------------------------
(* Types.                                                                  *)

\* The fields of what a request asks for and of where it is.
LEMMA Fields ==
  ASSUME TypeOK, NEW q \in Requests
  PROVE  /\ job[q].kind \in Kinds /\ job[q].root \in Roots \cup {NoRoot}
         /\ job[q].video \in BOOLEAN \cup {Keep} /\ job[q].folder \in Folders \cup {NoTarget, Keep}
         /\ req[q].pc \in RequestPCs /\ req[q].root \in Roots \cup {NoRoot}
         /\ req[q].found \in Seq(Paths) /\ req[q].listed \in Nat
         /\ req[q].gone \in SUBSET Rows /\ req[q].put \in Nat
         /\ req[q].target \in Targets /\ req[q].video \in BOOLEAN
         /\ req[q].late \in BOOLEAN /\ req[q].moved \in BOOLEAN
         /\ req[q].lone \in BOOLEAN /\ req[q].fell \in BOOLEAN
<1>1. job[q] \in Job /\ req[q] \in States
  BY DEF TypeOK
<1> QED
  BY <1>1 DEF Job, States

LEMMA FreshType == Fresh \in States /\ Done \in States
<1>1. {} \in SUBSET Rows /\ <<>> \in Seq(Paths)
  OBVIOUS
<1> QED
  BY <1>1 DEF Fresh, Done, States, RequestPCs, Targets

\* One request goes on, and nothing else changes.
LEMMA BecomeType ==
  ASSUME TypeOK, NEW q \in Requests, NEW s \in States, Become(q, s),
         UNCHANGED <<parent, moves, setting, cache, mixed, post, job>>
  PROVE  TypeOK'
<1>1. req' \in [Requests -> States]
  BY DEF TypeOK, Become
<1> QED
  BY <1>1 DEF TypeOK

LEMMA LateType ==
  ASSUME TypeOK, NEW q \in Requests, NEW s \in States, BecomeWriter(q, s)
  PROVE  req' \in [Requests -> States]
<1>1. ASSUME NEW p \in Requests, p # q
      PROVE  [req[p] EXCEPT !.late = @ \/ req[p].pc \notin {"new", "done"}] \in States
  <2>1. \A l \in BOOLEAN : [req[p] EXCEPT !.late = l] \in States
    BY DEF TypeOK, States
  <2>2. (req[p].late \/ req[p].pc \notin {"new", "done"}) \in BOOLEAN
    OBVIOUS
  <2> QED
    BY <2>1, <2>2
<1> QED
  BY <1>1 DEF BecomeWriter

LEMMA RootsAreTargets ==
  /\ \A r \in Roots : r \in Targets /\ r # NoTarget /\ r # NoRoot
  /\ \A f \in Folders : f \in Targets /\ f # NoTarget /\ f # Keep
  /\ NoTarget \in Targets /\ NoTarget # Keep
  /\ EffectiveRoot \in Roots \cup {NoRoot} \/ setting \notin Roots \cup {NoRoot}
BY DriveFoldersAssumption DEF Targets, EffectiveRoot

-----------------------------------------------------------------------------
(* What the others do to a request.                                        *)

\* What a request knows, of itself and of the tables.
Knows(q) == IsSound(q) /\ PostIsChosen(q) /\ UploadIsChosen(q) /\ IsFoundOnce(q) /\ IsTrue(q)

\* A request that does not move in a step that writes nothing.
LEMMA KnowsStill ==
  ASSUME NEW p \in Requests, Knows(p), req'[p] = req[p],
         UNCHANGED <<parent, setting, cache, post, job>>
  PROVE  Knows(p)'
<1>1. IsSound(p)'
  BY DEF Knows, IsSound, At, IsPost
<1>2. PostIsChosen(p)'
  BY DEF Knows, PostIsChosen, At, IsPost, Chooses, ToHaveVideo, EffectiveRoot, Offers
<1>3. UploadIsChosen(p)'
  BY DEF Knows, UploadIsChosen, At, EffectiveRoot
<1>4. IsFoundOnce(p)'
  BY DEF Knows, IsFoundOnce, PathOf
<1>5. IsTrue(p)'
  BY DEF Knows, IsTrue, PathOf, PlaceOf, At
<1> QED
  BY <1>1, <1>2, <1>3, <1>4, <1>5 DEF Knows

\* What a request knows hangs on these parts of its state.
LEMMA KnowsSame ==
  ASSUME NEW p \in Requests, Knows(p), UNCHANGED job,
         \A x \in {"pc", "root", "found", "listed", "put", "target", "video", "fell"} :
           req'[p][x] = req[p][x],
         ~At(p, "new"),
         req'[p].late \/ (~req[p].late /\ UNCHANGED <<setting, cache, post>>),
         ~At(p, "list") \/ req'[p].moved \/ (~req[p].moved /\ UNCHANGED parent)
  PROVE  Knows(p)'
<1>1. /\ req'[p].pc = req[p].pc /\ req'[p].root = req[p].root /\ req'[p].found = req[p].found
      /\ req'[p].listed = req[p].listed /\ req'[p].put = req[p].put
      /\ req'[p].target = req[p].target /\ req'[p].video = req[p].video
      /\ req'[p].fell = req[p].fell
  OBVIOUS
<1>2. IsSound(p)'
  BY <1>1 DEF Knows, IsSound, At, IsPost
<1>3. PostIsChosen(p)'
  BY <1>1 DEF Knows, PostIsChosen, At, IsPost, Chooses, ToHaveVideo, EffectiveRoot, Offers
<1>4. UploadIsChosen(p)'
  BY <1>1 DEF Knows, UploadIsChosen, At, EffectiveRoot
<1>5. IsFoundOnce(p)'
  BY <1>1 DEF Knows, IsFoundOnce, PathOf
<1>6. IsTrue(p)'
  BY <1>1 DEF Knows, IsTrue, PathOf, PlaceOf, At
<1> QED
  BY <1>2, <1>3, <1>4, <1>5, <1>6 DEF Knows

\* A request that has not begun, or has ended, knows nothing.
LEMMA KnowsNothing ==
  ASSUME NEW p \in Requests, req'[p] = Fresh \/ req'[p] = Done
  PROVE  Knows(p)'
<1>1. /\ req'[p].pc \in {"new", "done"} /\ req'[p].found = <<>> /\ req'[p].listed = 0
      /\ req'[p].put = 0 /\ (req'[p].pc = "new" => req'[p] = Fresh)
  BY DEF Fresh, Done
<1>2. DOMAIN req'[p].found = {} /\ Len(req'[p].found) = 0
  BY <1>1
<1> QED
  BY <1>1, <1>2 DEF Knows, IsSound, PostIsChosen, UploadIsChosen, IsFoundOnce, IsTrue, At

\* The others are overtaken by a request that writes.
LEMMA KnowsLate ==
  ASSUME IInv, NEW q \in Requests, NEW s, BecomeWriter(q, s), UNCHANGED <<parent, job>>,
         NEW p \in Requests, p # q
  PROVE  Knows(p)'
<1>1. req'[p] = [req[p] EXCEPT !.late = @ \/ req[p].pc \notin {"new", "done"}]
  BY DEF BecomeWriter
<1>2. Knows(p) /\ req[p] \in States
  BY DEF IInv, Knows, TypeOK
<1>3. req[p].late \in BOOLEAN /\ req[p].moved \in BOOLEAN
  BY <1>2 DEF States
<1>4. CASE At(p, "new")
  <2>1. req[p] = Fresh
    BY <1>2, <1>4 DEF Knows, IsSound
  <2>2. (req[p].late \/ req[p].pc \notin {"new", "done"}) = FALSE
    BY <2>1 DEF Fresh
  <2>3. req'[p] = [Fresh EXCEPT !.late = FALSE]
    BY <1>1, <2>1, <2>2
  <2>4. req'[p] = Fresh
    BY <2>3 DEF Fresh
  <2> QED
    BY <2>4, KnowsNothing
<1>5. CASE At(p, "done")
  <2>1. /\ req'[p].pc = "done" /\ req'[p].root = req[p].root /\ req'[p].found = req[p].found
        /\ req'[p].listed = req[p].listed /\ req'[p].put = req[p].put
    BY <1>1, <1>2, <1>5 DEF At, States
  <2> QED
    BY <1>2, <2>1 DEF Knows, IsSound, PostIsChosen, UploadIsChosen, IsFoundOnce, IsTrue, At, PathOf, IsPost
<1>6. CASE ~At(p, "new") /\ ~At(p, "done")
  <2>1. req'[p] = [req[p] EXCEPT !.late = TRUE]
    BY <1>1, <1>3, <1>6 DEF At
  <2>2. req'[p].late
    BY <1>2, <2>1 DEF States
  <2>3. /\ \A x \in {"pc", "root", "found", "listed", "put", "target", "video", "fell"} :
             req'[p][x] = req[p][x]
        /\ req'[p].moved = req[p].moved
    BY <1>2, <2>1 DEF States
  <2> QED
    BY <1>2, <1>3, <1>6, <2>2, <2>3, KnowsSame
<1> QED
  BY <1>4, <1>5, <1>6

-----------------------------------------------------------------------------
(* Refreshes beside each other.                                            *)

Replacing(q) == req[q].pc \in {"wait", "insert"}

\* The parts of its state that matter to a refresh in its transaction.
SameReplacing(q) ==
  /\ req'[q].pc = req[q].pc /\ req'[q].root = req[q].root /\ req'[q].found = req[q].found
  /\ req'[q].gone = req[q].gone /\ req'[q].put = req[q].put

\* A refresh stays apart from the others when these do not take what it holds.
LEMMA ApartStill ==
  ASSUME NEW p \in Requests, IsApart(p), SameReplacing(p),
         cache'[req[p].root] = cache[req[p].root],
         req'[p].lone => req[p].lone /\ Rivals(p)' \subseteq Rivals(p),
         At(p, "insert") => \A w \in req[p].gone \cup Inserted(p) :
           Holders(p, Folder(w))' \subseteq Holders(p, Folder(w))
  PROVE  IsApart(p)'
<1>1. Inserted(p)' = Inserted(p)
  BY DEF Inserted, SameReplacing
<1> SUFFICES ASSUME req[p].pc \in {"wait", "insert"}
             PROVE  IsApart(p)'
  BY DEF IsApart, SameReplacing
<1>2. req'[p].lone => Rivals(p)' = {} /\ req'[p].gone = cache'[req'[p].root]
  BY DEF IsApart, SameReplacing
<1>3. ASSUME At(p, "insert"), NEW w \in req[p].gone \cup Inserted(p)
      PROVE  Holders(p, Folder(w))' = {}
  BY <1>3 DEF IsApart
<1>4. ASSUME At(p, "insert")
      PROVE  /\ req'[p].gone \subseteq cache'[req'[p].root]
             /\ \A v \in cache'[req'[p].root] \ req'[p].gone, w \in Inserted(p) : Folder(v) # Folder(w)
             /\ \A i, j \in 1 .. req'[p].put :
                  Last(req'[p].found[i]) = Last(req'[p].found[j]) => i = j
  BY <1>4 DEF IsApart, SameReplacing
<1> QED
  BY <1>1, <1>2, <1>3, <1>4 DEF IsApart, SameReplacing, At, Folder

\* The same for the others and those they rival with.
LEMMA SameRivals ==
  ASSUME NEW p \in Requests, req'[p].root = req[p].root,
         \A o \in Requests \ {p} : Replacing(o)' => SameReplacing(o)
  PROVE  /\ Rivals(p)' \subseteq Rivals(p)
         /\ \A f : Holders(p, f)' \subseteq Holders(p, f)
<1>1. ASSUME NEW o \in Rivals(p)'
      PROVE  /\ o \in Rivals(p) /\ SameReplacing(o)
             /\ Inserted(o)' = Inserted(o)
  BY <1>1 DEF Rivals, Replacing, SameReplacing, Inserted
<1>2. ASSUME NEW f, NEW o \in Holders(p, f)' PROVE o \in Holders(p, f)
  <2>1. o \in Rivals(p)' /\ At(o, "insert")' /\ \E w \in req'[o].gone \cup Inserted(o)' : Folder(w) = f
    BY <1>2 DEF Holders, Folder
  <2> QED
    BY <1>1, <2>1 DEF Holders, SameReplacing, At
<1> QED
  BY <1>1, <1>2

\* Steps outside of the transactions of refreshes, and the end of one.
LEMMA QuietApart ==
  ASSUME IInv, UNCHANGED cache,
         \A p \in Requests : Replacing(p)' => SameReplacing(p) /\ req'[p].lone = req[p].lone
  PROVE  \A p \in Requests : IsApart(p)'
<1> SUFFICES ASSUME NEW p \in Requests, Replacing(p)' PROVE IsApart(p)'
  BY DEF IsApart, Replacing
<1>1. SameReplacing(p) /\ req'[p].lone = req[p].lone /\ IsApart(p)
  BY DEF IInv
<1>2. Rivals(p)' \subseteq Rivals(p) /\ \A f : Holders(p, f)' \subseteq Holders(p, f)
  BY <1>1, SameRivals DEF SameReplacing
<1> QED
  BY <1>1, <1>2, ApartStill

-----------------------------------------------------------------------------
(* Steps that write no table.                                              *)

LEMMA Now ==
  ASSUME IInv, NEW q \in Requests
  PROVE  Knows(q) /\ IsApart(q) /\ req[q] \in States /\ TypeOK
BY DEF IInv, Knows, TypeOK

LEMMA Became ==
  ASSUME IInv, NEW q \in Requests, NEW s, Become(q, s)
  PROVE  req'[q] = s /\ \A p \in Requests \ {q} : req'[p] = req[p]
BY DEF IInv, TypeOK, Become

\* What is left to show for a step of one request that writes nothing.
LEMMA OwnStep ==
  ASSUME IInv, NEW q \in Requests, NEW s \in States, Become(q, s),
         UNCHANGED <<parent, moves, setting, cache, mixed, post, job>>,
         Knows(q)', \A p \in Requests : IsApart(p)'
  PROVE  IInv'
<1>1. TypeOK'
  BY BecomeType DEF IInv
<1>2. ASSUME NEW p \in Requests PROVE Knows(p)'
  <2>1. CASE p # q
    <3>1. req'[p] = req[p] /\ Knows(p)
      BY <2>1 DEF Become, IInv, Knows, TypeOK
    <3> QED
      BY <3>1, KnowsStill
  <2> QED
    BY <2>1
<1>3. (job \in Mixes /\ IsForest(parent))' /\ VideosHaveTargets'
  BY DEF IInv, IsForest, Below, VideosHaveTargets
<1>4. CacheIsATree'
  BY DEF IInv, CacheIsATree
<1> QED
  BY <1>1, <1>2, <1>3, <1>4 DEF IInv, Knows

\* ... outside of the transaction of a refresh, or that ends the request.
LEMMA QuietStep ==
  ASSUME IInv, NEW q \in Requests, NEW s \in States, Become(q, s),
         UNCHANGED <<parent, moves, setting, cache, mixed, post, job>>,
         s.pc \notin {"wait", "insert"}, Knows(q)'
  PROVE  IInv'
<1>1. \A p \in Requests : req'[p] = IF p = q THEN s ELSE req[p]
  BY DEF IInv, TypeOK, Become
<1>2. \A p \in Requests : Replacing(p)' => SameReplacing(p) /\ req'[p].lone = req[p].lone
  BY <1>1 DEF Replacing, SameReplacing
<1> QED
  BY <1>2, QuietApart, OwnStep

LEMMA EndStep ==
  ASSUME IInv, NEW q \in Requests, Become(q, Done),
         UNCHANGED <<parent, moves, setting, cache, mixed, post, job>>
  PROVE  IInv'
<1>1. req'[q] = Done
  BY DEF IInv, TypeOK, Become
<1>2. Done.pc = "done"
  BY DEF Done, Fresh
<1> QED
  BY <1>1, <1>2, FreshType, KnowsNothing, QuietStep

-----------------------------------------------------------------------------
(* The root, and what is chosen below it.                                  *)

LEMMA StartRefreshStep == ASSUME IInv, NEW q \in Requests, StartRefresh(q) PROVE IInv'
<1> DEFINE s == [req[q] EXCEPT !.pc = "root"]
<1>1. /\ job[q].kind = "refresh" /\ At(q, "new") /\ Become(q, s)
      /\ UNCHANGED <<parent, moves, setting, cache, mixed, post, job>>
  BY DEF StartRefresh
<1>2. req[q] \in States /\ req[q] = Fresh
  BY <1>1, Now DEF Knows, IsSound
<1>3. s \in States
  BY <1>2 DEF States, RequestPCs
<1>4. s.pc = "root" /\ s.found = <<>> /\ s.listed = 0 /\ s.put = 0
  BY <1>2 DEF Fresh
<1>5. Len(s.found) = 0 /\ DOMAIN s.found = {}
  BY <1>4
<1>6. req'[q] = s
  BY <1>1, Became
<1> HIDE DEF s
<1>7. Knows(q)'
  BY <1>1, <1>4, <1>5, <1>6
     DEF Knows, IsSound, PostIsChosen, UploadIsChosen, IsFoundOnce, IsTrue, At, IsPost
<1> QED
  BY <1>1, <1>3, <1>4, <1>7, QuietStep

\* Roots are read as they are, if the request is not overtaken.
LEMMA ReadRootStep == ASSUME IInv, NEW q \in Requests, ReadRoot(q) PROVE IInv'
<1>1. CASE EffectiveRoot = NoRoot
  BY <1>1, EndStep DEF ReadRoot
<1>2. CASE EffectiveRoot # NoRoot
  <2> DEFINE next == IF job[q].kind = "refresh" THEN "list" ELSE "cache"
             s == [req[q] EXCEPT !.pc = next, !.root = EffectiveRoot]
  <2>1. /\ At(q, "root") /\ Become(q, s)
        /\ UNCHANGED <<parent, moves, setting, cache, mixed, post, job>>
    BY <1>2 DEF ReadRoot
  <2>2. req[q] \in States /\ Knows(q) /\ TypeOK
    BY Now
  <2>3. EffectiveRoot \in Roots
    BY <1>2, <2>2, DriveFoldersAssumption DEF EffectiveRoot, TypeOK
  <2>4. s \in States
    <3>1. next \in RequestPCs
      BY DEF RequestPCs
    <3> QED
      BY <2>2, <2>3, <3>1 DEF States
  <2>5. /\ s.pc = next /\ s.root = EffectiveRoot /\ s.found = req[q].found /\ s.listed = req[q].listed
        /\ s.put = req[q].put /\ s.target = req[q].target /\ s.video = req[q].video
        /\ s.late = req[q].late /\ s.fell = req[q].fell /\ s.moved = req[q].moved
    BY <2>2 DEF States
  <2>6. req'[q] = s
    BY <2>1, Became
  <2> HIDE DEF s
  <2>7. IsSound(q)'
    BY <2>1, <2>2, <2>3, <2>5, <2>6 DEF Knows, IsSound, At, IsPost
  <2>8. PostIsChosen(q)'
    BY <2>1, <2>2, <2>3, <2>5, <2>6
       DEF Knows, IsSound, PostIsChosen, At, IsPost, Chooses, ToHaveVideo, EffectiveRoot
  <2>9. UploadIsChosen(q)'
    BY <2>1, <2>2, <2>3, <2>5, <2>6 DEF Knows, UploadIsChosen, At, EffectiveRoot
  <2>10. IsFoundOnce(q)' /\ IsTrue(q)'
    <3>1. req'[q].found = <<>> /\ req'[q].listed = 0
      BY <2>1, <2>2, <2>5, <2>6 DEF Knows, IsSound, At
    <3> QED
      BY <3>1 DEF IsFoundOnce, IsTrue
  <2>11. Knows(q)'
    BY <2>7, <2>8, <2>9, <2>10 DEF Knows
  <2> QED
    BY <2>1, <2>4, <2>5, <2>11, QuietStep
<1> QED
  BY <1>1, <1>2

LEMMA ReadRootFailsStep == ASSUME IInv, NEW q \in Requests, ReadRootFails(q) PROVE IInv'
<1>1. CASE DefaultRoot = NoRoot
  BY <1>1, EndStep DEF ReadRootFails
<1>2. CASE DefaultRoot # NoRoot
  <2> DEFINE s == [req[q] EXCEPT !.pc = "cache", !.root = DefaultRoot, !.fell = TRUE]
  <2>1. /\ At(q, "root") /\ job[q].kind = "upload" /\ Become(q, s)
        /\ UNCHANGED <<parent, moves, setting, cache, mixed, post, job>>
    BY <1>2 DEF ReadRootFails
  <2>2. req[q] \in States /\ Knows(q)
    BY Now
  <2>3. DefaultRoot \in Roots
    BY <1>2, DriveFoldersAssumption
  <2>4. s \in States
    BY <2>2, <2>3 DEF States, RequestPCs
  <2>5. /\ s.pc = "cache" /\ s.root = DefaultRoot /\ s.found = req[q].found
        /\ s.listed = req[q].listed /\ s.put = req[q].put /\ s.late = req[q].late /\ s.fell = TRUE
    BY <2>2 DEF States
  <2>6. req'[q] = s
    BY <2>1, Became
  <2> HIDE DEF s
  <2>7. IsSound(q)' /\ PostIsChosen(q)'
    BY <2>1, <2>2, <2>3, <2>5, <2>6 DEF Knows, IsSound, PostIsChosen, At, IsPost
  <2>8. UploadIsChosen(q)'
    BY <2>1, <2>2, <2>5, <2>6 DEF Knows, UploadIsChosen, At
  <2>9. IsFoundOnce(q)' /\ IsTrue(q)'
    <3>1. req'[q].found = <<>> /\ req'[q].listed = 0
      BY <2>1, <2>2, <2>5, <2>6 DEF Knows, IsSound, At
    <3> QED
      BY <3>1 DEF IsFoundOnce, IsTrue
  <2>10. Knows(q)'
    BY <2>7, <2>8, <2>9 DEF Knows
  <2> QED
    BY <2>1, <2>4, <2>5, <2>10, QuietStep
<1> QED
  BY <1>1, <1>2

-----------------------------------------------------------------------------
(* The target of a post.                                                   *)

LEMMA NothingFound ==
  ASSUME NEW q \in Requests, Knows(q), req'[q].found = req[q].found, req'[q].listed = req[q].listed,
         req'[q].pc # "list"
  PROVE  IsFoundOnce(q)' /\ IsTrue(q)'
<1>1. IsTrue(q)'
  BY DEF IsTrue, At
<1>2. IsFoundOnce(q)'
  BY DEF Knows, IsFoundOnce, PathOf
<1> QED
  BY <1>1, <1>2

\* Nothing of what a request writes down is about refreshes but these.
SameFound(q, s) ==
  s.found = req[q].found /\ s.listed = req[q].listed /\ s.put = req[q].put

\* Where normalizeDriveTargetFolderID leads.
LEMMA ChooseStep ==
  ASSUME IInv, NEW q \in Requests, NEW s \in States, Choose(q, s), IsPost(q), SameFound(q, s),
         s.found = <<>> /\ s.listed = 0 /\ s.put = 0,
         job[q].kind = "edit" /\ ~s.late => s.video = post.video /\ s.target = post.target,
         UNCHANGED <<parent, moves, setting, cache, mixed, post, job>>
  PROVE  IInv'
<1> DEFINE t == IF ~Chooses(q) THEN [s EXCEPT !.pc = "write"]
                ELSE IF ToHaveVideo(q, s) THEN [s EXCEPT !.pc = "root"]
                ELSE [s EXCEPT !.pc = "write", !.target = NoTarget]
<1>1. /\ t \in States /\ t.found = s.found /\ t.listed = s.listed /\ t.put = s.put
      /\ t.late = s.late /\ t.video = s.video
      /\ t.pc = IF Chooses(q) /\ ToHaveVideo(q, s) THEN "root" ELSE "write"
      /\ t.target = IF Chooses(q) /\ ~ToHaveVideo(q, s) THEN NoTarget ELSE s.target
  <2>1. NoTarget \in Targets
    BY DEF Targets
  <2> QED
    BY <2>1 DEF States, RequestPCs
<1>2. Become(q, t)
  BY DEF Choose
<1>3. req'[q] = t
  BY <1>2, Became
<1> HIDE DEF t
<1>4. IsSound(q)'
  <2>1. Len(t.found) = 0
    BY <1>1
  <2> QED
    BY <1>1, <1>3, <2>1 DEF IsSound, IsPost, At
<1>5. PostIsChosen(q)'
  <2>1. Chooses(q)' = Chooses(q) /\ ToHaveVideo(q, req[q])' = ToHaveVideo(q, s)
    BY <1>1, <1>3 DEF Chooses, ToHaveVideo
  <2>2. ~Chooses(q) => job[q].kind = "edit"
    BY DEF Chooses, IsPost
  <2>3. /\ t.pc \in {"root", "write"}
        /\ t.pc = "root" => Chooses(q) /\ ToHaveVideo(q, s)
        /\ t.pc = "write" /\ Chooses(q) => ~ToHaveVideo(q, s) /\ t.target = NoTarget
        /\ t.pc = "write" /\ ~Chooses(q) /\ ~t.late => t.target = post.target
        /\ job[q].kind = "edit" /\ ~t.late => t.video = post.video
    BY <1>1, <2>2
  <2> QED
    BY <1>3, <2>1, <2>3 DEF PostIsChosen, IsPost, At
<1>6. UploadIsChosen(q)'
  BY DEF UploadIsChosen, IsPost
<1>7. IsFoundOnce(q)' /\ IsTrue(q)'
  BY <1>1, <1>3, Now, NothingFound DEF SameFound
<1>8. Knows(q)'
  BY <1>4, <1>5, <1>6, <1>7 DEF Knows
<1> QED
  BY <1>1, <1>2, <1>8, QuietStep

LEMMA StartCreateStep == ASSUME IInv, NEW q \in Requests, StartCreate(q) PROVE IInv'
<1>1. req[q] = Fresh /\ req[q] \in States
  BY Now DEF Knows, IsSound, StartCreate
<1> QED
  BY <1>1, ChooseStep DEF StartCreate, Fresh, IsPost, SameFound

\* What an edit has read is there, if it is not overtaken.
LEMMA ReadPostStep == ASSUME IInv, NEW q \in Requests, ReadPost(q) PROVE IInv'
<1>1. CASE ~post.there
  BY <1>1, EndStep DEF ReadPost
<1>2. CASE post.there
  <2> DEFINE s == [req[q] EXCEPT !.pc = "files", !.target = post.target]
  <2>1. /\ At(q, "new") /\ job[q].kind = "edit" /\ Become(q, s)
        /\ UNCHANGED <<parent, moves, setting, cache, mixed, post, job>>
    BY <1>2 DEF ReadPost
  <2>2. req[q] \in States /\ Knows(q) /\ req[q] = Fresh /\ post.target \in Targets
    BY <2>1, Now DEF Knows, IsSound, TypeOK
  <2>3. s \in States
    BY <2>2 DEF States, RequestPCs
  <2>4. /\ s.pc = "files" /\ s.target = post.target /\ s.found = <<>> /\ s.listed = 0 /\ s.put = 0
        /\ req[q].found = <<>> /\ req[q].listed = 0
    BY <2>2 DEF Fresh
  <2>5. req'[q] = s
    BY <2>1, Became
  <2> HIDE DEF s
  <2>6. IsSound(q)'
    <3>1. Len(s.found) = 0
      BY <2>4
    <3> QED
      BY <2>1, <2>4, <2>5, <3>1 DEF IsSound, IsPost, At
  <2>7. PostIsChosen(q)' /\ UploadIsChosen(q)'
    BY <2>1, <2>4, <2>5 DEF PostIsChosen, UploadIsChosen, At
  <2>8. IsFoundOnce(q)' /\ IsTrue(q)'
    BY <2>2, <2>4, <2>5, NothingFound
  <2>9. Knows(q)'
    BY <2>6, <2>7, <2>8 DEF Knows
  <2> QED
    BY <2>1, <2>3, <2>4, <2>9, QuietStep
<1> QED
  BY <1>1, <1>2

LEMMA ReadFilesStep == ASSUME IInv, NEW q \in Requests, ReadFiles(q) PROVE IInv'
<1> DEFINE s == [req[q] EXCEPT !.video = post.video]
<1>1. At(q, "files") /\ Choose(q, s) /\ UNCHANGED <<parent, moves, setting, cache, mixed, post, job>>
  BY DEF ReadFiles
<1>2. req[q] \in States /\ Knows(q) /\ post.video \in BOOLEAN
  BY Now DEF TypeOK
<1>3. s \in States
  BY <1>2 DEF States
<1>4. /\ s.found = req[q].found /\ s.listed = req[q].listed /\ s.put = req[q].put
      /\ s.late = req[q].late /\ s.target = req[q].target /\ s.video = post.video
  BY <1>2 DEF States
<1>5. req[q].found = <<>> /\ req[q].listed = 0 /\ req[q].put = 0
  BY <1>1, <1>2 DEF Knows, IsSound, At
<1>6. job[q].kind = "edit" /\ (~req[q].late => req[q].target = post.target)
  BY <1>1, <1>2 DEF Knows, IsSound, PostIsChosen, IsPost
<1> HIDE DEF s
<1> QED
  BY <1>1, <1>3, <1>4, <1>5, <1>6, ChooseStep DEF IsPost, SameFound

LEMMA ReadCacheStep == ASSUME IInv, NEW q \in Requests, ReadCache(q) PROVE IInv'
<1>1. /\ At(q, "cache") /\ IsPost(q)
      /\ UNCHANGED <<parent, moves, setting, cache, mixed, post, job>>
  BY DEF ReadCache, IsPost
<1>2. req[q] \in States /\ Knows(q) /\ job[q].folder \in Folders \cup {NoTarget, Keep}
  BY Now, Fields
<1>3. /\ req[q].root \in Roots /\ Chooses(q) /\ ToHaveVideo(q, req[q])
      /\ ~req[q].late => req[q].root = EffectiveRoot
      /\ job[q].kind = "edit" /\ ~req[q].late => req[q].video = post.video
  BY <1>1, <1>2 DEF Knows, IsSound, PostIsChosen, At
<1>4. CASE cache[req[q].root] = {}
  <2> DEFINE s == [req[q] EXCEPT !.pc = "write", !.target = req[q].root]
  <2>1. Become(q, s)
    BY <1>4 DEF ReadCache
  <2>2. s \in States
    BY <1>2, <1>3, RootsAreTargets DEF States, RequestPCs
  <2>3. /\ s.pc = "write" /\ s.target = req[q].root /\ s.root = req[q].root
        /\ s.found = req[q].found /\ s.listed = req[q].listed /\ s.put = req[q].put
        /\ s.late = req[q].late /\ s.video = req[q].video
    BY <1>2 DEF States
  <2>4. req'[q] = s
    BY <2>1, Became
  <2> HIDE DEF s
  <2>5. IsSound(q)' /\ UploadIsChosen(q)'
    BY <1>1, <1>2, <2>3, <2>4 DEF Knows, IsSound, UploadIsChosen, IsPost, At
  <2>6. PostIsChosen(q)'
    <3>1. Chooses(q)' /\ ToHaveVideo(q, req[q])' /\ s.target # NoTarget
      BY <1>1, <1>3, <2>3, <2>4, RootsAreTargets DEF Chooses, ToHaveVideo
    <3>2. ~s.late => cache[EffectiveRoot] = {} /\ s.target = EffectiveRoot
      BY <1>3, <1>4, <2>3
    <3> QED
      BY <1>1, <1>3, <2>3, <2>4, <3>1, <3>2 DEF PostIsChosen, IsPost, At, EffectiveRoot
  <2>7. IsFoundOnce(q)' /\ IsTrue(q)'
    BY <1>2, <2>3, <2>4, NothingFound
  <2>8. Knows(q)'
    BY <2>5, <2>6, <2>7 DEF Knows
  <2> QED
    BY <1>1, <2>1, <2>2, <2>3, <2>8, QuietStep
<1>5. CASE cache[req[q].root] # {} /\ job[q].folder \in Folders
  <2> DEFINE s == [req[q] EXCEPT !.pc = "exists", !.target = job[q].folder]
  <2>1. Become(q, s)
    BY <1>5 DEF ReadCache
  <2>2. s \in States
    BY <1>2, <1>5, RootsAreTargets DEF States, RequestPCs
  <2>3. /\ s.pc = "exists" /\ s.target = job[q].folder /\ s.root = req[q].root
        /\ s.found = req[q].found /\ s.listed = req[q].listed /\ s.put = req[q].put
        /\ s.late = req[q].late /\ s.video = req[q].video
    BY <1>2 DEF States
  <2>4. req'[q] = s
    BY <2>1, Became
  <2> HIDE DEF s
  <2>5. IsSound(q)' /\ UploadIsChosen(q)'
    BY <1>1, <1>2, <1>3, <2>3, <2>4 DEF Knows, IsSound, UploadIsChosen, IsPost, At
  <2>6. PostIsChosen(q)'
    <3>1. Chooses(q)' /\ ToHaveVideo(q, req[q])'
      BY <1>1, <1>3, <2>3, <2>4 DEF Chooses, ToHaveVideo
    <3> QED
      BY <1>1, <1>3, <1>5, <2>3, <2>4, <3>1 DEF PostIsChosen, IsPost, At, EffectiveRoot
  <2>7. IsFoundOnce(q)' /\ IsTrue(q)'
    BY <1>2, <2>3, <2>4, NothingFound
  <2>8. Knows(q)'
    BY <2>5, <2>6, <2>7 DEF Knows
  <2> QED
    BY <1>1, <2>1, <2>2, <2>3, <2>8, QuietStep
<1>6. CASE cache[req[q].root] # {} /\ job[q].folder \notin Folders
  BY <1>1, <1>6, EndStep DEF ReadCache
<1> QED
  BY <1>4, <1>5, <1>6

LEMMA CheckFolderStep == ASSUME IInv, NEW q \in Requests, CheckFolder(q) PROVE IInv'
<1>1. At(q, "exists") /\ UNCHANGED <<parent, moves, setting, cache, mixed, post, job>>
  BY DEF CheckFolder
<1>2. req[q] \in States /\ Knows(q)
  BY Now
<1>3. /\ IsPost(q) /\ Chooses(q) /\ ToHaveVideo(q, req[q])
      /\ req[q].target \in Folders
      /\ ~req[q].late => req[q].root = EffectiveRoot /\ cache[req[q].root] # {}
      /\ job[q].kind = "edit" /\ ~req[q].late => req[q].video = post.video
  BY <1>1, <1>2 DEF Knows, IsSound, PostIsChosen, At
<1>4. CASE Offers(req[q].root, req[q].target)
  <2> DEFINE s == [req[q] EXCEPT !.pc = "write"]
  <2>1. Become(q, s)
    BY <1>4 DEF CheckFolder
  <2>2. s \in States
    BY <1>2 DEF States, RequestPCs
  <2>3. /\ s.pc = "write" /\ s.target = req[q].target /\ s.root = req[q].root
        /\ s.found = req[q].found /\ s.listed = req[q].listed /\ s.put = req[q].put
        /\ s.late = req[q].late /\ s.video = req[q].video
    BY <1>2 DEF States
  <2>4. req'[q] = s
    BY <2>1, Became
  <2> HIDE DEF s
  <2>5. IsSound(q)' /\ UploadIsChosen(q)'
    BY <1>1, <1>2, <1>3, <2>3, <2>4 DEF Knows, IsSound, UploadIsChosen, IsPost, At
  <2>6. PostIsChosen(q)'
    <3>1. Chooses(q)' /\ ToHaveVideo(q, req[q])' /\ s.target # NoTarget
      BY <1>1, <1>3, <2>3, <2>4, RootsAreTargets DEF Chooses, ToHaveVideo
    <3>2. ~s.late => cache[EffectiveRoot] # {} /\ Offers(EffectiveRoot, s.target)
      BY <1>3, <1>4, <2>3
    <3> QED
      BY <1>1, <1>3, <2>3, <2>4, <3>1, <3>2 DEF PostIsChosen, IsPost, At, EffectiveRoot, Offers
  <2>7. IsFoundOnce(q)' /\ IsTrue(q)'
    BY <1>2, <2>3, <2>4, NothingFound
  <2>8. Knows(q)'
    BY <2>5, <2>6, <2>7 DEF Knows
  <2> QED
    BY <1>1, <2>1, <2>2, <2>3, <2>8, QuietStep
<1>5. CASE ~Offers(req[q].root, req[q].target)
  BY <1>1, <1>5, EndStep DEF CheckFolder
<1> QED
  BY <1>4, <1>5

-----------------------------------------------------------------------------
(* The upload.                                                             *)

LEMMA ClaimStep == ASSUME IInv, NEW q \in Requests, Claim(q) PROVE IInv'
<1> DEFINE where == IF post.target = NoTarget THEN "root" ELSE "send"
           s == [req[q] EXCEPT !.pc = where, !.target = post.target]
<1>1. /\ At(q, "new") /\ job[q].kind = "upload" /\ Become(q, s)
      /\ UNCHANGED <<parent, moves, setting, cache, mixed, post, job>>
  BY DEF Claim
<1>2. req[q] \in States /\ Knows(q) /\ req[q] = Fresh /\ post.target \in Targets
  BY <1>1, Now DEF Knows, IsSound, TypeOK
<1>3. s \in States
  <2>1. where \in RequestPCs
    BY DEF RequestPCs
  <2> QED
    BY <1>2, <2>1 DEF States
<1>4. /\ s.pc = where /\ s.target = post.target /\ s.found = <<>> /\ s.listed = 0 /\ s.put = 0
      /\ req[q].found = <<>> /\ req[q].listed = 0 /\ s.fell = FALSE
  BY <1>2 DEF Fresh
<1>5. req'[q] = s
  BY <1>1, Became
<1> HIDE DEF s
<1>6. IsSound(q)'
  <2>1. Len(s.found) = 0
    BY <1>4
  <2> QED
    BY <1>1, <1>4, <1>5, <2>1 DEF IsSound, IsPost, At
<1>7. PostIsChosen(q)' /\ UploadIsChosen(q)'
  BY <1>1, <1>4, <1>5 DEF PostIsChosen, UploadIsChosen, At, IsPost
<1>8. IsFoundOnce(q)' /\ IsTrue(q)'
  BY <1>2, <1>4, <1>5, NothingFound
<1>9. Knows(q)'
  BY <1>6, <1>7, <1>8 DEF Knows
<1> QED
  BY <1>1, <1>3, <1>4, <1>9, QuietStep

LEMMA ReadCacheForUploadStep == ASSUME IInv, NEW q \in Requests, ReadCacheForUpload(q) PROVE IInv'
<1>1. /\ At(q, "cache") /\ job[q].kind = "upload"
      /\ UNCHANGED <<parent, moves, setting, cache, mixed, post, job>>
  BY DEF ReadCacheForUpload
<1>2. CASE cache[req[q].root] = {}
  <2> DEFINE s == [req[q] EXCEPT !.pc = "send", !.target = req[q].root]
  <2>1. Become(q, s)
    BY <1>2 DEF ReadCacheForUpload
  <2>2. req[q] \in States /\ Knows(q) /\ req[q].root \in Roots
    BY <1>1, Now DEF Knows, IsSound, At
  <2>3. s \in States
    BY <2>2, RootsAreTargets DEF States, RequestPCs
  <2>4. /\ s.pc = "send" /\ s.target = req[q].root /\ s.found = req[q].found
        /\ s.listed = req[q].listed /\ s.put = req[q].put /\ s.late = req[q].late
        /\ s.fell = req[q].fell
    BY <2>2 DEF States
  <2>5. req'[q] = s
    BY <2>1, Became
  <2> HIDE DEF s
  <2>6. IsSound(q)' /\ PostIsChosen(q)'
    BY <1>1, <2>2, <2>4, <2>5 DEF Knows, IsSound, PostIsChosen, IsPost, At
  <2>7. UploadIsChosen(q)'
    BY <1>1, <2>2, <2>4, <2>5 DEF Knows, UploadIsChosen, At, EffectiveRoot
  <2>8. IsFoundOnce(q)' /\ IsTrue(q)'
    BY <2>2, <2>4, <2>5, NothingFound
  <2>9. Knows(q)'
    BY <2>6, <2>7, <2>8 DEF Knows
  <2> QED
    BY <1>1, <2>1, <2>3, <2>4, <2>9, QuietStep
<1>3. CASE cache[req[q].root] # {}
  BY <1>1, <1>3, EndStep DEF ReadCacheForUpload
<1> QED
  BY <1>2, <1>3

-----------------------------------------------------------------------------
(* Requests that write.                                                    *)

\* What the others have read is marked as overtaken.
LEMMA WriterStep ==
  ASSUME IInv, NEW q \in Requests, BecomeWriter(q, Done), UNCHANGED <<parent, job>>
  PROVE  /\ req' \in [Requests -> States]
         /\ \A p \in Requests : Knows(p)'
         /\ \A p \in Requests : Replacing(p)' =>
              p # q /\ SameReplacing(p) /\ req'[p].lone = req[p].lone
         /\ (job \in Mixes /\ IsForest(parent))'
<1>1. req' \in [Requests -> States]
  BY FreshType, LateType DEF IInv
<1>2. req'[q] = Done
  BY DEF BecomeWriter
<1>3. ASSUME NEW p \in Requests PROVE Knows(p)'
  <2>1. CASE p = q
    BY <1>2, <2>1, KnowsNothing
  <2> QED
    BY <2>1, KnowsLate
<1>4. ASSUME NEW p \in Requests, Replacing(p)'
      PROVE  p # q /\ SameReplacing(p) /\ req'[p].lone = req[p].lone
  <2>1. p # q
    BY <1>2, <1>4 DEF Replacing, Done, Fresh
  <2>2. req'[p] = [req[p] EXCEPT !.late = @ \/ req[p].pc \notin {"new", "done"}]
    BY <2>1 DEF BecomeWriter
  <2>3. req[p] \in States
    BY Now
  <2> QED
    BY <2>1, <2>2, <2>3 DEF SameReplacing, States
<1>5. (job \in Mixes /\ IsForest(parent))'
  BY DEF IInv, IsForest, Below
<1> QED
  BY <1>1, <1>3, <1>4, <1>5

LEMMA SetRootStep == ASSUME IInv, NEW q \in Requests, SetRoot(q) PROVE IInv'
<1>1. /\ setting' = job[q].root /\ BecomeWriter(q, Done)
      /\ UNCHANGED <<parent, moves, cache, mixed, post, job>>
  BY DEF SetRoot
<1>2. req' \in [Requests -> States] /\ (job \in Mixes /\ IsForest(parent))' /\ \A p \in Requests : Knows(p)'
  BY <1>1, WriterStep
<1>3. \A p \in Requests : IsApart(p)'
  BY <1>1, WriterStep, QuietApart
<1>4. TypeOK'
  <2>1. job[q].root \in Roots \cup {NoRoot}
    BY Now, Fields
  <2> QED
    BY <1>1, <1>2, <2>1 DEF IInv, TypeOK
<1>5. VideosHaveTargets' /\ CacheIsATree'
  BY <1>1 DEF IInv, VideosHaveTargets, CacheIsATree
<1> QED
  BY <1>2, <1>3, <1>4, <1>5 DEF IInv, Knows

\* A post with a video gets its target, unless it is overtaken.
LEMMA WritePostStep == ASSUME IInv, NEW q \in Requests, WritePost(q) PROVE IInv'
<1>1. /\ At(q, "write") /\ BecomeWriter(q, Done)
      /\ UNCHANGED <<parent, moves, setting, cache, mixed, job>>
      /\ post' = [there  |-> TRUE,
                  video  |-> IF job[q].video = Keep THEN post.video ELSE job[q].video,
                  target |-> req[q].target,
                  raced  |-> req[q].late \/ (post.raced /\ ~Chooses(q))]
  BY DEF WritePost
<1>2. req' \in [Requests -> States] /\ (job \in Mixes /\ IsForest(parent))' /\ \A p \in Requests : Knows(p)'
  BY <1>1, WriterStep
<1>3. \A p \in Requests : IsApart(p)'
  BY <1>1, WriterStep, QuietApart
<1>4. /\ job[q].video \in BOOLEAN \cup {Keep} /\ req[q].target \in Targets
      /\ post.video \in BOOLEAN /\ Knows(q) /\ TypeOK
  BY Now, Fields DEF TypeOK
<1>5. TypeOK'
  <2>1. (req[q].late \/ (post.raced /\ ~Chooses(q))) \in BOOLEAN
    OBVIOUS
  <2>2. (IF job[q].video = Keep THEN post.video ELSE job[q].video) \in BOOLEAN
    BY <1>4
  <2>3. post' \in [there : BOOLEAN, video : BOOLEAN, target : Targets, raced : BOOLEAN]
    <3> DEFINE late  == req[q].late \/ (post.raced /\ ~Chooses(q))
               video == IF job[q].video = Keep THEN post.video ELSE job[q].video
    <3>1. post' = [there |-> TRUE, video |-> video, target |-> req[q].target, raced |-> late]
      BY <1>1
    <3>2. late \in BOOLEAN /\ video \in BOOLEAN
      BY <2>1, <2>2
    <3> HIDE DEF late, video
    <3> QED
      BY <1>4, <3>1, <3>2
  <2> QED
    BY <1>1, <1>2, <1>4, <2>3 DEF TypeOK
<1>6. VideosHaveTargets'
  <2> SUFFICES ASSUME post'.video, ~req[q].late, Chooses(q) => post'.target = NoTarget,
                      ~(post.raced /\ ~Chooses(q)), post'.target = NoTarget
               PROVE  FALSE
    BY <1>1 DEF VideosHaveTargets
  <2>1. IsPost(q) /\ PostIsChosen(q)
    BY <1>1, <1>4 DEF Knows, IsSound, At
  <2>2. CASE Chooses(q)
    <3>1. ~ToHaveVideo(q, req[q])
      BY <1>1, <2>1, <2>2 DEF PostIsChosen
    <3>2. job[q].video = Keep /\ ~req[q].video
      BY <1>1, <3>1 DEF ToHaveVideo
    <3>3. job[q].kind = "edit"
      BY <2>1, <3>2, DriveFoldersAssumption DEF IsPost, IInv
    <3> QED
      BY <1>1, <2>1, <3>2, <3>3 DEF PostIsChosen, At
  <2>3. CASE ~Chooses(q)
    <3>1. post.target = NoTarget /\ ~post.raced
      BY <1>1, <2>1, <2>3 DEF PostIsChosen
    <3>2. post.video
      BY <1>1, <2>3 DEF Chooses
    <3> QED
      BY <3>1, <3>2 DEF IInv, VideosHaveTargets
  <2> QED
    BY <2>2, <2>3
<1>7. CacheIsATree'
  BY <1>1 DEF IInv, CacheIsATree
<1> QED
  BY <1>2, <1>3, <1>5, <1>6, <1>7 DEF IInv, Knows

-----------------------------------------------------------------------------
(* Folders that move.                                                      *)

\* Where a folder is, and where that is.
Above(up, f) == {x \in Places : Below(up, f, x)}

LEMMA AboveIsClosed ==
  ASSUME NEW up \in [Folders -> Places], NEW f \in Places
  PROVE  /\ Above(up, f) \in SUBSET Places /\ f \in Above(up, f)
         /\ \A g \in Above(up, f) \cap Folders : up[g] \in Above(up, f)
<1>1. f \in Above(up, f)
  BY DEF Above, Below
<1>2. ASSUME NEW g \in Above(up, f) \cap Folders PROVE up[g] \in Above(up, f)
  <2> SUFFICES ASSUME NEW S \in SUBSET Places, f \in S, \A h \in S \cap Folders : up[h] \in S
               PROVE  up[g] \in S
    BY DEF Above, Below
  <2>1. g \in S
    BY DEF Above, Below
  <2> QED
    BY <2>1
<1> QED
  BY <1>1, <1>2 DEF Above

\* A folder that is not moved below itself makes no cycle.
LEMMA MoveKeepsForest ==
  ASSUME NEW up \in [Folders -> Places], IsForest(up), NEW f \in Folders, NEW to \in Places,
         ~Below(up, to, f)
  PROVE  IsForest([up EXCEPT ![f] = to])
<1> DEFINE new == [up EXCEPT ![f] = to]
           A == Above(up, to)
<1>1. A \in SUBSET Places /\ to \in A /\ f \notin A /\ \A g \in A \cap Folders : up[g] \in A
  BY AboveIsClosed DEF Above
<1>2. new \in [Folders -> Places] /\ \A g \in Folders : new[g] = IF g = f THEN to ELSE up[g]
  OBVIOUS
<1> HIDE DEF A, new
<1> SUFFICES ASSUME NEW g \in Folders PROVE ~Below(new, new[g], g)
  BY DEF IsForest, new
<1>3. CASE g = f
  <2>1. \A h \in A \cap Folders : new[h] \in A
    BY <1>1, <1>2
  <2> QED
    BY <1>1, <1>2, <1>3, <2>1 DEF Below
<1>4. CASE g # f
  <2> DEFINE B == Above(up, up[g])
  <2>1. B \in SUBSET Places /\ up[g] \in B /\ g \notin B /\ \A h \in B \cap Folders : up[h] \in B
    BY AboveIsClosed DEF Above, IsForest
  <2> HIDE DEF B
  <2>2. CASE f \notin B
    <3>1. \A h \in B \cap Folders : new[h] \in B
      BY <1>2, <2>1, <2>2
    <3> QED
      BY <1>2, <1>4, <2>1, <3>1 DEF Below
  <2>3. CASE f \in B
    <3>1. g \notin A
      <4> SUFFICES ASSUME g \in A PROVE FALSE
        OBVIOUS
      <4>1. up[g] \in A
        BY <1>1
      <4>2. Below(up, up[g], f)
        BY <2>3 DEF B, Above
      <4> QED
        BY <1>1, <4>1, <4>2 DEF Below
    <3>2. \A h \in (A \cup B) \cap Folders : new[h] \in A \cup B
      BY <1>1, <1>2, <2>1
    <3>3. A \cup B \in SUBSET Places /\ new[g] \in A \cup B /\ g \notin A \cup B
      BY <1>1, <1>2, <1>4, <2>1, <3>1
    <3> QED
      BY <3>2, <3>3 DEF Below
  <2> QED
    BY <2>2, <2>3
<1> QED
  BY <1>3, <1>4

\* Traversals are told that something moves.
LEMMA MoveFolderStep ==
  ASSUME IInv, NEW f \in Folders, NEW to \in Places, MoveFolder(f, to)
  PROVE  IInv'
<1>1. /\ moves < MaxMoves /\ ~Below(parent, to, f)
      /\ parent' = [parent EXCEPT ![f] = to] /\ moves' = moves + 1
      /\ req' = [q \in Requests |-> [req[q] EXCEPT !.moved = @ \/ At(q, "list")]]
      /\ UNCHANGED <<setting, cache, mixed, post, job>>
  BY DEF MoveFolder
<1>2. IsForest(parent)' /\ parent' \in [Folders -> Places]
  BY <1>1, MoveKeepsForest DEF IInv, TypeOK
<1>3. ASSUME NEW q \in Requests
      PROVE  /\ req'[q] \in States
             /\ \A x \in {"pc", "root", "found", "listed", "put", "target", "video", "fell"} :
                  req'[q][x] = req[q][x]
             /\ req'[q].gone = req[q].gone /\ req'[q].lone = req[q].lone
             /\ req'[q].late = req[q].late
             /\ At(q, "list") => req'[q].moved
             /\ ~At(q, "list") => req'[q] = req[q]
  <2>1. req[q] \in States /\ req[q].moved \in BOOLEAN
    BY Now, Fields
  <2>2. req'[q] = [req[q] EXCEPT !.moved = @ \/ At(q, "list")]
    BY <1>1
  <2>3. CASE At(q, "list")
    <3>1. req'[q] = [req[q] EXCEPT !.moved = TRUE]
      BY <2>2, <2>3
    <3> QED
      BY <2>1, <2>3, <3>1 DEF States
  <2>4. CASE ~At(q, "list")
    <3>1. (req[q].moved \/ At(q, "list")) = req[q].moved
      BY <2>1, <2>4
    <3>2. req'[q] = [req[q] EXCEPT !.moved = req[q].moved]
      BY <2>2, <3>1
    <3>3. req'[q] = req[q]
      BY <2>1, <3>2 DEF States
    <3> QED
      BY <2>1, <2>4, <3>3
  <2> QED
    BY <2>3, <2>4
<1>4. ASSUME NEW q \in Requests PROVE Knows(q)'
  <2>1. CASE At(q, "new")
    BY <1>3, <2>1, Now, KnowsNothing DEF Knows, IsSound, At
  <2>2. CASE ~At(q, "new")
    BY <1>1, <1>3, <2>2, Now, Fields, KnowsSame
  <2> QED
    BY <2>1, <2>2
<1>5. \A q \in Requests : IsApart(q)'
  BY <1>1, <1>3, QuietApart DEF SameReplacing
<1>6. TypeOK'
  <2>1. moves' \in 0 .. MaxMoves
    BY <1>1, DriveFoldersAssumption DEF IInv, TypeOK
  <2>2. req' \in [Requests -> States]
    BY <1>1, <1>3
  <2> QED
    BY <1>1, <1>2, <2>1, <2>2 DEF IInv, TypeOK
<1>7. VideosHaveTargets' /\ CacheIsATree' /\ (job \in Mixes)'
  BY <1>1 DEF IInv, VideosHaveTargets, CacheIsATree
<1> QED
  BY <1>2, <1>4, <1>5, <1>6, <1>7 DEF IInv, Knows

-----------------------------------------------------------------------------
(* Traversals.                                                             *)

\* A path that goes on into a folder.
LEMMA PathOn ==
  ASSUME NEW p \in Paths, NEW f \in Folders
  PROVE  /\ Append(p, f) \in Paths /\ Append(p, f) # <<>>
         /\ Len(Append(p, f)) = Len(p) + 1
         /\ Front(Append(p, f)) = p /\ Last(Append(p, f)) = f
         /\ \A n \in 1 .. Len(p) : Append(p, f)[n] = p[n]
<1>1. p \in Seq(Folders) /\ Len(p) \in Nat
  BY DEF Paths
<1>2. /\ Append(p, f) \in Paths /\ Append(p, f) # <<>> /\ Len(Append(p, f)) = Len(p) + 1
      /\ \A n \in 1 .. Len(p) : Append(p, f)[n] = p[n]
      /\ Append(p, f)[Len(p) + 1] = f
  BY <1>1, AppendProperties DEF Paths
<1>3. Last(Append(p, f)) = f
  BY <1>1, <1>2 DEF Last
<1>4. Front(Append(p, f)) = SubSeq(Append(p, f), 1, Len(p))
  BY <1>1, <1>2 DEF Front
<1>5. \A i \in 1 .. Len(p) : Append(p, f)[i] \in Folders
  BY <1>1, <1>2, ElementOfSeq
<1>6. /\ SubSeq(Append(p, f), 1, Len(p)) \in Seq(Folders)
      /\ Len(SubSeq(Append(p, f), 1, Len(p))) = Len(p)
      /\ \A i \in 1 .. Len(p) : SubSeq(Append(p, f), 1, Len(p))[i] = p[i]
  <2>1. Len(p) \in Int /\ 1 \in Int
    BY <1>1
  <2>2. /\ SubSeq(Append(p, f), 1, Len(p)) \in Seq(Folders)
        /\ Len(SubSeq(Append(p, f), 1, Len(p))) = IF 1 <= Len(p) THEN Len(p) - 1 + 1 ELSE 0
        /\ \A i \in 1 .. Len(p) - 1 + 1 : SubSeq(Append(p, f), 1, Len(p))[i] = Append(p, f)[1 + i - 1]
    BY <1>5, <2>1, SubSeqProperties
  <2> QED
    BY <1>1, <1>2, <2>2
<1>7. Front(Append(p, f)) = p
  BY <1>1, <1>4, <1>6, SeqEqual
<1> QED
  BY <1>2, <1>3, <1>7

\* The elements of a finite set, in some order.
LEMMA OrderOfSet ==
  ASSUME NEW T, IsFiniteSet(T), NEW s \in SetToSeqs(T)
  PROVE  /\ s \in Seq(T) /\ ToSet(s) = T
         /\ \A i, j \in DOMAIN s : s[i] = s[j] => i = j
<1> DEFINE n == Cardinality(T)
<1>1. n \in Nat
  BY FS_CardinalityType
<1> HIDE DEF n
<1>2. s \in [1 .. n -> T] /\ \A i, j \in 1 .. n : i # j => s[i] # s[j]
  BY DEF SetToSeqs, n
<1>3. s \in Injection(1 .. n, T)
  BY <1>2 DEF Injection, IsInjective
<1>4. IsFiniteSet(1 .. n) /\ Cardinality(1 .. n) = n
  BY <1>1, FS_Interval
<1>5. s \in Surjection(1 .. n, T)
  BY <1>3, <1>4, FS_Injection DEF n
<1>6. \A t \in T : \E i \in 1 .. n : s[i] = t
  BY <1>5 DEF Surjection
<1>7. s \in Seq(T)
  BY <1>1, <1>2, SeqDef
<1>8. ToSet(s) = T
  BY <1>2, <1>6 DEF ToSet
<1> QED
  BY <1>2, <1>7, <1>8

\* What the head of the queue is.
LEMMA NextIs ==
  ASSUME IInv, NEW q \in Requests, At(q, "list"), req[q].listed <= Len(req[q].found)
  PROVE  LET k == req[q].listed IN
         /\ k \in Nat /\ Len(req[q].found) \in Nat /\ req[q].found \in Seq(Paths)
         /\ DOMAIN req[q].found = 1 .. Len(req[q].found)
         /\ NextPath(q) = PathOf(q, k) /\ NextPath(q) \in Paths
         /\ k # 0 => NextPath(q) # <<>>
         /\ Children(q) = {Append(PathOf(q, k), f) : f \in {f \in Folders : parent[f] = PlaceOf(q, k)}}
<1> DEFINE k == req[q].listed
<1>1. /\ k \in Nat /\ req[q].found \in Seq(Paths) /\ Len(req[q].found) \in Nat
      /\ DOMAIN req[q].found = 1 .. Len(req[q].found)
  BY Now, Fields
<1>2. NextPath(q) = PathOf(q, k)
  BY DEF NextPath, PathOf
<1>3. CASE k = 0
  <2>1. NextPath(q) = <<>> /\ PlaceOf(q, k) = req[q].root
    BY <1>3 DEF NextPath, PlaceOf
  <2>2. <<>> \in Paths
    BY DEF Paths
  <2> QED
    BY <1>1, <1>2, <1>3, <2>1, <2>2 DEF Children
<1>4. CASE k # 0
  <2>1. k \in DOMAIN req[q].found
    BY <1>1, <1>4
  <2>2. NextPath(q) = req[q].found[k] /\ NextPath(q) \in Paths /\ NextPath(q) # <<>>
    BY <1>1, <1>4, <2>1, Now, ElementOfSeq DEF NextPath, Knows, IsFoundOnce
  <2>3. PlaceOf(q, k) = Last(NextPath(q))
    BY <1>4, <2>2 DEF PlaceOf
  <2> QED
    BY <1>1, <1>2, <2>2, <2>3 DEF Children
<1> QED
  BY <1>3, <1>4

\* The children of a folder have not been found before.
LEMMA ChildrenAreNew ==
  ASSUME IInv, NEW q \in Requests, At(q, "list"), req[q].listed <= Len(req[q].found),
         NEW i \in DOMAIN req[q].found, NEW f \in Folders
  PROVE  req[q].found[i] # Append(PathOf(q, req[q].listed), f)
<1> DEFINE k == req[q].listed
           found == req[q].found
<1>1. /\ k \in Nat /\ DOMAIN found = 1 .. Len(found) /\ Len(found) \in Nat
      /\ NextPath(q) = PathOf(q, k) /\ NextPath(q) \in Paths /\ (k # 0 => NextPath(q) # <<>>)
  BY NextIs
<1>2. PICK j \in 0 .. k - 1 : j < i /\ PathOf(q, j) = Front(found[i])
  BY Now DEF Knows, IsFoundOnce
<1> SUFFICES ASSUME found[i] = Append(PathOf(q, k), f) PROVE FALSE
  OBVIOUS
<1>3. PathOf(q, j) = PathOf(q, k)
  BY <1>1, <1>2, PathOn
<1>4. k \in DOMAIN found /\ k # 0 /\ j # k
  BY <1>1, <1>2
<1>5. CASE j = 0
  BY <1>1, <1>3, <1>4, <1>5 DEF PathOf
<1>6. CASE j # 0
  <2>1. j \in DOMAIN found /\ found[j] = found[k]
    BY <1>1, <1>2, <1>3, <1>4, <1>6 DEF PathOf
  <2> QED
    BY <1>4, <2>1, Now DEF Knows, IsFoundOnce
<1> QED
  BY <1>5, <1>6

LEMMA ListChildrenStep == ASSUME IInv, NEW q \in Requests, ListChildren(q) PROVE IInv'
<1>a. PICK k, old, p, C : /\ k = req[q].listed /\ old = req[q].found
                          /\ p = PathOf(q, k) /\ C = Children(q)
  OBVIOUS
<1> DEFINE L == Len(old)
<1>1. /\ At(q, "list") /\ k <= L
      /\ UNCHANGED <<parent, moves, setting, cache, mixed, post, job>>
  BY <1>a DEF ListChildren
<1>2. PICK t \in SetToSeqs(C) : Become(q, [req[q] EXCEPT !.found = @ \o t, !.listed = @ + 1])
  BY <1>a DEF ListChildren
<1>3. /\ k \in Nat /\ L \in Nat /\ old \in Seq(Paths) /\ DOMAIN old = 1 .. L
      /\ p \in Paths
      /\ C = {Append(p, f) : f \in {f \in Folders : parent[f] = PlaceOf(q, k)}}
  BY <1>a, <1>1, NextIs
<1>4. \A c \in C : c \in Paths /\ c # <<>> /\ Front(c) = p
  BY <1>3, PathOn
<1>5. IsFiniteSet(C)
  <2> DEFINE g == [c \in C |-> Last(c)]
  <2>1. \A c \in C : Last(c) \in Folders /\ c = Append(p, Last(c))
    BY <1>3, PathOn
  <2>2. g \in Injection(C, Folders)
    BY <2>1 DEF Injection, IsInjective
  <2> HIDE DEF g
  <2> QED
    BY <2>2, FS_Injection, DriveFoldersAssumption
<1>6. t \in Seq(C) /\ ToSet(t) = C /\ \A i, j \in DOMAIN t : t[i] = t[j] => i = j
  BY <1>5, OrderOfSet
<1>7. t \in Seq(Paths) /\ Len(t) \in Nat /\ DOMAIN t = 1 .. Len(t) /\ \A i \in DOMAIN t : t[i] \in C
  <2>1. C \subseteq Paths
    BY <1>4
  <2> QED
    BY <1>6, <2>1, SeqMonotonic, LenProperties, ElementOfSeq
<1> DEFINE new == old \o t
<1> HIDE DEF L
<1>8. /\ new \in Seq(Paths) /\ Len(new) = L + Len(t) /\ DOMAIN new = 1 .. (L + Len(t))
      /\ \A i \in 1 .. L : new[i] = old[i]
      /\ \A i \in 1 .. (L + Len(t)) : i > L => i - L \in DOMAIN t /\ new[i] = t[i - L]
  <2>1. /\ old \o t \in Seq(Paths) /\ Len(old \o t) = Len(old) + Len(t)
        /\ \A i \in 1 .. Len(old) + Len(t) :
             (old \o t)[i] = IF i <= Len(old) THEN old[i] ELSE t[i - Len(old)]
    BY <1>3, <1>7, ConcatProperties
  <2>2. DOMAIN new = 1 .. Len(new)
    BY <2>1, LenProperties
  <2> QED
    BY <1>3, <1>7, <2>1, <2>2 DEF L
<1> DEFINE s == [req[q] EXCEPT !.found = new, !.listed = k + 1]
<1>9. Become(q, s)
  BY <1>a, <1>2
<1> HIDE DEF new
<1>10. req[q] \in States /\ Knows(q)
  BY Now
<1>11. s \in States
  <2>1. k + 1 \in Nat /\ new \in Seq(Paths)
    BY <1>3, <1>8
  <2> QED
    BY <1>10, <2>1 DEF States
<1>12. /\ s.pc = "list" /\ s.root = req[q].root /\ s.found = new /\ s.listed = k + 1
       /\ s.put = req[q].put /\ s.moved = req[q].moved
  BY <1>1, <1>10 DEF States, At
<1>13. req'[q] = s
  BY <1>9, Became
<1> HIDE DEF s
<1>14. \A j \in 0 .. L : PathOf(q, j)' = PathOf(q, j) /\ PlaceOf(q, j)' = PlaceOf(q, j)
  BY <1>a, <1>3, <1>8, <1>12, <1>13 DEF PathOf, PlaceOf, L
<1>15. IsSound(q)'
  BY <1>1, <1>3, <1>7, <1>8, <1>10, <1>12, <1>13, <1>a DEF Knows, IsSound, At, L
<1>16. PostIsChosen(q)' /\ UploadIsChosen(q)'
  BY <1>1, <1>10, <1>12, <1>13 DEF Knows, IsSound, PostIsChosen, UploadIsChosen, IsPost, At
<1>17. IsFoundOnce(q)'
  <2> SUFFICES ASSUME NEW i \in DOMAIN new
               PROVE  /\ new[i] # <<>>
                      /\ \E j \in 0 .. k : j < i /\ PathOf(q, j)' = Front(new[i])
                      /\ \A j \in DOMAIN new : new[i] = new[j] => i = j
    BY <1>3, <1>12, <1>13 DEF IsFoundOnce
  <2>1. ASSUME NEW a \in 1 .. L, NEW b \in DOMAIN t PROVE old[a] # t[b]
    <3>1. PICK f \in Folders : t[b] = Append(p, f)
      BY <1>3, <1>7
    <3>2. a \in DOMAIN req[q].found /\ old[a] = req[q].found[a] /\ p = PathOf(q, req[q].listed)
      BY <1>3, <1>a
    <3>3. req[q].listed <= Len(req[q].found)
      BY <1>1, <1>a DEF L
    <3> QED
      BY <1>1, <3>1, <3>2, <3>3, ChildrenAreNew
  <2>2. CASE i <= L
    <3>1. i \in 1 .. L /\ new[i] = old[i] /\ i \in DOMAIN old
      BY <1>3, <1>7, <1>8, <2>2
    <3>2. /\ old[i] # <<>>
          /\ \E j \in 0 .. k - 1 : j < i /\ PathOf(q, j) = Front(old[i])
          /\ \A j \in DOMAIN old : old[i] = old[j] => i = j
      BY <1>10, <1>a, <3>1 DEF Knows, IsFoundOnce
    <3>3. PICK j \in 0 .. k - 1 : j < i /\ PathOf(q, j) = Front(old[i])
      BY <3>2
    <3>4. j \in 0 .. k /\ j < i /\ PathOf(q, j)' = Front(new[i])
      BY <1>3, <1>14, <3>1, <3>3
    <3>5. ASSUME NEW b \in DOMAIN new, new[i] = new[b] PROVE i = b
      <4>1. CASE b <= L
        <5>1. b \in DOMAIN old /\ new[b] = old[b]
          BY <1>3, <1>7, <1>8, <4>1
        <5> QED
          BY <3>1, <3>2, <3>5, <5>1
      <4>2. CASE b > L
        <5>1. b - L \in DOMAIN t /\ new[b] = t[b - L]
          BY <1>7, <1>8, <4>2
        <5> QED
          BY <2>1, <3>1, <3>5, <5>1
      <4> QED
        BY <1>3, <1>7, <1>8, <4>1, <4>2
    <3> QED
      BY <3>1, <3>2, <3>4, <3>5
  <2>3. CASE i > L
    <3>1. i - L \in DOMAIN t /\ new[i] = t[i - L] /\ new[i] \in C
      BY <1>7, <1>8, <2>3
    <3>2. new[i] # <<>> /\ Front(new[i]) = p
      BY <1>4, <3>1
    <3>3. k \in 0 .. k /\ k < i /\ PathOf(q, k)' = Front(new[i])
      <4>1. k \in 0 .. L
        BY <1>1, <1>3
      <4>2. PathOf(q, k)' = p
        BY <1>14, <1>a, <4>1
      <4> QED
        BY <1>1, <1>3, <1>7, <1>8, <2>3, <3>2, <4>1, <4>2
    <3>4. ASSUME NEW b \in DOMAIN new, new[i] = new[b] PROVE i = b
      <4>1. CASE b <= L
        BY <1>3, <1>7, <1>8, <2>1, <3>1, <3>4, <4>1
      <4>2. CASE b > L
        <5>1. b - L \in DOMAIN t /\ new[b] = t[b - L]
          BY <1>7, <1>8, <4>2
        <5>2. i - L = b - L
          BY <1>6, <3>1, <3>4, <5>1
        <5> QED
          BY <1>3, <1>7, <1>8, <5>2
      <4> QED
        BY <1>3, <1>7, <1>8, <4>1, <4>2
    <3> QED
      BY <3>2, <3>3, <3>4
  <2> QED
    BY <1>3, <1>7, <1>8, <2>2, <2>3
<1>18. IsTrue(q)'
  <2> SUFFICES ASSUME ~req[q].moved
               PROVE  /\ \A i \in DOMAIN new : \A n \in DOMAIN new[i] :
                           parent[new[i][n]] = IF n = 1 THEN req[q].root ELSE new[i][n - 1]
                      /\ \A j \in 0 .. k, f \in Folders :
                           parent[f] = PlaceOf(q, j)' => Append(PathOf(q, j)', f) \in ToSet(new)
    BY <1>1, <1>3, <1>12, <1>13 DEF IsTrue
  <2>1. /\ \A i \in DOMAIN old : \A n \in DOMAIN old[i] :
             parent[old[i][n]] = IF n = 1 THEN req[q].root ELSE old[i][n - 1]
        /\ \A j \in 0 .. k - 1, f \in Folders :
             parent[f] = PlaceOf(q, j) => Append(PathOf(q, j), f) \in ToSet(old)
    BY <1>1, <1>10, <1>a DEF Knows, IsTrue
  <2>2. ASSUME NEW i \in DOMAIN new, NEW n \in DOMAIN new[i]
        PROVE  parent[new[i][n]] = IF n = 1 THEN req[q].root ELSE new[i][n - 1]
    <3>1. CASE i <= L
      BY <1>3, <1>7, <1>8, <2>1, <3>1
    <3>2. CASE i > L
      <4>1. PICK f \in Folders : new[i] = Append(p, f) /\ parent[f] = PlaceOf(q, k)
        BY <1>3, <1>7, <1>8, <3>2
      <4>2. /\ new[i] \in Seq(Folders) /\ Len(new[i]) = Len(p) + 1 /\ Len(p) \in Nat
            /\ \A m \in 1 .. Len(p) : new[i][m] = p[m]
            /\ new[i][Len(p) + 1] = f
        <5>1. new[i] \in Paths /\ Len(new[i]) = Len(p) + 1 /\ Last(new[i]) = f
          BY <1>3, <4>1, PathOn
        <5>2. \A m \in 1 .. Len(p) : new[i][m] = p[m]
          BY <1>3, <4>1, PathOn
        <5> QED
          BY <1>3, <5>1, <5>2 DEF Paths, Last
      <4>3. DOMAIN new[i] = 1 .. Len(p) + 1
        BY <4>2, LenProperties
      <4>4. CASE k = 0
        <5>1. p = <<>> /\ PlaceOf(q, k) = req[q].root
          BY <1>a, <4>4 DEF PathOf, PlaceOf
        <5> QED
          BY <4>1, <4>2, <4>3, <5>1
      <4>5. CASE k # 0
        <5>1. k \in DOMAIN old /\ p = old[k] /\ PlaceOf(q, k) = Last(p) /\ p # <<>>
          BY <1>a, <1>1, <1>3, <1>10, <4>5 DEF PathOf, PlaceOf, L, Knows, IsFoundOnce
        <5>2. Len(p) >= 1 /\ DOMAIN p = 1 .. Len(p) /\ Last(p) = p[Len(p)]
          BY <1>3, <5>1, EmptySeq, LenProperties DEF Paths, Last
        <5>3. CASE n = Len(p) + 1
          BY <4>1, <4>2, <5>1, <5>2, <5>3
        <5>4. CASE n # Len(p) + 1
          <6>1. n \in 1 .. Len(p) /\ new[i][n] = p[n] /\ (n # 1 => new[i][n - 1] = p[n - 1])
            BY <4>2, <4>3, <5>4
          <6> QED
            BY <2>1, <5>1, <5>2, <6>1
        <5> QED
          BY <5>3, <5>4
      <4> QED
        BY <4>4, <4>5
    <3> QED
      BY <1>3, <1>7, <1>8, <3>1, <3>2
  <2>3. ToSet(old) \subseteq ToSet(new) /\ C \subseteq ToSet(new)
    <3>1. ASSUME NEW i \in 1 .. L PROVE old[i] \in ToSet(new)
      <4>1. i \in DOMAIN new /\ new[i] = old[i]
        BY <1>3, <1>7, <1>8
      <4> QED
        BY <4>1 DEF ToSet
    <3>2. ASSUME NEW i \in DOMAIN t PROVE t[i] \in ToSet(new)
      <4>1. i + L \in DOMAIN new /\ new[i + L] = t[i]
        BY <1>3, <1>7, <1>8
      <4> QED
        BY <4>1 DEF ToSet
    <3> QED
      BY <1>3, <1>6, <3>1, <3>2 DEF ToSet
  <2>4. ASSUME NEW j \in 0 .. k, NEW f \in Folders, parent[f] = PlaceOf(q, j)'
        PROVE  Append(PathOf(q, j)', f) \in ToSet(new)
    <3>1. j \in 0 .. L
      BY <1>1, <1>3
    <3>2. parent[f] = PlaceOf(q, j) /\ PathOf(q, j)' = PathOf(q, j)
      BY <1>14, <2>4, <3>1
    <3>3. CASE j = k
      BY <1>3, <1>a, <2>3, <3>2, <3>3
    <3>4. CASE j # k
      BY <1>3, <2>1, <2>3, <3>2, <3>4
    <3> QED
      BY <3>3, <3>4
  <2> QED
    BY <2>2, <2>4
<1>19. Knows(q)'
  BY <1>15, <1>16, <1>17, <1>18 DEF Knows
<1> QED
  BY <1>1, <1>9, <1>11, <1>12, <1>19, QuietStep

LEMMA FinishTraversalStep == ASSUME IInv, NEW q \in Requests, FinishTraversal(q) PROVE IInv'
<1> DEFINE s == [req[q] EXCEPT !.pc = "delete", !.moved = FALSE]
<1>1. /\ At(q, "list") /\ Become(q, s)
      /\ UNCHANGED <<parent, moves, setting, cache, mixed, post, job>>
  BY DEF FinishTraversal
<1>2. req[q] \in States /\ Knows(q)
  BY Now
<1>3. s \in States
  BY <1>2 DEF States, RequestPCs
<1>4. /\ s.pc = "delete" /\ s.root = req[q].root /\ s.found = req[q].found
      /\ s.listed = req[q].listed /\ s.put = req[q].put
  BY <1>2 DEF States
<1>5. req'[q] = s
  BY <1>1, Became
<1> HIDE DEF s
<1>6. IsSound(q)'
  BY <1>1, <1>2, <1>4, <1>5 DEF Knows, IsSound, At, IsPost
<1>7. PostIsChosen(q)' /\ UploadIsChosen(q)'
  BY <1>1, <1>2, <1>4, <1>5 DEF Knows, IsSound, PostIsChosen, UploadIsChosen, At, IsPost
<1>8. IsFoundOnce(q)' /\ IsTrue(q)'
  BY <1>2, <1>4, <1>5, NothingFound
<1>9. Knows(q)'
  BY <1>6, <1>7, <1>8 DEF Knows
<1> QED
  BY <1>1, <1>3, <1>4, <1>9, QuietStep

-----------------------------------------------------------------------------
(* The transactions of refreshes.                                          *)

\* A refresh that begins is seen by those that have begun.
LEMMA BeginDeleteStep == ASSUME IInv, NEW q \in Requests, BeginDelete(q) PROVE IInv'
<1> DEFINE s == [req[q] EXCEPT !.pc = "wait", !.gone = cache[req[q].root],
                               !.lone = Rivals(q) = {}]
<1>1. /\ At(q, "delete")
      /\ UNCHANGED <<parent, moves, setting, cache, mixed, post, job>>
      /\ req' = [p \in Requests |->
           IF p = q THEN s ELSE [req[p] EXCEPT !.lone = @ /\ p \notin Rivals(q)]]
  BY DEF BeginDelete
<1>2. req[q] \in States /\ Knows(q) /\ TypeOK
  BY Now
<1>3. req[q].root \in Roots /\ job[q].kind = "refresh" /\ req[q].put = 0
  BY <1>1, <1>2 DEF Knows, IsSound, At
<1>4. s \in States
  <2>1. cache[req[q].root] \in SUBSET Rows
    BY <1>2, <1>3 DEF TypeOK
  <2>2. \A l \in BOOLEAN, g \in SUBSET Rows :
          [req[q] EXCEPT !.pc = "wait", !.gone = g, !.lone = l] \in States
    BY <1>2 DEF States, RequestPCs
  <2>3. (Rivals(q) = {}) \in BOOLEAN
    OBVIOUS
  <2> QED
    BY <2>1, <2>2, <2>3
<1>5. /\ s.pc = "wait" /\ s.root = req[q].root /\ s.found = req[q].found
      /\ s.listed = req[q].listed /\ s.put = req[q].put /\ s.gone = cache[req[q].root]
      /\ s.lone => Rivals(q) = {}
  BY <1>2 DEF States
<1>6. req'[q] = s
  BY <1>1
<1> HIDE DEF s
<1>7. ASSUME NEW p \in Requests, p # q
      PROVE  /\ req'[p] \in States
             /\ p \notin Rivals(q) => req'[p] = req[p]
             /\ p \in Rivals(q) => req'[p] = [req[p] EXCEPT !.lone = FALSE]
  <2>1. req'[p] = [req[p] EXCEPT !.lone = @ /\ p \notin Rivals(q)]
    BY <1>1, <1>7
  <2>2. req[p] \in States /\ req[p].lone \in BOOLEAN
    BY Now, Fields
  <2>3. CASE p \in Rivals(q)
    <3>1. req'[p] = [req[p] EXCEPT !.lone = FALSE]
      BY <2>1, <2>3
    <3> QED
      BY <2>2, <2>3, <3>1 DEF States
  <2>4. CASE p \notin Rivals(q)
    <3>1. (req[p].lone /\ p \notin Rivals(q)) = req[p].lone
      BY <2>2, <2>4
    <3>2. req'[p] = [req[p] EXCEPT !.lone = req[p].lone]
      BY <2>1, <3>1
    <3>3. req'[p] = req[p]
      BY <2>2, <3>2 DEF States
    <3> QED
      BY <2>2, <2>4, <3>3
  <2> QED
    BY <2>3, <2>4
<1>8. ASSUME NEW p \in Requests, p # q
      PROVE  SameReplacing(p) /\ (req'[p].lone => req[p].lone /\ p \notin Rivals(q))
  <2>1. req[p] \in States
    BY Now
  <2> QED
    BY <1>7, <1>8, <2>1 DEF SameReplacing, States
<1>9. ASSUME NEW p \in Requests PROVE Knows(p)'
  <2>1. CASE p = q
    <3>1. IsSound(q)'
      BY <1>1, <1>2, <1>3, <1>5, <1>6 DEF Knows, IsSound, At, IsPost
    <3>2. PostIsChosen(q)' /\ UploadIsChosen(q)'
      BY <1>1, <1>3, <1>5, <1>6 DEF PostIsChosen, UploadIsChosen, At, IsPost
    <3>3. IsFoundOnce(q)' /\ IsTrue(q)'
      BY <1>2, <1>5, <1>6, NothingFound
    <3> QED
      BY <2>1, <3>1, <3>2, <3>3 DEF Knows
  <2>2. CASE p # q /\ p \notin Rivals(q)
    BY <1>1, <1>7, <2>2, Now, KnowsStill
  <2>3. CASE p # q /\ p \in Rivals(q)
    <3>1. req[p] \in States /\ Knows(p) /\ req[p].late \in BOOLEAN /\ ~At(p, "new") /\ ~At(p, "list")
      BY <2>3, Now, Fields DEF Rivals, At
    <3>2. /\ \A x \in {"pc", "root", "found", "listed", "put", "target", "video", "fell"} :
               req'[p][x] = req[p][x]
          /\ req'[p].late = req[p].late
      BY <1>7, <2>3, <3>1 DEF States
    <3> QED
      BY <1>1, <3>1, <3>2, KnowsSame
  <2> QED
    BY <2>1, <2>2, <2>3
<1>10. ASSUME NEW p \in Requests, p # q PROVE IsApart(p)'
  <2> SUFFICES ASSUME Replacing(p) PROVE IsApart(p)'
    BY <1>8, <1>10 DEF IsApart, Replacing, SameReplacing
  <2>1. IsApart(p)
    BY Now
  <2>2. req'[p].lone => req[p].lone /\ Rivals(p)' \subseteq Rivals(p)
    <3> SUFFICES ASSUME req'[p].lone, NEW o \in Rivals(p)' PROVE o \in Rivals(p)
      BY <1>8, <1>10
    <3>1. o # q
      BY <1>5, <1>6, <1>8, <1>10 DEF Rivals, Replacing, SameReplacing
    <3> QED
      BY <1>8, <1>10, <3>1 DEF Rivals, SameReplacing
  <2>3. ASSUME NEW f, NEW o \in Holders(p, f)' PROVE o \in Holders(p, f)
    <3>1. o # q
      BY <1>5, <1>6 DEF Holders, At
    <3>2. SameReplacing(o) /\ SameReplacing(p) /\ o \in Requests \ {p}
      BY <1>8, <1>10, <3>1 DEF Holders, Rivals
    <3>3. Inserted(o)' = Inserted(o) /\ o \in Rivals(p)
      BY <3>2 DEF Inserted, SameReplacing, Rivals, Holders
    <3> QED
      BY <3>2, <3>3 DEF Holders, SameReplacing, At, Folder
  <2> QED
    BY <1>1, <1>8, <1>10, <2>1, <2>2, <2>3, ApartStill
<1>11. IsApart(q)'
  <2>1. Rivals(q)' = Rivals(q)
    BY <1>5, <1>6, <1>8 DEF Rivals, SameReplacing
  <2> QED
    BY <1>1, <1>5, <1>6, <2>1 DEF IsApart, At
<1>12. TypeOK'
  <2>1. req' \in [Requests -> States]
    BY <1>1, <1>4, <1>6, <1>7
  <2> QED
    BY <1>1, <1>2, <2>1 DEF TypeOK
<1>13. (job \in Mixes /\ IsForest(parent))' /\ VideosHaveTargets' /\ CacheIsATree'
  BY <1>1 DEF IInv, IsForest, Below, VideosHaveTargets, CacheIsATree
<1> QED
  BY <1>9, <1>10, <1>11, <1>12, <1>13 DEF IInv, Knows

\* A refresh that goes on with folders that no other holds leaves the others apart.
LEMMA OthersStayApart ==
  ASSUME IInv, NEW q \in Requests, NEW s, Become(q, s), UNCHANGED cache, Replacing(q),
         s.pc = "insert", s.root = req[q].root,
         \A w \in req'[q].gone \cup Inserted(q)' : Holders(q, Folder(w)) = {},
         NEW p \in Requests, p # q
  PROVE  IsApart(p)'
<1>1. req'[q] = s /\ \A o \in Requests \ {q} : req'[o] = req[o]
  BY Became
<1>2. SameReplacing(p) /\ req'[p].lone = req[p].lone /\ IsApart(p)
  BY <1>1, Now DEF SameReplacing
<1>3. Rivals(p)' \subseteq Rivals(p)
  BY <1>1 DEF Rivals, Replacing
<1>4. ASSUME At(p, "insert"), NEW w \in req[p].gone \cup Inserted(p),
             NEW o \in Holders(p, Folder(w))'
      PROVE  o \in Holders(p, Folder(w))
  <2>1. o \in Rivals(p) /\ \E v \in req'[o].gone \cup Inserted(o)' : Folder(v) = Folder(w)
    BY <1>3, <1>4 DEF Holders, Folder
  <2>2. CASE o = q
    <3>1. PICK v \in req'[q].gone \cup Inserted(q)' : Folder(v) = Folder(w)
      BY <2>1, <2>2
    <3>2. p \in Rivals(q)
      BY <1>2, <1>4, <2>1, <2>2 DEF Rivals, At
    <3>3. p \in Holders(q, Folder(w))
      BY <1>4, <3>2 DEF Holders
    <3> QED
      BY <3>1, <3>3
  <2>3. CASE o # q
    <3>1. req'[o] = req[o] /\ Inserted(o)' = Inserted(o)
      BY <1>1, <2>1, <2>3 DEF Rivals, Inserted
    <3> QED
      BY <1>4, <2>1, <3>1 DEF Holders, At, Folder
  <2> QED
    BY <2>2, <2>3
<1> QED
  BY <1>2, <1>3, <1>4, ApartStill

\* ... and sees the same of them.
LEMMA SameView ==
  ASSUME IInv, NEW q \in Requests, NEW s, Become(q, s), s.root = req[q].root
  PROVE  Rivals(q)' = Rivals(q) /\ \A f : Holders(q, f)' = Holders(q, f)
<1>1. req'[q] = s /\ \A o \in Requests \ {q} : req'[o] = req[o]
  BY Became
<1>2. Rivals(q)' = Rivals(q)
  BY <1>1 DEF Rivals
<1>3. \A o \in Rivals(q) : req'[o] = req[o] /\ Inserted(o)' = Inserted(o)
  BY <1>1 DEF Rivals, Inserted
<1>4. ASSUME NEW f PROVE Holders(q, f)' = Holders(q, f)
  BY <1>2, <1>3 DEF Holders, At, Folder
<1> QED
  BY <1>2, <1>4

LEMMA EndDeleteStep == ASSUME IInv, NEW q \in Requests, EndDelete(q) PROVE IInv'
<1> DEFINE g == req[q].gone \cap cache[req[q].root]
           s == [req[q] EXCEPT !.pc = "insert", !.gone = g]
<1>1. /\ At(q, "wait") /\ Become(q, s)
      /\ \A w \in req[q].gone : Holders(q, Folder(w)) = {}
      /\ UNCHANGED <<parent, moves, setting, cache, mixed, post, job>>
  BY DEF EndDelete
<1>2. req[q] \in States /\ Knows(q) /\ IsApart(q) /\ req[q].gone \in SUBSET Rows
  BY Now, Fields
<1>3. s \in States
  <2>1. g \in SUBSET Rows
    BY <1>2
  <2> HIDE DEF g
  <2> QED
    BY <1>2, <2>1 DEF States, RequestPCs
<1>4. /\ s.pc = "insert" /\ s.root = req[q].root /\ s.found = req[q].found
      /\ s.listed = req[q].listed /\ s.put = req[q].put /\ s.gone = g /\ s.lone = req[q].lone
  BY <1>2 DEF States
<1>5. req'[q] = s
  BY <1>1, Became
<1>6. req[q].put = 0
  BY <1>1, <1>2 DEF Knows, IsSound, At
<1> HIDE DEF s
<1>7. IsSound(q)'
  BY <1>1, <1>2, <1>4, <1>5 DEF Knows, IsSound, At, IsPost
<1>8. PostIsChosen(q)' /\ UploadIsChosen(q)'
  BY <1>1, <1>2, <1>4, <1>5 DEF Knows, IsSound, PostIsChosen, UploadIsChosen, At, IsPost
<1>9. IsFoundOnce(q)' /\ IsTrue(q)'
  BY <1>2, <1>4, <1>5, NothingFound
<1>10. Inserted(q)' = {}
  BY <1>4, <1>5, <1>6 DEF Inserted
<1>11. ASSUME NEW p \in Requests, p # q PROVE IsApart(p)'
  BY <1>1, <1>4, <1>5, <1>10, <1>11, OthersStayApart DEF Replacing, At
<1>12. IsApart(q)'
  <2>1. Rivals(q)' = Rivals(q) /\ \A w \in s.gone : Holders(q, Folder(w))' = {}
    BY <1>1, <1>4, SameView DEF Folder
  <2>2. s.lone => Rivals(q) = {} /\ s.gone = cache[s.root]
    BY <1>1, <1>2, <1>4 DEF IsApart, At
  <2>3. s.gone \subseteq cache[s.root]
    BY <1>4
  <2>4. \A i, j \in 1 .. s.put : Last(s.found[i]) = Last(s.found[j]) => i = j
    <3>1. 1 .. s.put = {}
      BY <1>4, <1>6
    <3> QED
      BY <3>1
  <2>5. \A w \in s.gone \cup Inserted(q)' : Holders(q, Folder(w))' = {}
    BY <1>10, <2>1
  <2> QED
    BY <1>1, <1>5, <1>10, <2>1, <2>2, <2>3, <2>4, <2>5 DEF IsApart, At, Folder
<1> QED
  BY <1>1, <1>3, <1>7, <1>8, <1>9, <1>11, <1>12, OwnStep DEF Knows

LEMMA InsertFolderStep == ASSUME IInv, NEW q \in Requests, InsertFolder(q) PROVE IInv'
<1> DEFINE s == [req[q] EXCEPT !.put = @ + 1]
<1>1. /\ At(q, "insert") /\ req[q].put < Len(req[q].found) /\ Become(q, s)
      /\ UNCHANGED <<parent, moves, setting, cache, mixed, post, job>>
  BY DEF InsertFolder
<1>2. PICK n, f : /\ n = req[q].put + 1 /\ f = Last(req[q].found[n])
                  /\ Holders(q, f) = {} /\ ~Repeated(q, f)
  BY DEF InsertFolder
<1>3. /\ req[q] \in States /\ Knows(q) /\ IsApart(q) /\ req[q].put \in Nat
      /\ req[q].found \in Seq(Paths) /\ Len(req[q].found) \in Nat
  BY Now, Fields
<1>4. s \in States
  <2>1. req[q].put + 1 \in Nat
    BY <1>3
  <2> QED
    BY <1>3, <2>1 DEF States
<1>5. /\ s.pc = "insert" /\ s.root = req[q].root /\ s.found = req[q].found /\ s.gone = req[q].gone
      /\ s.listed = req[q].listed /\ s.put = n /\ s.lone = req[q].lone
  BY <1>1, <1>2, <1>3 DEF States, At
<1>6. req'[q] = s
  BY <1>1, Became
<1> HIDE DEF s
<1>7. IsSound(q)'
  BY <1>1, <1>2, <1>3, <1>5, <1>6 DEF Knows, IsSound, At, IsPost
<1>8. PostIsChosen(q)' /\ UploadIsChosen(q)'
  BY <1>1, <1>3, <1>5, <1>6 DEF Knows, IsSound, PostIsChosen, UploadIsChosen, At, IsPost
<1>9. IsFoundOnce(q)' /\ IsTrue(q)'
  BY <1>3, <1>5, <1>6, NothingFound
<1>10. ASSUME NEW w \in Inserted(q)' PROVE w \in Inserted(q) \/ Folder(w) = f
  <2>1. PICK i \in 1 .. n : w = [path |-> req[q].found[i], by |-> q]
    BY <1>5, <1>6 DEF Inserted
  <2>2. i \in 1 .. req[q].put \/ i = n
    BY <1>2, <1>3
  <2> QED
    BY <1>2, <2>1, <2>2 DEF Inserted, Folder
<1>11. \A w \in s.gone \cup Inserted(q)' : Holders(q, Folder(w)) = {}
  <2>1. \A w \in req[q].gone \cup Inserted(q) : Holders(q, Folder(w)) = {}
    BY <1>1, <1>3 DEF IsApart, At
  <2> QED
    BY <1>2, <1>5, <1>10, <2>1
<1>12. ASSUME NEW p \in Requests, p # q PROVE IsApart(p)'
  BY <1>1, <1>5, <1>6, <1>11, <1>12, OthersStayApart DEF Replacing, At
<1>13. IsApart(q)'
  <2>1. Rivals(q)' = Rivals(q) /\ \A w \in s.gone \cup Inserted(q)' : Holders(q, Folder(w))' = {}
    BY <1>1, <1>5, <1>11, SameView DEF Folder
  <2>2. s.lone => Rivals(q) = {} /\ s.gone = cache[s.root]
    BY <1>1, <1>3, <1>5 DEF IsApart, At
  <2>3. s.gone \subseteq cache[s.root]
    BY <1>1, <1>3, <1>5 DEF IsApart, At
  <2>4. ASSUME NEW v \in cache[s.root] \ s.gone, NEW w \in Inserted(q)' PROVE Folder(v) # Folder(w)
    <3>1. w \in Inserted(q) => Folder(v) # Folder(w)
      BY <1>1, <1>3, <1>5 DEF IsApart, At
    <3>2. Folder(v) # f
      BY <1>2, <1>5 DEF Repeated
    <3> QED
      BY <1>10, <3>1, <3>2
  <2>5. ASSUME NEW i \in 1 .. n, NEW j \in 1 .. n, Last(req[q].found[i]) = Last(req[q].found[j])
        PROVE  i = j
    <3>1. \A k \in 1 .. req[q].put : Last(req[q].found[k]) # f
      <4>1. ASSUME NEW k \in 1 .. req[q].put PROVE Last(req[q].found[k]) # f
        <5>1. [path |-> req[q].found[k], by |-> q] \in Inserted(q)
          BY DEF Inserted
        <5>2. Folder([path |-> req[q].found[k], by |-> q]) # f
          BY <1>2, <5>1 DEF Repeated
        <5> QED
          BY <5>2 DEF Folder
      <4> QED
        BY <4>1
    <3>2. \A k, l \in 1 .. req[q].put : Last(req[q].found[k]) = Last(req[q].found[l]) => k = l
      BY <1>1, <1>3 DEF IsApart, At
    <3>3. \A k \in 1 .. n : k \in 1 .. req[q].put \/ k = n
      BY <1>2, <1>3
    <3> QED
      BY <1>2, <2>5, <3>1, <3>2, <3>3
  <2> QED
    BY <1>1, <1>5, <1>6, <2>1, <2>2, <2>3, <2>4, <2>5 DEF IsApart, At, Folder
<1> QED
  BY <1>1, <1>4, <1>7, <1>8, <1>9, <1>12, <1>13, OwnStep DEF Knows

\* What a refresh has inserted are rows.
LEMMA InsertedRows ==
  ASSUME IInv, NEW q \in Requests
  PROVE  \A w \in Inserted(q) :
           /\ w \in Rows /\ w.by = q
           /\ \E i \in 1 .. req[q].put : i \in DOMAIN req[q].found /\ w.path = req[q].found[i]
<1> SUFFICES ASSUME NEW w \in Inserted(q)
             PROVE  /\ w \in Rows /\ w.by = q
                    /\ \E i \in 1 .. req[q].put : i \in DOMAIN req[q].found /\ w.path = req[q].found[i]
  OBVIOUS
<1>1. PICK i \in 1 .. req[q].put : w = [path |-> req[q].found[i], by |-> q]
  BY DEF Inserted
<1>2. /\ req[q].found \in Seq(Paths) /\ req[q].put \in Nat /\ Knows(q)
      /\ Len(req[q].found) \in Nat
  BY Now, Fields
<1>3. i \in DOMAIN req[q].found
  BY <1>2 DEF Knows, IsSound
<1>4. req[q].found[i] \in Paths \ {<<>>}
  BY <1>2, <1>3 DEF Knows, IsFoundOnce
<1> QED
  BY <1>1, <1>3, <1>4 DEF Rows

\* A refresh that commits leaves what the others hold.
LEMMA CommitApart ==
  ASSUME IInv, NEW q \in Requests, CommitRefresh(q), NEW p \in Requests
  PROVE  IsApart(p)'
<1> DEFINE root == req[q].root
           new == (cache[root] \ req[q].gone) \cup Inserted(q)
<1>1. /\ At(q, "insert") /\ BecomeWriter(q, Done) /\ UNCHANGED <<parent, job>>
      /\ cache' = [cache EXCEPT ![root] = new]
  BY DEF CommitRefresh
<1>2. \A o \in Requests : Replacing(o)' => o # q /\ SameReplacing(o) /\ req'[o].lone = req[o].lone
  BY <1>1, WriterStep
<1> SUFFICES ASSUME Replacing(p)' PROVE IsApart(p)'
  BY DEF IsApart, Replacing
<1>3. p # q /\ SameReplacing(p) /\ req'[p].lone = req[p].lone /\ IsApart(p) /\ IsApart(q) /\ Replacing(p)
  BY <1>2, Now DEF SameReplacing, Replacing
<1>4. Rivals(p)' \subseteq Rivals(p) /\ \A f : Holders(p, f)' \subseteq Holders(p, f)
  BY <1>2, <1>3, SameRivals DEF SameReplacing
<1>5. root \in Roots /\ req[p].root \in Roots /\ cache \in [Roots -> SUBSET Rows]
  BY <1>1, <1>3, Now DEF Knows, IsSound, At, Replacing, TypeOK
<1> HIDE DEF new
<1>6. CASE req[p].root # root
  <2>1. cache'[req[p].root] = cache[req[p].root]
    BY <1>1, <1>5, <1>6
  <2> QED
    BY <1>3, <1>4, <2>1, ApartStill
<1>7. CASE req[p].root = root
  <2>1. cache'[root] = new
    BY <1>1, <1>5
  <2>2. q \in Rivals(p) /\ p \in Rivals(q)
    BY <1>1, <1>3, <1>7 DEF Rivals, At, Replacing
  <2>3. ~req[p].lone
    BY <1>3, <2>2 DEF IsApart, Replacing
  <2>4. Inserted(p)' = Inserted(p)
    BY <1>3 DEF Inserted, SameReplacing
  <2>5. ASSUME At(p, "insert"), NEW v \in req[q].gone \cup Inserted(q),
               NEW w \in req[p].gone \cup Inserted(p)
        PROVE  Folder(v) # Folder(w)
    <3>1. Holders(q, Folder(v)) = {}
      BY <1>1, <1>3 DEF IsApart, At
    <3> QED
      BY <2>2, <2>5, <3>1 DEF Holders
  <2>6. ASSUME At(p, "insert") PROVE req[p].gone \subseteq new
    <3>1. req[p].gone \subseteq cache[root]
      BY <1>3, <1>7, <2>6 DEF IsApart, At
    <3> QED
      BY <2>5, <2>6, <3>1 DEF new
  <2>7. ASSUME At(p, "insert"), NEW v \in new \ req[p].gone, NEW w \in Inserted(p)
        PROVE  Folder(v) # Folder(w)
    <3>1. \A o \in cache[root] \ req[p].gone : Folder(o) # Folder(w)
      BY <1>3, <1>7, <2>7 DEF IsApart, At
    <3> QED
      BY <2>5, <2>7, <3>1 DEF new
  <2>8. ASSUME At(p, "insert"), NEW w \in req[p].gone \cup Inserted(p)
        PROVE  Holders(p, Folder(w))' = {}
    <3>1. Holders(p, Folder(w)) = {}
      BY <1>3, <2>8 DEF IsApart, At
    <3> QED
      BY <1>4, <3>1 DEF Folder
  <2>9. ASSUME At(p, "insert"), NEW i \in 1 .. req[p].put, NEW j \in 1 .. req[p].put,
               Last(req[p].found[i]) = Last(req[p].found[j])
        PROVE  i = j
    BY <1>3, <2>9 DEF IsApart, At
  <2> QED
    BY <1>3, <1>7, <2>1, <2>3, <2>4, <2>6, <2>7, <2>8, <2>9
    DEF IsApart, SameReplacing, At, Folder
<1> QED
  BY <1>6, <1>7

\* The list that it leaves.
LEMMA CommitTree ==
  ASSUME IInv, NEW q \in Requests, CommitRefresh(q)
  PROVE  CacheIsATree'
<1> DEFINE root == req[q].root
           new == (cache[root] \ req[q].gone) \cup Inserted(q)
<1>1. /\ At(q, "insert") /\ req[q].put = Len(req[q].found)
      /\ cache' = [cache EXCEPT ![root] = new]
      /\ mixed' = IF req[q].lone THEN mixed \ {root} ELSE mixed \cup {root}
  BY DEF CommitRefresh
<1>2. IsApart(q) /\ Knows(q) /\ CacheIsATree /\ cache \in [Roots -> SUBSET Rows]
      /\ req[q].found \in Seq(Paths)
  BY Now, Fields DEF IInv, TypeOK
<1>3. root \in Roots
  BY <1>1, <1>2 DEF Knows, IsSound, At
<1> HIDE DEF new
<1>4. cache'[root] = new /\ \A r \in Roots \ {root} : cache'[r] = cache[r]
  BY <1>1, <1>2, <1>3
<1>5. ASSUME NEW v \in Inserted(q), NEW w \in Inserted(q), Folder(v) = Folder(w) PROVE v = w
  <2>1. PICK i, j \in 1 .. req[q].put : /\ v = [path |-> req[q].found[i], by |-> q]
                                        /\ w = [path |-> req[q].found[j], by |-> q]
    BY DEF Inserted
  <2>2. i = j
    BY <1>1, <1>2, <1>5, <2>1 DEF IsApart, At, Folder
  <2> QED
    BY <2>1, <2>2
<1>6. ASSUME NEW v \in cache[root] \ req[q].gone, NEW w \in Inserted(q) PROVE Folder(v) # Folder(w)
  BY <1>1, <1>2 DEF IsApart, At
<1>7. \A v, w \in cache[root] : Folder(v) = Folder(w) => v = w
  BY <1>2, <1>3 DEF CacheIsATree
<1>8. \A v, w \in new : Folder(v) = Folder(w) => v = w
  BY <1>5, <1>6, <1>7 DEF new
<1>9. ASSUME root \notin mixed', NEW v \in new, NEW w \in new
      PROVE  v.by = w.by /\ (Len(w.path) > 1 => \E u \in new : u.path = Front(w.path))
  <2>1. new = Inserted(q)
    BY <1>1, <1>2, <1>9 DEF IsApart, At, new
  <2>2. v.by = w.by
    BY <2>1, InsertedRows
  <2>3. ASSUME Len(w.path) > 1 PROVE \E u \in new : u.path = Front(w.path)
    <3>1. PICK i \in 1 .. req[q].put : i \in DOMAIN req[q].found /\ w.path = req[q].found[i]
      BY <2>1, InsertedRows
    <3>2. PICK k \in 0 .. req[q].listed - 1 : k < i /\ PathOf(q, k) = Front(w.path)
      BY <1>2, <3>1 DEF Knows, IsFoundOnce
    <3>3. w.path \in Paths /\ Len(w.path) \in Nat
      BY <1>2, <3>1 DEF Paths
    <3>4. Len(Front(w.path)) = Len(w.path) - 1
      BY <2>3, <3>3 DEF Front, Paths
    <3>5. k # 0
      BY <2>3, <3>2, <3>3, <3>4 DEF PathOf
    <3>6. k \in 1 .. req[q].put
      BY <1>1, <1>2, <3>1, <3>2, <3>5, Now, Fields
    <3>7. [path |-> req[q].found[k], by |-> q] \in new
      BY <2>1, <3>6 DEF Inserted
    <3> QED
      BY <3>2, <3>5, <3>7 DEF PathOf
  <2> QED
    BY <2>2, <2>3
<1>10. ASSUME NEW r \in Roots, r # root, r \notin mixed' PROVE r \notin mixed
  BY <1>1, <1>10
<1>11. \A v, w \in cache'[root] : Folder(v) = Folder(w) => v = w
  BY <1>4, <1>8
<1>12. root \notin mixed' => \A v, w \in cache'[root] :
         v.by = w.by /\ (Len(w.path) > 1 => \E u \in cache'[root] : u.path = Front(w.path))
  BY <1>4, <1>9
<1>13. ASSUME NEW r \in Roots, r # root
       PROVE  /\ \A v, w \in cache'[r] : Folder(v) = Folder(w) => v = w
              /\ r \notin mixed' => \A v, w \in cache'[r] :
                   v.by = w.by /\ (Len(w.path) > 1 => \E u \in cache'[r] : u.path = Front(w.path))
  BY <1>2, <1>4, <1>10, <1>13 DEF CacheIsATree
<1> QED
  BY <1>11, <1>12, <1>13 DEF CacheIsATree, Folder

LEMMA CommitRefreshStep == ASSUME IInv, NEW q \in Requests, CommitRefresh(q) PROVE IInv'
<1>1. /\ At(q, "insert") /\ BecomeWriter(q, Done)
      /\ UNCHANGED <<parent, moves, setting, post, job>>
      /\ cache' = [cache EXCEPT ![req[q].root] = (@ \ req[q].gone) \cup Inserted(q)]
      /\ mixed' = IF req[q].lone THEN mixed \ {req[q].root} ELSE mixed \cup {req[q].root}
  BY DEF CommitRefresh
<1>2. req' \in [Requests -> States] /\ (job \in Mixes /\ IsForest(parent))' /\ \A p \in Requests : Knows(p)'
  BY <1>1, WriterStep
<1>3. \A p \in Requests : IsApart(p)'
  BY CommitApart
<1>4. TypeOK'
  <2>1. TypeOK /\ Knows(q)
    BY Now
  <2>2. req[q].root \in Roots
    BY <1>1, <2>1 DEF Knows, IsSound, At
  <2>3. (cache[req[q].root] \ req[q].gone) \cup Inserted(q) \in SUBSET Rows
    BY <2>1, <2>2, InsertedRows DEF TypeOK
  <2>4. cache' \in [Roots -> SUBSET Rows]
    BY <1>1, <2>1, <2>3 DEF TypeOK
  <2>5. mixed' \subseteq Roots
    BY <1>1, <2>1, <2>2 DEF TypeOK
  <2> QED
    BY <1>1, <1>2, <2>1, <2>4, <2>5 DEF TypeOK
<1>5. VideosHaveTargets' /\ CacheIsATree'
  BY <1>1, CommitTree DEF IInv, VideosHaveTargets
<1> QED
  BY <1>2, <1>3, <1>4, <1>5 DEF IInv, Knows

LEMMA InsertRefusedStep == ASSUME IInv, NEW q \in Requests, InsertRefused(q) PROVE IInv'
BY EndStep DEF InsertRefused

LEMMA SendStep == ASSUME IInv, NEW q \in Requests, Send(q) PROVE IInv'
BY EndStep DEF Send

LEMMA FailStep == ASSUME IInv, NEW q \in Requests, Fail(q) PROVE IInv'
BY EndStep DEF Fail

-----------------------------------------------------------------------------
(* Paths below a root.                                                     *)

Less == OpToRel(<, Nat)

\* A set of numbers has a least one: what induction comes down to.
LEMMA LeastNat ==
  ASSUME NEW T \in SUBSET Nat, T # {}
  PROVE  \E x \in T : \A y \in T : x <= y
<1>1. IsWellFoundedOn(Less, Nat)
  BY NatLessThanWellFounded, Zenon DEF Less
<1>2. PICK x \in T : \A y \in T : ~(<<y, x>> \in Less)
  BY <1>1, WFMin
<1>3. Less = {p \in Nat \X Nat : p[1] < p[2]}
  BY DEF Less, OpToRel
<1>4. ASSUME NEW y \in T PROVE x <= y
  <2>1. x \in Nat /\ y \in Nat /\ <<y, x>> \in Nat \X Nat
    OBVIOUS
  <2>2. <<y, x>> \notin {p \in Nat \X Nat : p[1] < p[2]}
    BY <1>2, <1>3
  <2> QED
    BY <2>1, <2>2
<1> QED
  BY <1>4

\* Every folder of a path is in the one before it, and the first is in the root.
IsChain(up, r, p) ==
  /\ p \in Paths /\ p # <<>>
  /\ \A i \in 1 .. Len(p) : up[p[i]] = IF i = 1 THEN r ELSE p[i - 1]

LEMMA ChainLength ==
  ASSUME NEW up, NEW r, NEW p, IsChain(up, r, p)
  PROVE  /\ Len(p) \in Nat \ {0} /\ p \in [1 .. Len(p) -> Folders]
         /\ \A i \in 1 .. Len(p) : p[i] \in Folders
         /\ up[p[1]] = r /\ \A i \in 2 .. Len(p) : up[p[i]] = p[i - 1]
<1>1. Len(p) \in Nat \ {0} /\ p \in [1 .. Len(p) -> Folders]
  BY DEF IsChain, Paths
<1>2. ASSUME NEW i \in 2 .. Len(p) PROVE up[p[i]] = p[i - 1]
  <2>1. i \in 1 .. Len(p) /\ i # 1
    BY <1>1
  <2> QED
    BY <2>1 DEF IsChain
<1>3. 1 \in 1 .. Len(p)
  BY <1>1
<1>4. up[p[1]] = r
  BY <1>3 DEF IsChain
<1> QED
  BY <1>1, <1>2, <1>4

\* Without cycles the folders of a path differ.
LEMMA ChainsDoNotRepeat ==
  ASSUME NEW up \in [Folders -> Places], IsForest(up), NEW r \in Roots, NEW p, IsChain(up, r, p)
  PROVE  \A i, j \in 1 .. Len(p) : p[i] = p[j] => i = j
<1>1. ASSUME NEW i \in 1 .. Len(p), NEW j \in 1 .. Len(p), i < j PROVE p[i] # p[j]
  <2>1. Len(p) \in Nat /\ \A k \in 1 .. Len(p) : p[k] \in Folders
    BY ChainLength
  <2>2. Below(up, up[p[j]], p[i])
    <3> SUFFICES ASSUME NEW S \in SUBSET Places, up[p[j]] \in S, \A g \in S \cap Folders : up[g] \in S,
                        p[i] \notin S
                 PROVE  FALSE
      BY DEF Below
    <3> DEFINE T == {d \in Nat : d <= j - 1 - i /\ p[j - 1 - d] \notin S}
    <3>1. j - 1 - i \in T
      BY <1>1, <2>1
    <3>2. PICK d \in T : \A e \in T : d <= e
      BY <3>1, LeastNat
    <3>3. d # 0
      BY <1>1, <2>1, <3>2 DEF IsChain
    <3>4. d - 1 \in Nat /\ j - d \in 1 .. Len(p) /\ j - d # 1 /\ j - 1 - (d - 1) = j - d
      BY <1>1, <2>1, <3>2, <3>3
    <3>5. p[j - d] \in S
      <4>1. d - 1 \notin T
        BY <3>2, <3>4
      <4>2. d - 1 <= j - 1 - i
        BY <2>1, <3>2, <3>4
      <4> QED
        BY <3>4, <4>1, <4>2
    <3>6. up[p[j - d]] = p[j - d - 1]
      BY <3>4 DEF IsChain
    <3>7. j - d - 1 = j - 1 - d
      BY <2>1, <3>2
    <3> QED
      BY <2>1, <3>2, <3>4, <3>5, <3>6, <3>7
  <2> QED
    BY <2>1, <2>2 DEF IsForest
<1>2. Len(p) \in Nat
  BY ChainLength
<1> SUFFICES ASSUME NEW i \in 1 .. Len(p), NEW j \in 1 .. Len(p), p[i] = p[j] PROVE i = j
  OBVIOUS
<1>3. ~(i < j) /\ ~(j < i)
  BY <1>1
<1> QED
  BY <1>2, <1>3

\* ... so there are not more of them than folders.
LEMMA ChainsAreShort ==
  ASSUME NEW up \in [Folders -> Places], IsForest(up), NEW r \in Roots, NEW p, IsChain(up, r, p)
  PROVE  Len(p) <= Cardinality(Folders)
<1>1. Len(p) \in Nat /\ p \in [1 .. Len(p) -> Folders]
  BY ChainLength
<1>2. p \in Injection(1 .. Len(p), Folders)
  BY <1>1, ChainsDoNotRepeat DEF Injection, IsInjective
<1>3. Cardinality(1 .. Len(p)) = Len(p)
  BY <1>1, FS_Interval
<1> QED
  BY <1>2, <1>3, FS_Injection, DriveFoldersAssumption

\* Only one path leads to a folder.
LEMMA ChainsEndApart ==
  ASSUME NEW up \in [Folders -> Places], NEW r \in Roots, NEW p, IsChain(up, r, p),
         NEW o, IsChain(up, r, o), Last(p) = Last(o), Len(p) <= Len(o)
  PROVE  p = o
<1>1. /\ Len(p) \in Nat \ {0} /\ p \in [1 .. Len(p) -> Folders]
      /\ Len(o) \in Nat \ {0} /\ o \in [1 .. Len(o) -> Folders]
      /\ p \in Seq(Folders) /\ o \in Seq(Folders)
  BY ChainLength DEF IsChain, Paths
<1>a. PICK n, m : n = Len(p) /\ m = Len(o)
  OBVIOUS
<1>b. ASSUME NEW i \in 2 .. n, NEW k, k = i - 1 PROVE up[p[i]] = p[k]
  BY <1>a, <1>b, ChainLength
<1>c. ASSUME NEW i \in 2 .. m, NEW k, k = i - 1 PROVE up[o[i]] = o[k]
  BY <1>a, <1>c, ChainLength
<1> DEFINE T == {d \in Nat : d < n /\ p[n - d] # o[m - d]}
<1>2. T = {}
  <2> SUFFICES ASSUME T # {} PROVE FALSE
    OBVIOUS
  <2>1. PICK d \in T : \A e \in T : d <= e
    BY LeastNat
  <2>2. d # 0
    BY <1>1, <1>a, <2>1 DEF Last
  <2>3. d - 1 \in Nat /\ d - 1 < n /\ n - d + 1 \in 2 .. n /\ m - d + 1 \in 2 .. m
    BY <1>1, <1>a, <2>1, <2>2
  <2>4. n - (d - 1) = n - d + 1 /\ m - (d - 1) = m - d + 1 /\ n - d + 1 - 1 = n - d /\ m - d + 1 - 1 = m - d
    BY <1>1, <1>a, <2>1
  <2>5. p[n - d + 1] = o[m - d + 1]
    <3>1. d - 1 \notin T
      <4> SUFFICES ASSUME d - 1 \in T PROVE FALSE
        OBVIOUS
      <4>1. d <= d - 1 /\ d \in Nat
        BY <2>1
      <4> QED
        BY <4>1
    <3>2. p[n - (d - 1)] = o[m - (d - 1)]
      BY <2>3, <3>1
    <3> QED
      BY <2>4, <3>2
  <2>6. up[p[n - d + 1]] = p[n - d] /\ up[o[m - d + 1]] = o[m - d]
    <3>1. PICK a, b, e, g : a = n - d + 1 /\ b = n - d /\ e = m - d + 1 /\ g = m - d
      OBVIOUS
    <3>2. a \in 2 .. n /\ b = a - 1 /\ e \in 2 .. m /\ g = e - 1
      BY <2>3, <2>4, <3>1
    <3>3. up[p[a]] = p[b] /\ up[o[e]] = o[g]
      BY <1>b, <1>c, <3>2
    <3> QED
      BY <3>1, <3>3
  <2> QED
    BY <2>1, <2>5, <2>6
<1>3. \A d \in 0 .. n - 1 : p[n - d] = o[m - d]
  <2> SUFFICES ASSUME NEW d \in 0 .. n - 1 PROVE p[n - d] = o[m - d]
    OBVIOUS
  <2>1. d \in Nat /\ d < n
    BY <1>1, <1>a
  <2> QED
    BY <1>2, <2>1
<1>4. n = m
  <2> HIDE DEF T
  <2>0. n \in Nat /\ m \in Nat /\ n <= m
    BY <1>1, <1>a
  <2> SUFFICES ASSUME n < m PROVE FALSE
    BY <2>0
  <2>1. PICK a, b : a = m - (n - 1) /\ b = m - n
    OBVIOUS
  <2>a. n - 1 \in 0 .. n - 1 /\ n - (n - 1) = 1 /\ a \in 2 .. m /\ b = a - 1 /\ b \in 1 .. m
    BY <1>1, <1>a, <2>1
  <2>2. p[1] = o[a]
    <3>1. p[n - (n - 1)] = o[m - (n - 1)]
      BY <1>3, <2>a
    <3> QED
      BY <2>1, <2>a, <3>1
  <2>3. up[p[1]] = r
    BY ChainLength
  <2>4. up[o[a]] = o[b]
    BY <1>c, <2>a
  <2>5. o[b] \in Folders
    BY <1>1, <1>a, <2>a
  <2> QED
    BY <2>2, <2>3, <2>4, <2>5, DriveFoldersAssumption
<1>5. ASSUME NEW i \in 1 .. n PROVE p[i] = o[i]
  <2>1. n - i \in 0 .. n - 1 /\ n - (n - i) = i /\ m - (n - i) = i
    BY <1>1, <1>4, <1>a
  <2>2. p[n - (n - i)] = o[m - (n - i)]
    BY <1>3, <2>1
  <2> QED
    BY <2>1, <2>2
<1> QED
  BY <1>1, <1>4, <1>5, <1>a, SeqEqual

\* The tree of a root: the paths from it.
LEMMA TreeIs ==
  ASSUME parent \in [Folders -> Places], IsForest(parent), NEW r \in Roots, NEW p
  PROVE  p \in Tree(r) <=> IsChain(parent, r, p)
<1>1. Cardinality(Folders) \in Nat
  BY FS_CardinalityType, DriveFoldersAssumption
<1>2. ASSUME p \in Tree(r) PROVE IsChain(parent, r, p)
  <2>1. PICK n \in 1 .. Cardinality(Folders) : p \in [1 .. n -> Folders]
    BY <1>2 DEF Tree
  <2>2. p \in Seq(Folders) /\ Len(p) = n
    BY <1>1, <2>1
  <2>3. p # <<>>
    BY <1>1, <2>2
  <2> QED
    BY <1>2, <2>2, <2>3 DEF Tree, IsChain, Paths
<1>3. ASSUME IsChain(parent, r, p) PROVE p \in Tree(r)
  <2>1. Len(p) \in 1 .. Cardinality(Folders) /\ p \in [1 .. Len(p) -> Folders]
    BY <1>1, <1>3, ChainLength, ChainsAreShort
  <2> QED
    BY <1>3, <2>1 DEF Tree, IsChain
<1> QED
  BY <1>2, <1>3

\* A path without its last folder.
LEMMA ChainFront ==
  ASSUME NEW up, NEW r, NEW p, IsChain(up, r, p), Len(p) > 1
  PROVE  /\ IsChain(up, r, Front(p)) /\ Len(Front(p)) = Len(p) - 1
         /\ up[Last(p)] = Last(Front(p)) /\ Last(p) \in Folders
         /\ p = Append(Front(p), Last(p))
<1>1. /\ Len(p) \in Nat \ {0} /\ p \in Seq(Folders) /\ p \in [1 .. Len(p) -> Folders]
  BY ChainLength DEF IsChain, Paths
<1> DEFINE n == Len(p) - 1
           s == Front(p)
<1>2. n \in Nat /\ n >= 1
  BY <1>1
<1>3. \A i \in 1 .. n : p[i] \in Folders
  BY <1>1
<1>4. s \in Seq(Folders) /\ Len(s) = n /\ \A i \in 1 .. n : s[i] = p[i]
  <2>1. n \in Int /\ 1 \in Int /\ s = SubSeq(p, 1, n)
    BY <1>1 DEF Front
  <2>2. /\ SubSeq(p, 1, n) \in Seq(Folders)
        /\ Len(SubSeq(p, 1, n)) = IF 1 <= n THEN n - 1 + 1 ELSE 0
        /\ \A i \in 1 .. n - 1 + 1 : SubSeq(p, 1, n)[i] = p[1 + i - 1]
    BY <1>3, <2>1, SubSeqProperties
  <2> QED
    BY <1>2, <2>1, <2>2
<1> HIDE DEF s
<1>5. s # <<>>
  BY <1>2, <1>4
<1>6. \A i \in 1 .. n : up[s[i]] = IF i = 1 THEN r ELSE s[i - 1]
  BY <1>1, <1>2, <1>4 DEF IsChain
<1>7. up[p[Len(p)]] = p[n] /\ p[Len(p)] \in Folders
  BY <1>1, <1>2 DEF IsChain
<1>8. p = Append(s, p[Len(p)])
  <2> DEFINE o == Append(s, p[Len(p)])
  <2>a. Len(p) = n + 1
    BY <1>1
  <2>1. /\ o \in Seq(Folders) /\ Len(o) = n + 1 /\ o[n + 1] = p[Len(p)]
        /\ \A i \in 1 .. n : o[i] = s[i]
    BY <1>4, <1>7, AppendProperties
  <2> HIDE DEF o, n
  <2>2. \A i \in 1 .. Len(p) : i \in 1 .. n \/ i = n + 1
    BY <1>2, <2>a
  <2>3. \A i \in 1 .. Len(p) : p[i] = o[i]
    BY <1>4, <2>a, <2>1, <2>2
  <2>4. p = o
    BY <1>1, <2>a, <2>1, <2>3, SeqEqual
  <2> QED
    BY <2>4 DEF o
<1> QED
  BY <1>2, <1>4, <1>5, <1>6, <1>7, <1>8 DEF IsChain, Paths, Last, s

-----------------------------------------------------------------------------
(* The invariant.                                                          *)

\* The list of a root from before is the tree of it.
LEMMA FirstTree ==
  ASSUME parent \in [Folders -> Places], IsForest(parent), NEW r \in Roots,
         NEW rows, rows = {[path |-> p, by |-> Before] : p \in Tree(r)}
  PROVE  /\ rows \in SUBSET Rows
         /\ \A v, w \in rows : /\ v.by = w.by
                               /\ Folder(v) = Folder(w) => v = w
                               /\ Len(w.path) > 1 => \E u \in rows : u.path = Front(w.path)
<1>1. ASSUME NEW w \in rows
      PROVE  w = [path |-> w.path, by |-> Before] /\ w.path \in Tree(r) /\ IsChain(parent, r, w.path)
  BY TreeIs
<1>2. rows \in SUBSET Rows
  <2> SUFFICES ASSUME NEW w \in rows PROVE w \in Rows
    OBVIOUS
  <2>1. w.path \in Paths \ {<<>>}
    BY <1>1 DEF IsChain
  <2> QED
    BY <1>1, <2>1 DEF Rows
<1>3. ASSUME NEW v \in rows, NEW w \in rows, Folder(v) = Folder(w) PROVE v = w
  <2>1. Len(v.path) \in Nat /\ Len(w.path) \in Nat
    BY <1>1, ChainLength
  <2>2. Len(v.path) <= Len(w.path) \/ Len(w.path) <= Len(v.path)
    BY <2>1
  <2>3. v.path = w.path
    BY <1>1, <1>3, <2>2, ChainsEndApart DEF Folder
  <2> QED
    BY <1>1, <2>3
<1>4. ASSUME NEW w \in rows, Len(w.path) > 1 PROVE \E u \in rows : u.path = Front(w.path)
  <2>1. Front(w.path) \in Tree(r)
    BY <1>1, <1>4, ChainFront, TreeIs
  <2>2. [path |-> Front(w.path), by |-> Before] \in rows
    BY <2>1
  <2> QED
    BY <2>2
<1>5. \A v, w \in rows : v.by = w.by
  OBVIOUS
<1> QED
  BY <1>2, <1>3, <1>4, <1>5

\* The initial states satisfy the invariant.
LEMMA InitInv == Init => IInv
<1> SUFFICES ASSUME Init PROVE IInv
  OBVIOUS
<1>1. parent \in [Folders -> Places] /\ IsForest(parent)
  BY DriveFoldersAssumption DEF Init
<1>2. PICK listed \in SUBSET Roots :
        cache = [r \in Roots |-> IF r \in listed THEN {[path |-> p, by |-> Before] : p \in Tree(r)}
                                 ELSE {}]
  BY DEF Init
<1>3. ASSUME NEW r \in Roots
      PROVE  /\ cache[r] \in SUBSET Rows
             /\ \A v, w \in cache[r] : /\ v.by = w.by
                                       /\ Folder(v) = Folder(w) => v = w
                                       /\ Len(w.path) > 1 => \E u \in cache[r] : u.path = Front(w.path)
  <2>1. CASE r \in listed
    <3>1. cache[r] = {[path |-> p, by |-> Before] : p \in Tree(r)}
      BY <1>2, <2>1
    <3> QED
      BY <1>1, <3>1, FirstTree
  <2>2. CASE r \notin listed
    BY <1>2, <2>2
  <2> QED
    BY <2>1, <2>2
<1>4. CacheIsATree
  BY <1>3 DEF CacheIsATree
<1>5. \A q \in Requests : req[q] = Fresh
  BY DEF Init
<1>6. TypeOK
  <2>1. cache \in [Roots -> SUBSET Rows]
    <3>1. cache = [r \in Roots |-> cache[r]]
      BY <1>2
    <3> QED
      BY <1>3, <3>1
  <2>2. job \in [Requests -> Job]
    BY DriveFoldersAssumption DEF Init
  <2>3. post \in [there : BOOLEAN, video : BOOLEAN, target : Targets, raced : BOOLEAN]
    BY RootsAreTargets DEF Init
  <2>4. req \in [Requests -> States]
    BY FreshType DEF Init
  <2>5. moves \in 0 .. MaxMoves
    BY DriveFoldersAssumption DEF Init
  <2> QED
    BY <1>1, <2>1, <2>2, <2>3, <2>4, <2>5 DEF Init, TypeOK
<1>7. ASSUME NEW q \in Requests
      PROVE  /\ IsSound(q) /\ PostIsChosen(q) /\ UploadIsChosen(q)
             /\ IsFoundOnce(q) /\ IsTrue(q) /\ IsApart(q)
  <2>1. /\ req[q].pc = "new" /\ req[q].found = <<>> /\ req[q].listed = 0 /\ req[q].put = 0
        /\ DOMAIN req[q].found = {} /\ Len(req[q].found) = 0
    BY <1>5 DEF Fresh
  <2>2. IsSound(q)
    BY <1>5, <2>1 DEF IsSound, At
  <2>3. PostIsChosen(q) /\ UploadIsChosen(q)
    BY <2>1 DEF PostIsChosen, UploadIsChosen, At
  <2> QED
    BY <2>1, <2>2, <2>3 DEF IsFoundOnce, IsTrue, IsApart, At
<1>8. VideosHaveTargets /\ job \in Mixes
  BY DEF Init, VideosHaveTargets
<1> QED
  BY <1>1, <1>4, <1>6, <1>7, <1>8 DEF IInv

\* Every step of a request keeps it ...
LEMMA RequestKeepsInv == ASSUME IInv, NEW q \in Requests, RequestStep(q) PROVE IInv'
<1>1. CASE RefreshStep(q)
  BY <1>1, StartRefreshStep, ListChildrenStep, FinishTraversalStep, BeginDeleteStep, EndDeleteStep,
     InsertFolderStep, InsertRefusedStep, CommitRefreshStep DEF RefreshStep
<1>2. CASE PostStep(q)
  BY <1>2, StartCreateStep, ReadPostStep, ReadFilesStep, ReadCacheStep, CheckFolderStep,
     WritePostStep DEF PostStep
<1>3. CASE UploadStep(q)
  BY <1>3, ReadRootFailsStep, ClaimStep, ReadCacheForUploadStep, SendStep DEF UploadStep
<1> QED
  BY <1>1, <1>2, <1>3, SetRootStep, ReadRootStep, FailStep DEF RequestStep

\* ... and so does every step.
LEMMA NextInv == IInv /\ [Next]_vars => IInv'
<1> SUFFICES ASSUME IInv, [Next]_vars PROVE IInv'
  OBVIOUS
<1>1. CASE UNCHANGED vars
  BY <1>1 DEF IInv, TypeOK, IsForest, Below, IsSound, PostIsChosen, UploadIsChosen, IsFoundOnce, IsTrue,
     IsApart, At, IsPost, Chooses, ToHaveVideo, EffectiveRoot, Offers, PathOf, PlaceOf, Holders,
     Rivals, Inserted, VideosHaveTargets, CacheIsATree, vars
<1>2. ASSUME NEW f \in Folders, NEW to \in Places, MoveFolder(f, to) PROVE IInv'
  BY <1>2, MoveFolderStep
<1>3. ASSUME NEW q \in Requests, RequestStep(q) PROVE IInv'
  BY <1>3, RequestKeepsInv
<1> QED
  BY <1>1, <1>2, <1>3 DEF Next

\* The inductive invariant holds in every reachable state.
THEOREM InvariantHolds == Spec => []IInv
BY InitInv, NextInv, PTL DEF Spec

\* Every variable has its type; what is written for a post is a folder, a root or
\* nothing (normalizeDriveTargetFolderID).
THEOREM TypeCorrect == Spec => []TypeOK
<1>1. IInv => TypeOK
  BY DEF IInv
<1> QED
  BY <1>1, InvariantHolds, PTL

\* Whatever is moved during a refresh, the list of a root has every folder once and
\* is a tree found by one refresh, unless two of them have overlapped
\* (ReplaceGoogleDriveFolders).
THEOREM ListsAreTrees == Spec => []CacheIsATree
<1>1. IInv => CacheIsATree
  BY DEF IInv
<1> QED
  BY <1>1, InvariantHolds, PTL

\* A post with a video has a target, but for old posts and overtaken edits.
THEOREM VideosKeepTargets == Spec => []VideosHaveTargets
<1>1. IInv => VideosHaveTargets
  BY DEF IInv
<1> QED
  BY <1>1, InvariantHolds, PTL

-----------------------------------------------------------------------------
(* What single steps do.                                                   *)

\* What a finished traversal has found.
LEMMA FoundTree ==
  ASSUME IInv, NEW q \in Requests, FinishTraversal(q), ~req[q].moved
  PROVE  ToSet(req[q].found) = Tree(req[q].root) /\ IsInjective(req[q].found)
<1>1. /\ At(q, "list") /\ req[q].listed > Len(req[q].found)
  BY DEF FinishTraversal
<1>2. /\ req[q].found \in Seq(Paths) /\ Len(req[q].found) \in Nat /\ req[q].listed \in Nat
      /\ DOMAIN req[q].found = 1 .. Len(req[q].found)
      /\ IsSound(q) /\ IsFoundOnce(q) /\ IsTrue(q)
      /\ parent \in [Folders -> Places] /\ IsForest(parent)
  BY Now, Fields DEF Knows, IInv, TypeOK
<1>3. req[q].root \in Roots /\ req[q].listed = Len(req[q].found) + 1
  BY <1>1, <1>2 DEF IsSound, At
<1>4. IsInjective(req[q].found)
  BY <1>2 DEF IsFoundOnce, IsInjective
<1>5. ASSUME NEW p \in ToSet(req[q].found) PROVE p \in Tree(req[q].root)
  <2>1. PICK i \in DOMAIN req[q].found : p = req[q].found[i]
    BY DEF ToSet
  <2>2. p \in Paths /\ p # <<>>
    BY <1>2, <2>1 DEF IsFoundOnce
  <2>3. DOMAIN p = 1 .. Len(p)
    BY <2>2 DEF Paths
  <2>4. \A n \in 1 .. Len(p) : parent[p[n]] = IF n = 1 THEN req[q].root ELSE p[n - 1]
    BY <1>1, <1>2, <2>1, <2>3 DEF IsTrue
  <2>5. IsChain(parent, req[q].root, p)
    BY <2>2, <2>4 DEF IsChain
  <2> QED
    BY <1>2, <1>3, <2>5, TreeIs
<1>6. Tree(req[q].root) \subseteq ToSet(req[q].found)
  <2> DEFINE Missing == Tree(req[q].root) \ ToSet(req[q].found)
             Lengths == {n \in Nat : \E p \in Missing : Len(p) = n}
  <2> SUFFICES ASSUME Missing # {} PROVE FALSE
    OBVIOUS
  <2>1. \A p \in Tree(req[q].root) : IsChain(parent, req[q].root, p)
    BY <1>2, <1>3, TreeIs
  <2>2. \A p \in Missing : Len(p) \in Nat
    BY <2>1, ChainLength
  <2>3. Lengths # {}
    BY <2>2
  <2>4. PICK n \in Lengths : \A m \in Lengths : n <= m
    BY <2>3, LeastNat
  <2>5. PICK p \in Missing : Len(p) = n
    BY <2>4
  <2>6. /\ IsChain(parent, req[q].root, p) /\ p \in Seq(Folders)
        /\ Len(p) \in Nat \ {0} /\ \A i \in 1 .. Len(p) : p[i] \in Folders
        /\ parent[p[1]] = req[q].root
    BY <2>1, <2>5, ChainLength DEF IsChain, Paths
  <2>7. \A k \in 0 .. Len(req[q].found), f \in Folders :
          parent[f] = PlaceOf(q, k) => Append(PathOf(q, k), f) \in ToSet(req[q].found)
    BY <1>1, <1>2, <1>3 DEF IsTrue
  <2>8. CASE Len(p) = 1
    <3>1. p[1] \in Folders /\ 0 \in 0 .. Len(req[q].found)
      BY <1>2, <2>6, <2>8
    <3>2. Append(<<>>, p[1]) \in ToSet(req[q].found)
      BY <2>6, <2>7, <3>1 DEF PlaceOf, PathOf
    <3>3. p = Append(<<>>, p[1])
      BY <2>6, <2>8
    <3> QED
      BY <2>5, <3>2, <3>3
  <2>9. CASE Len(p) > 1
    <3> DEFINE s == Front(p)
    <3>1. /\ IsChain(parent, req[q].root, s) /\ Len(s) = Len(p) - 1
          /\ parent[Last(p)] = Last(s) /\ Last(p) \in Folders
          /\ p = Append(s, Last(p))
      BY <2>6, <2>9, ChainFront
    <3> HIDE DEF s
    <3>2. s \in Tree(req[q].root) /\ Len(s) \in Nat
      BY <1>2, <1>3, <3>1, TreeIs, ChainLength
    <3>3. s \in ToSet(req[q].found)
      <4> SUFFICES ASSUME s \in Missing PROVE FALSE
        BY <3>2
      <4>1. Len(s) \in Lengths
        BY <3>2
      <4> HIDE DEF Lengths
      <4>2. n <= Len(s)
        BY <2>4, <4>1
      <4> QED
        BY <2>5, <2>6, <3>1, <4>2
    <3>4. PICK k \in DOMAIN req[q].found : s = req[q].found[k]
      BY <3>3 DEF ToSet
    <3>5. k \in 0 .. Len(req[q].found) /\ k # 0
      BY <1>2
    <3>6. Append(s, Last(p)) \in ToSet(req[q].found)
      BY <2>7, <3>1, <3>4, <3>5 DEF PlaceOf, PathOf
    <3>7. p \in ToSet(req[q].found)
      BY <3>1, <3>6, Zenon
    <3> QED
      BY <2>5, <3>7
  <2>10. Len(p) \in Nat /\ Len(p) # 0
    BY <2>6
  <2>11. Len(p) = 1 \/ Len(p) > 1
    <3> \A k \in Nat : k # 0 => k = 1 \/ k > 1
      OBVIOUS
    <3> QED
      BY <2>10
  <2> QED
    BY <2>8, <2>9, <2>11, Zenon
<1> QED
  BY <1>4, <1>5, <1>6

\* A traversal during which nothing moves finds exactly the folders below the root,
\* each once and with its path (GoogleDrive.ListFolders).
THEOREM TraversalsAreComplete == Spec => FreshTraversalsAreComplete
<1>1. IInv /\ [Next]_vars =>
        [\A q \in Requests : FinishTraversal(q) /\ ~req[q].moved =>
           /\ ToSet(req[q].found) = Tree(req[q].root)
           /\ IsInjective(req[q].found)]_vars
  BY FoundTree
<1> QED
  BY <1>1, InvariantHolds, PTL DEF Spec, FreshTraversalsAreComplete

\* A request that nobody overtakes chooses a folder that the list offers, or the root
\* if there is no list (normalizeDriveTargetFolderID).
THEOREM TargetsAreOffered == Spec => FreshTargetsAreOffered
<1>1. ASSUME IInv, NEW q \in Requests, WritePost(q), Chooses(q), ~req[q].late, post'.video
      PROVE  IF cache[EffectiveRoot] = {} THEN post'.target = EffectiveRoot
             ELSE \E w \in cache[EffectiveRoot] : Folder(w) = post'.target
  <2>1. /\ At(q, "write") /\ post'.target = req[q].target
        /\ post'.video = IF job[q].video = Keep THEN post.video ELSE job[q].video
    BY <1>1 DEF WritePost
  <2>2. IsPost(q) /\ PostIsChosen(q)
    BY <1>1, <2>1, Now DEF Knows, IsSound, At
  <2>3. ToHaveVideo(q, req[q])
    <3>1. CASE job[q].video = Keep
      <4>1. job[q].kind = "edit"
        BY <1>1, <2>2, <3>1, DriveFoldersAssumption DEF IsPost, IInv
      <4> QED
        BY <1>1, <2>1, <2>2, <3>1, <4>1 DEF PostIsChosen, ToHaveVideo, At
    <3> QED
      BY <1>1, <2>1, <3>1 DEF ToHaveVideo
  <2> QED
    BY <1>1, <2>1, <2>2, <2>3 DEF PostIsChosen, Offers
<1>2. IInv /\ [Next]_vars =>
        [\A q \in Requests : WritePost(q) /\ Chooses(q) /\ ~req[q].late /\ post'.video =>
           IF cache[EffectiveRoot] = {} THEN post'.target = EffectiveRoot
           ELSE \E w \in cache[EffectiveRoot] : Folder(w) = post'.target]_vars
  BY <1>1
<1> QED
  BY <1>2, InvariantHolds, PTL DEF Spec, FreshTargetsAreOffered

\* A video that nobody writes to meanwhile goes to the target of its post, or into the
\* root of the settings (resolveUploadFolderID).
THEOREM UploadsFollowTheSettings == Spec => FreshUploadsFollowTheSettings
<1>1. ASSUME IInv, NEW q \in Requests, Send(q), ~req[q].late
      PROVE  req[q].target = IF post.target # NoTarget THEN post.target
                             ELSE IF req[q].fell THEN DefaultRoot ELSE EffectiveRoot
  <2>1. IsSound(q) /\ UploadIsChosen(q)
    BY <1>1, Now DEF Knows
  <2> QED
    BY <1>1, <2>1 DEF Send, IsSound, UploadIsChosen, At
<1>2. IInv /\ [Next]_vars =>
        [\A q \in Requests : Send(q) /\ ~req[q].late =>
           req[q].target = IF post.target # NoTarget THEN post.target
                           ELSE IF req[q].fell THEN DefaultRoot ELSE EffectiveRoot]_vars
  BY <1>1
<1> QED
  BY <1>2, InvariantHolds, PTL DEF Spec, FreshUploadsFollowTheSettings
=============================================================================
