-------------------------- MODULE PostLinks_proofs --------------------------
(***************************************************************************)
(* PostLinks for any posts, hashtags, files and number of concurrent       *)
(* requests.                                                               *)
(***************************************************************************)
EXTENDS PostLinks, FiniteSetTheorems, SequenceTheorems,
        WellFoundedInduction, TLAPS

\* What a request has written says what it is about to commit.
WritesIts(r) == IF IsPost(r) THEN PostWritesIts(r) ELSE TagWritesIts(r)

\* The initial states satisfy the invariant.
LEMMA InitInv == Init => IInv
  <1> SUFFICES ASSUME Init PROVE IInv
    OBVIOUS
  <1> USE PostLinksAssumption DEF Init
  <1>1. TypeOK
    <2>1. job \in [Requests -> Job] /\ name \in [Ids -> Names \cup {NoName}]
      OBVIOUS
    <2>2. links \subseteq Posts \X Ids
      OBVIOUS
    <2>3. /\ files \in [Posts -> SUBSET Rows] /\ lastFile \in Nat
          /\ life \in [Posts -> {"absent", "live", "deleted"}]
          /\ pc \in [Requests -> RequestPCs] /\ todo \in [Requests -> Seq(Names)]
          /\ row \in [Requests -> Ids \cup {NoName}]
      BY DEF RequestPCs
    <2>4. rowWrite \in [Requests -> [Ids -> Names \cup {NoName, Same}]]
      BY DEF Nothing
    <2>5. /\ cut \in [Requests -> SUBSET (Posts \X Ids)] /\ add \in [Requests -> SUBSET Ids]
          /\ newFiles \in [Requests -> SUBSET Rows] /\ given \in [Posts -> SUBSET Ids]
      OBVIOUS
    <2> QED
      BY <2>1, <2>2, <2>3, <2>4, <2>5 DEF TypeOK
  <1>2. \A r \in Requests, i \in Ids : ~Holds(r, i)
    BY DEF Holds, Nothing
  <1>3. LocksAreExclusive
    <2> SUFFICES ASSUME NEW q \in Requests, NEW r \in Requests, q # r
                 PROVE  /\ job[q].op = "create" /\ job[r].op = "create" => job[q].post # job[r].post
                        /\ cut[q] \cap cut[r] = {}
                        /\ \A i \in Ids : ~(Holds(q, i) /\ Holds(r, i))
                        /\ ~(Writing(q) /\ Writing(r) /\ job[q].post = job[r].post)
      BY DEF LocksAreExclusive
    <2> QED
      BY <1>2 DEF Writing
  <1>4. ASSUME NEW r \in Requests PROVE WritesIts(r)
    BY <1>2 DEF WritesIts, PostWritesIts, TagWritesIts, Writing
  <1>5. RowsAreKnown /\ TablesAreSound /\ LinksFollowLastWrite
    BY <1>2 DEF RowsAreKnown, TablesAreSound, LinksFollowLastWrite
  <1> QED
    BY <1>1, <1>3, <1>4, <1>5 DEF IInv, WritesIts

-----------------------------------------------------------------------------
(* Steps that leave the committed tables as they are.                      *)

\* What a request has written and holds is its own.
OnlyOf(r) ==
  \A q \in Requests \ {r} :
    /\ pc'[q] = pc[q] /\ row'[q] = row[q] /\ rowWrite'[q] = rowWrite[q]
    /\ cut'[q] = cut[q] /\ add'[q] = add[q] /\ todo'[q] = todo[q]

\* What others have written still says what they are about to commit.
LEMMA OthersWriteTheirs ==
  ASSUME IInv, NEW r \in Requests, OnlyOf(r), UNCHANGED <<name, links, life, given, job, stale>>,
         row'[r] = row[r] \/ name[row'[r]] # NoName,
         NEW q \in Requests, q # r
  PROVE  WritesIts(q)'
  <1>1. /\ pc'[q] = pc[q] /\ row'[q] = row[q] /\ rowWrite'[q] = rowWrite[q]
        /\ cut'[q] = cut[q] /\ add'[q] = add[q] /\ todo'[q] = todo[q]
    BY DEF OnlyOf
  <1>2. WritesIts(q)
    BY DEF IInv, WritesIts
  <1>3. IsPost(q)' = IsPost(q) /\ HasTags(q)' = HasTags(q) /\ Writing(q)' = Writing(q)
    BY <1>1 DEF IsPost, HasTags, Writing
  <1>4. \A i \in Ids : Holds(q, i)' <=> Holds(q, i)
    BY <1>1 DEF Holds
  <1>5. ASSUME NEW i \in Ids, Unseen(i) PROVE Unseen(i)'
    <2> SUFFICES ASSUME NEW o \in Requests PROVE row'[o] # i
      BY <1>5 DEF Unseen
    <2>1. o # r => row'[o] = row[o]
      BY DEF OnlyOf
    <2> QED
      BY <1>5, <2>1 DEF Unseen
  <1>6. CASE IsPost(q)
    <2>1. PostWritesIts(q)
      BY <1>2, <1>6 DEF WritesIts
    <2>2. PostWritesIts(q)'
      BY <1>1, <1>3, <1>4, <1>5, <2>1 DEF PostWritesIts, LinksOf
    <2> QED
      BY <1>3, <1>6, <2>2 DEF WritesIts
  <1>7. CASE ~IsPost(q)
    <2>1. TagWritesIts(q)
      BY <1>2, <1>7 DEF WritesIts
    <2>2. TagWritesIts(q)'
      BY <1>1, <1>4, <2>1 DEF TagWritesIts, LinksWith
    <2> QED
      BY <1>3, <1>7, <2>2 DEF WritesIts
  <1> QED
    BY <1>6, <1>7

\* A request takes locks that nobody has, or gives up its own.
LEMMA OwnStep ==
  ASSUME IInv, NEW r \in Requests, TypeOK', OnlyOf(r), UNCHANGED <<tables, job, stale>>,
         used \subseteq used', WritesIts(r)',
         row'[r] = row[r] \/ name[row'[r]] # NoName,
         row'[r] # NoName => row'[r] \in used',
         \A i \in Ids : Holds(r, i)' => i \in used',
         \A q \in Requests \ {r} :
           /\ cut[q] \cap cut'[r] = {}
           /\ \A i \in Ids : Holds(r, i)' => ~Holds(q, i)
           /\ ~(Writing(q) /\ Writing(r)' /\ job[q].post = job[r].post)
  PROVE  IInv'
  <1>1. UNCHANGED <<name, links, files, life, given>>
    BY DEF tables
  <1>2. \A q \in Requests : WritesIts(q)'
    BY <1>1, OthersWriteTheirs
  <1>3. \A q \in Requests \ {r} : Writing(q)' = Writing(q) /\ \A i \in Ids : Holds(q, i)' <=> Holds(q, i)
    BY DEF OnlyOf, Writing, IsPost, Holds
  <1>4. LocksAreExclusive'
    <2> SUFFICES ASSUME NEW q \in Requests, NEW o \in Requests, q # o
                 PROVE  /\ job[q].op = "create" /\ job[o].op = "create" => job[q].post # job[o].post
                        /\ cut'[q] \cap cut'[o] = {}
                        /\ \A i \in Ids : ~(Holds(q, i)' /\ Holds(o, i)')
                        /\ ~(Writing(q)' /\ Writing(o)' /\ job[q].post = job[o].post)
      BY DEF LocksAreExclusive
    <2>1. job[q].op = "create" /\ job[o].op = "create" => job[q].post # job[o].post
      BY DEF IInv, LocksAreExclusive
    <2>2. CASE q # r /\ o # r
      BY <1>3, <2>2 DEF IInv, LocksAreExclusive, OnlyOf
    <2>3. CASE q = r
      BY <1>3, <2>1, <2>3 DEF OnlyOf
    <2>4. CASE o = r
      BY <1>3, <2>1, <2>4 DEF OnlyOf
    <2> QED
      BY <2>2, <2>3, <2>4
  <1>5. RowsAreKnown'
    <2>1. \A q \in Requests \ {r} : /\ row'[q] # NoName => row'[q] \in used'
                                    /\ \A i \in Ids : Holds(q, i)' => i \in used'
      BY <1>3 DEF IInv, RowsAreKnown, OnlyOf
    <2>2. \A i \in Ids : name'[i] # NoName => i \in used'
      BY <1>1 DEF IInv, RowsAreKnown
    <2>3. \A p \in Posts : given'[p] \subseteq used'
      BY <1>1 DEF IInv, RowsAreKnown
    <2> QED
      BY <2>1, <2>2, <2>3 DEF RowsAreKnown
  <1>6. TablesAreSound' /\ LinksFollowLastWrite'
    BY <1>1 DEF IInv, TablesAreSound, LinksFollowLastWrite
  <1> QED
    BY <1>2, <1>4, <1>5, <1>6 DEF IInv, WritesIts

-----------------------------------------------------------------------------
(* The end of a transaction that has nothing to commit.                    *)

LEMMA ReleaseOwn ==
  ASSUME TypeOK, NEW r \in Requests, Release(r)
  PROVE  /\ rowWrite' \in [Requests -> [Ids -> Names \cup {NoName, Same}]]
         /\ cut' \in [Requests -> SUBSET (Posts \X Ids)] /\ add' \in [Requests -> SUBSET Ids]
         /\ newFiles' \in [Requests -> SUBSET Rows]
         /\ cut'[r] = {} /\ add'[r] = {} /\ \A i \in Ids : ~Holds(r, i)'
         /\ \A q \in Requests \ {r} :
              rowWrite'[q] = rowWrite[q] /\ cut'[q] = cut[q] /\ add'[q] = add[q]
  <1>1. Nothing \in [Ids -> Names \cup {NoName, Same}] /\ \A i \in Ids : Nothing[i] = Same
    BY DEF Nothing
  <1>2. /\ rowWrite \in [Requests -> [Ids -> Names \cup {NoName, Same}]]
        /\ cut \in [Requests -> SUBSET (Posts \X Ids)] /\ add \in [Requests -> SUBSET Ids]
        /\ newFiles \in [Requests -> SUBSET Rows]
    BY DEF TypeOK
  <1> HIDE DEF Nothing
  <1>3. /\ rowWrite' = [rowWrite EXCEPT ![r] = Nothing]
        /\ cut' = [cut EXCEPT ![r] = {}] /\ add' = [add EXCEPT ![r] = {}]
        /\ newFiles' = [newFiles EXCEPT ![r] = {}]
    BY DEF Release
  <1>4. rowWrite' \in [Requests -> [Ids -> Names \cup {NoName, Same}]] /\ rowWrite'[r] = Nothing
    BY <1>1, <1>2, <1>3
  <1>5. \A i \in Ids : ~Holds(r, i)'
    BY <1>1, <1>4 DEF Holds
  <1> QED
    BY <1>2, <1>3, <1>4, <1>5

LEMMA GotoType ==
  ASSUME TypeOK, NEW r \in Requests, NEW where \in RequestPCs, Goto(r, where)
  PROVE  /\ pc' \in [Requests -> RequestPCs] /\ pc'[r] = where
         /\ \A q \in Requests \ {r} : pc'[q] = pc[q]
  BY DEF TypeOK, Goto

\* Who has ended holds nothing and has nothing to say.
LEMMA EndedWritesIts ==
  ASSUME NEW r \in Requests, pc'[r] = "done", cut'[r] = {}, add'[r] = {},
         \A i \in Ids : ~Holds(r, i)'
  PROVE  WritesIts(r)' /\ ~Writing(r)'
  BY DEF WritesIts, PostWritesIts, TagWritesIts, Writing

LEMMA RollbackStep == ASSUME IInv, NEW r \in Requests, Rollback(r) PROVE IInv'
  <1>1. /\ TypeOK /\ Release(r) /\ Goto(r, "done") /\ "done" \in RequestPCs
        /\ UNCHANGED <<tables, used, lastFile, job, todo, row, stale>>
    BY DEF IInv, Rollback, RequestPCs
  <1>2. /\ rowWrite' \in [Requests -> [Ids -> Names \cup {NoName, Same}]]
        /\ cut' \in [Requests -> SUBSET (Posts \X Ids)] /\ add' \in [Requests -> SUBSET Ids]
        /\ newFiles' \in [Requests -> SUBSET Rows]
        /\ cut'[r] = {} /\ add'[r] = {} /\ \A i \in Ids : ~Holds(r, i)'
        /\ \A q \in Requests \ {r} :
             rowWrite'[q] = rowWrite[q] /\ cut'[q] = cut[q] /\ add'[q] = add[q]
    BY <1>1, ReleaseOwn
  <1>3. /\ pc' \in [Requests -> RequestPCs] /\ pc'[r] = "done"
        /\ \A q \in Requests \ {r} : pc'[q] = pc[q]
    BY <1>1, GotoType
  <1>4. WritesIts(r)' /\ ~Writing(r)'
    BY <1>2, <1>3, EndedWritesIts
  <1>5. TypeOK'
    BY <1>1, <1>2, <1>3 DEF TypeOK, tables
  <1>6. OnlyOf(r)
    BY <1>1, <1>2, <1>3 DEF OnlyOf
  <1>7. row'[r] # NoName => row'[r] \in used'
    BY <1>1 DEF IInv, RowsAreKnown
  <1> QED
    BY <1>1, <1>2, <1>4, <1>5, <1>6, <1>7, OwnStep

-----------------------------------------------------------------------------
(* Posts.                                                                  *)

\* A request that has just begun holds nothing.
LEMMA NewHoldsNothing ==
  ASSUME IInv, NEW r \in Requests, pc[r] = "new"
  PROVE  cut[r] = {} /\ add[r] = {} /\ \A i \in Ids : ~Holds(r, i)
  <1>1. CASE IsPost(r)
    BY <1>1 DEF IInv, PostWritesIts
  <1>2. CASE ~IsPost(r)
    BY <1>2 DEF IInv, TagWritesIts
  <1> QED
    BY <1>1, <1>2

\* The fields of what a request asks for.
LEMMA JobFields ==
  ASSUME TypeOK, NEW r \in Requests
  PROVE  /\ job[r].op \in Ops /\ job[r].post \in Posts
         /\ job[r].tags \in Seq(Names) \cup {NotGiven} /\ job[r].files \in Seq(Keys) \cup {NotGiven}
         /\ job[r].name \in Names /\ job[r].next \in Names
  <1>1. job[r] \in Job
    BY DEF TypeOK
  <1> QED
    BY <1>1 DEF Job

\* The attachments that a post keeps and gets are rows.
LEMMA FilesAreRows ==
  ASSUME lastFile \in Nat, NEW old \in SUBSET Rows, NEW s \in Seq(Keys)
  PROVE  Reused(old, s) \cup Inserted(old, s) \subseteq Rows
  <1>1. Reused(old, s) \subseteq old
    BY DEF Reused
  <1>2. ASSUME NEW i \in DOMAIN s PROVE [id |-> lastFile + i, key |-> s[i]] \in Rows
    <2>1. i \in Nat /\ s[i] \in Keys
      OBVIOUS
    <2> QED
      BY <2>1 DEF Rows
  <1>3. Inserted(old, s) \subseteq Rows
    BY <1>2 DEF Inserted
  <1> QED
    BY <1>1, <1>3

LEMMA WritePostStep ==
  ASSUME IInv, NEW r \in Requests, CreatePost(r) \/ UpdatePost(r)
  PROVE  IInv'
  <1> DEFINE post == job[r].post
  <1>1. /\ TypeOK /\ WritePost(r) /\ pc[r] = "new" /\ IsPost(r) /\ WaitsFor(r) = {}
        /\ life[post] = IF job[r].op = "create" THEN "absent" ELSE "live"
    BY DEF IInv, CreatePost, UpdatePost, At, IsPost
  <1>2. /\ cut[r] = {} /\ add[r] = {} /\ \A i \in Ids : ~Holds(r, i)
    BY <1>1, NewHoldsNothing
  <1>3. /\ post \in Posts /\ job[r].tags \in Seq(Names) \cup {NotGiven}
        /\ job[r].files \in Seq(Keys) \cup {NotGiven}
    BY <1>1, JobFields
  <1>4. UNCHANGED <<tables, used, job, row, rowWrite, cut, add, stale>>
    BY <1>1 DEF WritePost
  <1>5. newFiles' \in [Requests -> SUBSET Rows]
    <2>1. files[post] \in SUBSET Rows /\ lastFile \in Nat
      BY <1>1, <1>3 DEF TypeOK
    <2>2. CASE job[r].files = NotGiven
      <3>1. newFiles' = [newFiles EXCEPT ![r] = files[post]]
        BY <1>1, <2>2 DEF WritePost
      <3> QED
        BY <1>1, <2>1, <3>1 DEF TypeOK
    <2>3. CASE job[r].files # NotGiven
      <3> DEFINE F == Reused(files[post], job[r].files) \cup Inserted(files[post], job[r].files)
      <3>1. newFiles' = [newFiles EXCEPT ![r] = F]
        BY <1>1, <2>3 DEF WritePost
      <3>2. F \in SUBSET Rows
        BY <1>3, <2>1, <2>3, FilesAreRows
      <3> HIDE DEF F
      <3> QED
        BY <1>1, <3>1, <3>2 DEF TypeOK
    <2> QED
      BY <2>2, <2>3
  <1>6. lastFile' \in Nat
    BY <1>1, <1>3 DEF WritePost, TypeOK
  <1>7. /\ todo' \in [Requests -> Seq(Names)]
        /\ \A q \in Requests \ {r} : todo'[q] = todo[q]
    <2>1. todo \in [Requests -> Seq(Names)]
      BY <1>1 DEF TypeOK
    <2>2. (IF job[r].tags = NotGiven THEN <<>> ELSE job[r].tags) \in Seq(Names)
      BY <1>3
    <2>3. todo' = [todo EXCEPT ![r] = IF job[r].tags = NotGiven THEN <<>> ELSE job[r].tags]
      BY <1>1 DEF WritePost
    <2> QED
      BY <2>1, <2>2, <2>3
  <1>8. /\ pc' \in [Requests -> RequestPCs] /\ \A q \in Requests \ {r} : pc'[q] = pc[q]
        /\ pc'[r] = IF job[r].tags = NotGiven THEN "commit" ELSE "unlink"
    <2>1. (IF job[r].tags = NotGiven THEN "commit" ELSE "unlink") \in RequestPCs
      BY DEF RequestPCs
    <2>2. Goto(r, IF job[r].tags = NotGiven THEN "commit" ELSE "unlink")
      BY <1>1 DEF WritePost
    <2> QED
      BY <1>1, <2>1, <2>2, GotoType
  <1>9. TypeOK'
    BY <1>1, <1>4, <1>5, <1>6, <1>7, <1>8 DEF TypeOK, tables
  <1>10. OnlyOf(r)
    BY <1>4, <1>7, <1>8 DEF OnlyOf
  <1>11. \A i \in Ids : ~Holds(r, i)'
    BY <1>2, <1>4 DEF Holds
  <1>12. WritesIts(r)'
    <2>1. IsPost(r)' /\ (HasTags(r)' <=> job[r].tags # NotGiven)
      BY <1>1, <1>4 DEF IsPost, HasTags
    <2>2. PostWritesIts(r)'
      BY <1>1, <1>2, <1>4, <1>8, <1>11, <2>1 DEF PostWritesIts, tables
    <2> QED
      BY <2>1, <2>2 DEF WritesIts
  <1>13. ASSUME NEW q \in Requests \ {r}, Writing(q), job[q].post = post PROVE FALSE
    <2>1. life[post] = IF job[q].op = "create" THEN "absent" ELSE "live"
      BY <1>13 DEF IInv, Writing, PostWritesIts
    <2>2. job[q].op = job[r].op
      BY <1>1, <1>13, <2>1 DEF Writing, IsPost
    <2>3. job[q].op # "create"
      BY <1>13, <2>2 DEF IInv, LocksAreExclusive
    <2>4. job[r].op = "edit" /\ life[post] = "live"
      BY <1>1, <2>2, <2>3 DEF IsPost
    <2>5. WaitsFor(r) = Writers(r, post)
      BY <1>1, <2>4 DEF WaitsFor
    <2> QED
      BY <1>1, <1>13, <2>2, <2>4, <2>5 DEF Writers, Writing
  <1>14. row'[r] # NoName => row'[r] \in used'
    BY <1>4 DEF IInv, RowsAreKnown
  <1> QED
    BY <1>2, <1>4, <1>9, <1>10, <1>11, <1>12, <1>13, <1>14, OwnStep

LEMMA UnlinkPostStep == ASSUME IInv, NEW r \in Requests, UnlinkPost(r) PROVE IInv'
  <1> DEFINE L == LinksOf(job[r].post)
  <1>1. /\ TypeOK /\ pc[r] = "unlink" /\ IsPost(r) /\ WaitsFor(r) = {} /\ PostWritesIts(r)
        /\ cut' = [cut EXCEPT ![r] = L]
        /\ Goto(r, IF todo[r] = <<>> THEN "commit" ELSE "tag")
        /\ UNCHANGED <<tables, used, lastFile, job, todo, row, rowWrite, add, newFiles, stale>>
    BY DEF IInv, UnlinkPost, At, IsPost
  <1>2. L \in SUBSET (Posts \X Ids)
    BY <1>1 DEF LinksOf, TypeOK
  <1> HIDE DEF L
  <1>3. /\ pc' \in [Requests -> RequestPCs] /\ \A q \in Requests \ {r} : pc'[q] = pc[q]
        /\ pc'[r] = IF todo[r] = <<>> THEN "commit" ELSE "tag"
    <2>1. (IF todo[r] = <<>> THEN "commit" ELSE "tag") \in RequestPCs
      BY DEF RequestPCs
    <2> QED
      BY <1>1, <2>1, GotoType
  <1>4. /\ cut' \in [Requests -> SUBSET (Posts \X Ids)] /\ cut'[r] = L
        /\ \A q \in Requests \ {r} : cut'[q] = cut[q]
    <2>1. cut \in [Requests -> SUBSET (Posts \X Ids)]
      BY <1>1 DEF TypeOK
    <2> QED
      BY <1>1, <1>2, <2>1
  <1>5. TypeOK' /\ OnlyOf(r)
    BY <1>1, <1>3, <1>4 DEF TypeOK, tables, OnlyOf
  <1>6. /\ HasTags(r) /\ IsPost(r)' /\ HasTags(r)' /\ Writing(r)
        /\ \A i \in Ids : Holds(r, i)' <=> Holds(r, i)
    BY <1>1 DEF PostWritesIts, IsPost, HasTags, Holds, Writing
  <1>7. \A i \in Ids : ~Holds(r, i)
    BY <1>1 DEF PostWritesIts
  <1>8. PostWritesIts(r)'
    BY <1>1, <1>3, <1>4, <1>6, <1>7 DEF PostWritesIts, Writing, LinksOf, L, tables
  <1>9. WritesIts(r)'
    BY <1>6, <1>8 DEF WritesIts
  <1>10. ASSUME NEW q \in Requests \ {r}
         PROVE  /\ cut[q] \cap cut'[r] = {}
                /\ \A i \in Ids : Holds(r, i)' => ~Holds(q, i)
                /\ ~(Writing(q) /\ Writing(r)' /\ job[q].post = job[r].post)
    <2>1. WaitsFor(r) = Cutters(r, L)
      BY <1>1 DEF WaitsFor, L
    <2>2. cut[q] \cap cut'[r] = {}
      BY <1>1, <1>4, <2>1 DEF Cutters
    <2>3. ~(Writing(q) /\ job[q].post = job[r].post)
      BY <1>6 DEF IInv, LocksAreExclusive
    <2> QED
      BY <1>6, <1>7, <2>2, <2>3
  <1>11. row'[r] # NoName => row'[r] \in used'
    BY <1>1 DEF IInv, RowsAreKnown
  <1> QED
    BY <1>1, <1>5, <1>6, <1>7, <1>9, <1>10, <1>11, OwnStep

\* What is left of a list of tags.
LEMMA RemoveAtType ==
  ASSUME NEW S, NEW s \in Seq(S), NEW k \in DOMAIN s
  PROVE  RemoveAt(s, k) \in Seq(S)
  <1>1. k \in 1..Len(s) /\ Len(s) \in Nat
    OBVIOUS
  <1>2. SubSeq(s, 1, k-1) \in Seq(S)
    <2>1. \A i \in 1..(k-1) : s[i] \in S
      BY <1>1
    <2> QED
      BY <1>1, <2>1, SubSeqProperties
  <1>3. SubSeq(s, k+1, Len(s)) \in Seq(S)
    <2>1. \A i \in (k+1)..Len(s) : s[i] \in S
      BY <1>1
    <2> QED
      BY <1>1, <2>1, SubSeqProperties
  <1> QED
    BY <1>2, <1>3, ConcatProperties DEF RemoveAt

\* The row that a tag gets is its own, or free; nobody else holds it.
LEMMA TagRowIsFree ==
  ASSUME IInv, NEW r \in Requests, NEW n \in Names, Busy(r, n) = {}, NEW i \in TagRow(r, n)
  PROVE  /\ i \in Ids
         /\ \A q \in Requests \ {r} : ~Holds(q, i)
         /\ \/ Holds(r, i) /\ rowWrite[r][i] = n
            \/ ~Holds(r, i) /\ name[i] = n
            \/ i \notin used /\ ~Holds(r, i) /\ Unseen(i)
  <1>1. CASE i \in Named(r, n)
    <2>1. i \in Ids
      BY <1>1 DEF Named
    <2>2. CASE Holds(r, i)
      BY <1>1, <2>1, <2>2 DEF Named, IInv, LocksAreExclusive
    <2>3. CASE ~Holds(r, i)
      <3>1. name[i] = n
        BY <1>1, <2>3 DEF Named
      <3>2. \A q \in Requests \ {r} : ~Holds(q, i)
        BY <2>1, <3>1 DEF Busy
      <3> QED
        BY <2>1, <2>3, <3>1, <3>2
    <2> QED
      BY <2>2, <2>3
  <1>2. CASE i \in Ids \ used
    <2>1. name[i] = NoName /\ \A p \in Posts : i \notin given[p]
      BY <1>2 DEF IInv, RowsAreKnown
    <2>2. \A q \in Requests : row[q] # i /\ ~Holds(q, i)
      BY <1>2, PostLinksAssumption DEF IInv, RowsAreKnown
    <2> QED
      BY <1>2, <2>1, <2>2 DEF Unseen
  <1> QED
    BY <1>1, <1>2 DEF TagRow

LEMMA UpsertTagStep == ASSUME IInv, NEW r \in Requests, UpsertTag(r) PROVE IInv'
  <1>1. /\ TypeOK /\ pc[r] = "tag" /\ WritesIts(r)
        /\ UNCHANGED <<tables, lastFile, job, row, cut, newFiles, stale>>
    BY DEF IInv, UpsertTag, WritesIts
  <1>2. IsPost(r) /\ PostWritesIts(r) /\ HasTags(r) /\ Writing(r)
    BY <1>1 DEF WritesIts, TagWritesIts, PostWritesIts, Writing
  <1>3. PICK k \in NextTags(r) :
          /\ Busy(r, todo[r][k]) = {}
          /\ \E i \in TagRow(r, todo[r][k]) :
               /\ rowWrite' = [rowWrite EXCEPT ![r][i] = todo[r][k]]
               /\ used' = used \cup {i}
               /\ add' = [add EXCEPT ![r] = @ \cup {i}]
          /\ todo' = [todo EXCEPT ![r] = RemoveAt(@, k)]
    BY DEF UpsertTag
  <1> DEFINE n == todo[r][k]
  <1>4. k \in DOMAIN todo[r] /\ n \in Names /\ todo[r] \in Seq(Names)
    <2>1. k = 1 /\ todo[r] # <<>> /\ todo[r] \in Seq(Names)
      BY <1>1, <1>2, <1>3 DEF NextTags, PostWritesIts, TypeOK
    <2> QED
      BY <2>1
  <1>5. PICK i \in TagRow(r, n) :
          /\ rowWrite' = [rowWrite EXCEPT ![r][i] = n]
          /\ used' = used \cup {i}
          /\ add' = [add EXCEPT ![r] = @ \cup {i}]
    BY <1>3
  <1>6. /\ todo' \in [Requests -> Seq(Names)] /\ todo'[r] = RemoveAt(todo[r], k)
        /\ \A q \in Requests \ {r} : todo'[q] = todo[q]
    <2>1. RemoveAt(todo[r], k) \in Seq(Names)
      BY <1>4, RemoveAtType
    <2>2. todo' = [todo EXCEPT ![r] = RemoveAt(todo[r], k)] /\ todo \in [Requests -> Seq(Names)]
      BY <1>1, <1>3 DEF TypeOK
    <2> QED
      BY <2>1, <2>2
  <1> HIDE DEF n
  <1>7. /\ i \in Ids /\ \A q \in Requests \ {r} : ~Holds(q, i)
        /\ \/ Holds(r, i) /\ rowWrite[r][i] = n
           \/ ~Holds(r, i) /\ name[i] = n
           \/ i \notin used /\ ~Holds(r, i) /\ Unseen(i)
    BY <1>3, <1>4, <1>5, TagRowIsFree DEF n
  <1>8. /\ rowWrite' \in [Requests -> [Ids -> Names \cup {NoName, Same}]]
        /\ rowWrite'[r][i] = n /\ \A j \in Ids \ {i} : rowWrite'[r][j] = rowWrite[r][j]
        /\ \A q \in Requests \ {r} : rowWrite'[q] = rowWrite[q]
    <2>1. rowWrite \in [Requests -> [Ids -> Names \cup {NoName, Same}]]
      BY <1>1 DEF TypeOK
    <2> QED
      BY <1>4, <1>5, <1>7, <2>1 DEF n
  <1>9. /\ add' \in [Requests -> SUBSET Ids] /\ add'[r] = add[r] \cup {i}
        /\ \A q \in Requests \ {r} : add'[q] = add[q]
    <2>1. add \in [Requests -> SUBSET Ids]
      BY <1>1 DEF TypeOK
    <2> QED
      BY <1>5, <1>7, <2>1
  <1>10. /\ pc' \in [Requests -> RequestPCs] /\ \A q \in Requests \ {r} : pc'[q] = pc[q]
         /\ pc'[r] = IF todo'[r] = <<>> THEN "commit" ELSE "tag"
    <2> DEFINE where == IF todo'[r] = <<>> THEN "commit" ELSE "tag"
    <2>1. where \in RequestPCs /\ Goto(r, where)
      BY DEF RequestPCs, UpsertTag
    <2> HIDE DEF where
    <2>2. pc' \in [Requests -> RequestPCs] /\ pc'[r] = where /\ \A q \in Requests \ {r} : pc'[q] = pc[q]
      BY <1>1, <2>1, GotoType
    <2> QED
      BY <2>2 DEF where
  <1>11. TypeOK' /\ used \subseteq used'
    BY <1>1, <1>5, <1>6, <1>7, <1>8, <1>9, <1>10 DEF TypeOK, tables
  <1>12. OnlyOf(r)
    BY <1>1, <1>6, <1>8, <1>9, <1>10 DEF OnlyOf
  <1>13. n # Same /\ n # NoName
    BY <1>4, PostLinksAssumption DEF n
  <1>14. Holds(r, i)' /\ \A j \in Ids \ {i} : Holds(r, j)' <=> Holds(r, j)
    BY <1>8, <1>13 DEF Holds
  <1>15. PostWritesIts(r)'
    <2>1. IsPost(r)' /\ HasTags(r)' /\ Writing(r)'
      BY <1>1, <1>2, <1>10 DEF IsPost, HasTags, Writing
    <2>2. Unseen(i) => Unseen(i)'
      BY <1>1 DEF Unseen, tables
    <2>3. ASSUME NEW j \in Ids, Holds(r, j)'
          PROVE  rowWrite'[r][j] # NoName /\ (rowWrite'[r][j] = name'[j] \/ Unseen(j)')
      <3>1. CASE j = i
        <4>1. CASE Holds(r, i) /\ rowWrite[r][i] = n
          BY <1>1, <1>2, <1>7, <1>8, <1>13, <2>2, <3>1, <4>1 DEF PostWritesIts, tables
        <4>2. CASE name[i] = n \/ Unseen(i)
          BY <1>1, <1>8, <1>13, <2>2, <3>1, <4>2 DEF tables
        <4> QED
          BY <1>7, <4>1, <4>2
      <3>2. CASE j # i
        <4>1. Holds(r, j) /\ rowWrite'[r][j] = rowWrite[r][j]
          BY <1>8, <1>14, <2>3, <3>2
        <4>2. rowWrite[r][j] # NoName /\ (rowWrite[r][j] = name[j] \/ Unseen(j))
          BY <1>2, <4>1 DEF PostWritesIts
        <4> QED
          BY <1>1, <4>1, <4>2 DEF Unseen, tables
      <3> QED
        BY <3>1, <3>2
    <2>4. add'[r] = {j \in Ids : Holds(r, j)'}
      BY <1>2, <1>7, <1>9, <1>14 DEF PostWritesIts
    <2>5. cut'[r] = LinksOf(job[r].post)'
      BY <1>1, <1>2 DEF PostWritesIts, LinksOf, tables
    <2>6. life'[job'[r].post] = IF job'[r].op = "create" THEN "absent" ELSE "live"
      BY <1>1, <1>2 DEF PostWritesIts, tables
    <2> QED
      BY <1>10, <2>1, <2>3, <2>4, <2>5, <2>6 DEF PostWritesIts
  <1>16. WritesIts(r)'
    BY <1>1, <1>2, <1>15 DEF WritesIts, IsPost
  <1>17. \A j \in Ids : Holds(r, j)' => j \in used'
    BY <1>5, <1>14 DEF IInv, RowsAreKnown
  <1>18. ASSUME NEW q \in Requests \ {r}
         PROVE  /\ cut[q] \cap cut'[r] = {}
                /\ \A j \in Ids : Holds(r, j)' => ~Holds(q, j)
                /\ ~(Writing(q) /\ Writing(r)' /\ job[q].post = job[r].post)
    BY <1>1, <1>2, <1>7, <1>14 DEF IInv, LocksAreExclusive
  <1>19. row'[r] # NoName => row'[r] \in used'
    BY <1>1, <1>11 DEF IInv, RowsAreKnown
  <1> QED
    BY <1>1, <1>11, <1>12, <1>16, <1>17, <1>18, <1>19, OwnStep

-----------------------------------------------------------------------------
(* Hashtags.                                                               *)

LEMMA RenameRowStep == ASSUME IInv, NEW r \in Requests, RenameRow(r) PROVE IInv'
  <1>1. /\ TypeOK /\ pc[r] = "new" /\ job[r].op = "rename" /\ WaitsFor(r) = {} /\ ~IsPost(r)
        /\ Goto(r, "unique") /\ "unique" \in RequestPCs
        /\ UNCHANGED <<tables, used, lastFile, job, todo, cut, add, newFiles, stale>>
    BY DEF IInv, RenameRow, At, IsPost, RequestPCs
  <1>2. PICK i \in Named(r, job[r].name) :
          /\ rowWrite' = [rowWrite EXCEPT ![r][i] = job[r].next]
          /\ row' = [row EXCEPT ![r] = i]
    BY DEF RenameRow
  <1>3. cut[r] = {} /\ add[r] = {} /\ \A j \in Ids : ~Holds(r, j)
    BY <1>1, NewHoldsNothing
  <1>4. job[r].name \in Names /\ job[r].next \in Names
    BY <1>1, JobFields
  <1>5. i \in Ids /\ name[i] = job[r].name /\ name[i] # NoName /\ i \in used
    BY <1>2, <1>3, <1>4, PostLinksAssumption DEF Named, IInv, RowsAreKnown
  <1>6. /\ rowWrite' \in [Requests -> [Ids -> Names \cup {NoName, Same}]]
        /\ rowWrite'[r][i] = job[r].next /\ \A j \in Ids \ {i} : rowWrite'[r][j] = rowWrite[r][j]
        /\ \A q \in Requests \ {r} : rowWrite'[q] = rowWrite[q]
    <2>1. rowWrite \in [Requests -> [Ids -> Names \cup {NoName, Same}]]
      BY <1>1 DEF TypeOK
    <2> QED
      BY <1>2, <1>4, <1>5, <2>1
  <1>7. /\ row' \in [Requests -> Ids \cup {NoName}] /\ row'[r] = i
        /\ \A q \in Requests \ {r} : row'[q] = row[q]
    <2>1. row \in [Requests -> Ids \cup {NoName}]
      BY <1>1 DEF TypeOK
    <2> QED
      BY <1>2, <1>5, <2>1
  <1>8. /\ pc' \in [Requests -> RequestPCs] /\ pc'[r] = "unique"
        /\ \A q \in Requests \ {r} : pc'[q] = pc[q]
    BY <1>1, GotoType
  <1>9. TypeOK' /\ OnlyOf(r)
    BY <1>1, <1>6, <1>7, <1>8 DEF TypeOK, tables, OnlyOf
  <1>10. \A j \in Ids : Holds(r, j)' <=> j = i
    BY <1>3, <1>4, <1>5, <1>6, PostLinksAssumption DEF Holds
  <1>11. ~IsPost(r)' /\ ~Writing(r)' /\ TagWritesIts(r)'
    BY <1>1, <1>3, <1>4, <1>5, <1>6, <1>7, <1>8, <1>10 DEF IsPost, Writing, TagWritesIts, tables
  <1>12. \A q \in Requests \ {r} : ~Holds(q, i)
    <2>1. WaitsFor(r) = UNION {Holders(r, j) : j \in Named(r, job[r].name)}
      BY <1>1 DEF WaitsFor
    <2> QED
      BY <1>1, <2>1 DEF Holders
  <1> QED
    BY <1>1, <1>3, <1>5, <1>7, <1>9, <1>10, <1>11, <1>12, OwnStep DEF WritesIts

LEMMA CheckUniqueStep == ASSUME IInv, NEW r \in Requests, CheckUnique(r) PROVE IInv'
  <1>1. /\ TypeOK /\ pc[r] = "unique" /\ job[r].op = "rename" /\ ~IsPost(r)
        /\ Goto(r, "commit") /\ "commit" \in RequestPCs
        /\ UNCHANGED <<tables, used, lastFile, job, todo, row, writes, stale>>
    BY DEF IInv, CheckUnique, At, IsPost, RequestPCs
  <1>2. /\ pc' \in [Requests -> RequestPCs] /\ pc'[r] = "commit"
        /\ \A q \in Requests \ {r} : pc'[q] = pc[q]
    BY <1>1, GotoType
  <1>3. TypeOK' /\ OnlyOf(r)
    BY <1>1, <1>2 DEF TypeOK, tables, writes, OnlyOf
  <1>4. TagWritesIts(r) /\ \A j \in Ids : Holds(r, j)' <=> Holds(r, j)
    BY <1>1 DEF IInv, Holds, writes
  <1>5. ~IsPost(r)' /\ ~Writing(r)' /\ TagWritesIts(r)'
    BY <1>1, <1>2, <1>4 DEF IsPost, Writing, TagWritesIts, tables, writes
  <1>6. ASSUME NEW q \in Requests \ {r}
        PROVE  cut[q] \cap cut'[r] = {} /\ \A i \in Ids : Holds(r, i)' => ~Holds(q, i)
    BY <1>1, <1>4 DEF IInv, LocksAreExclusive, writes
  <1>7. /\ row'[r] # NoName => row'[r] \in used'
        /\ \A i \in Ids : Holds(r, i)' => i \in used'
    BY <1>1, <1>4 DEF IInv, RowsAreKnown
  <1> QED
    BY <1>1, <1>3, <1>5, <1>6, <1>7, OwnStep DEF WritesIts

LEMMA FindTagStep == ASSUME IInv, NEW r \in Requests, FindTag(r) PROVE IInv'
  <1>1. /\ TypeOK /\ pc[r] = "new" /\ job[r].op = "deleteTag" /\ ~IsPost(r)
        /\ Goto(r, "unlinkTag") /\ "unlinkTag" \in RequestPCs
        /\ UNCHANGED <<tables, used, lastFile, job, todo, writes, stale>>
    BY DEF IInv, FindTag, At, IsPost, RequestPCs
  <1>2. PICK i \in Named(r, job[r].name) : row' = [row EXCEPT ![r] = i]
    BY DEF FindTag
  <1>3. cut[r] = {} /\ add[r] = {} /\ \A j \in Ids : ~Holds(r, j)
    BY <1>1, NewHoldsNothing
  <1>4. i \in Ids /\ name[i] = job[r].name /\ name[i] # NoName /\ i \in used
    <2>1. job[r].name \in Names
      BY <1>1, JobFields
    <2> QED
      BY <1>2, <1>3, <2>1, PostLinksAssumption DEF Named, IInv, RowsAreKnown
  <1>5. /\ row' \in [Requests -> Ids \cup {NoName}] /\ row'[r] = i
        /\ \A q \in Requests \ {r} : row'[q] = row[q]
    <2>1. row \in [Requests -> Ids \cup {NoName}]
      BY <1>1 DEF TypeOK
    <2> QED
      BY <1>2, <1>4, <2>1
  <1>6. /\ pc' \in [Requests -> RequestPCs] /\ pc'[r] = "unlinkTag"
        /\ \A q \in Requests \ {r} : pc'[q] = pc[q]
    BY <1>1, GotoType
  <1>7. TypeOK' /\ OnlyOf(r)
    BY <1>1, <1>5, <1>6 DEF TypeOK, tables, writes, OnlyOf
  <1>8. cut'[r] = {} /\ add'[r] = {} /\ \A j \in Ids : ~Holds(r, j)'
    BY <1>1, <1>3 DEF Holds, writes
  <1>9. ~IsPost(r)' /\ ~Writing(r)' /\ TagWritesIts(r)'
    BY <1>1, <1>4, <1>5, <1>6, <1>8 DEF IsPost, Writing, TagWritesIts, tables
  <1> QED
    BY <1>1, <1>4, <1>5, <1>7, <1>8, <1>9, OwnStep DEF WritesIts

LEMMA UnlinkTagStep == ASSUME IInv, NEW r \in Requests, UnlinkTag(r) PROVE IInv'
  <1> DEFINE L == LinksWith(row[r])
  <1>1. /\ TypeOK /\ pc[r] = "unlinkTag" /\ job[r].op = "deleteTag" /\ ~IsPost(r)
        /\ WaitsFor(r) = {} /\ Goto(r, "dropTag") /\ "dropTag" \in RequestPCs
        /\ cut' = [cut EXCEPT ![r] = L]
        /\ UNCHANGED <<tables, used, lastFile, job, todo, row, rowWrite, add, newFiles, stale>>
    BY DEF IInv, UnlinkTag, At, IsPost, RequestPCs
  <1>2. L \in SUBSET (Posts \X Ids)
    BY <1>1 DEF LinksWith, TypeOK
  <1> HIDE DEF L
  <1>3. /\ pc' \in [Requests -> RequestPCs] /\ pc'[r] = "dropTag"
        /\ \A q \in Requests \ {r} : pc'[q] = pc[q]
    BY <1>1, GotoType
  <1>4. /\ cut' \in [Requests -> SUBSET (Posts \X Ids)] /\ cut'[r] = L
        /\ \A q \in Requests \ {r} : cut'[q] = cut[q]
    <2>1. cut \in [Requests -> SUBSET (Posts \X Ids)]
      BY <1>1 DEF TypeOK
    <2> QED
      BY <1>1, <1>2, <2>1
  <1>5. TypeOK' /\ OnlyOf(r)
    BY <1>1, <1>3, <1>4 DEF TypeOK, tables, OnlyOf
  <1>6. TagWritesIts(r) /\ \A i \in Ids : ~Holds(r, i) /\ ~Holds(r, i)'
    BY <1>1 DEF IInv, TagWritesIts, Holds
  <1>7. ~IsPost(r)' /\ ~Writing(r)' /\ TagWritesIts(r)'
    <2>1. L = LinksWith(row[r])'
      BY <1>1 DEF L, LinksWith, tables
    <2> QED
      BY <1>1, <1>3, <1>4, <1>6, <2>1 DEF IsPost, Writing, TagWritesIts, tables
  <1>8. ASSUME NEW q \in Requests \ {r} PROVE cut[q] \cap cut'[r] = {}
    <2>1. WaitsFor(r) = Cutters(r, L)
      BY <1>1 DEF WaitsFor, L
    <2> QED
      BY <1>1, <1>4, <2>1 DEF Cutters
  <1>9. row'[r] # NoName => row'[r] \in used'
    BY <1>1 DEF IInv, RowsAreKnown
  <1> QED
    BY <1>1, <1>5, <1>6, <1>7, <1>8, <1>9, OwnStep DEF WritesIts

LEMMA DropTagStep == ASSUME IInv, NEW r \in Requests, DropTag(r) PROVE IInv'
  <1> DEFINE i == row[r]
  <1>1. /\ TypeOK /\ pc[r] = "dropTag" /\ job[r].op = "deleteTag" /\ ~IsPost(r)
        /\ WaitsFor(r) = {} /\ Goto(r, "commit") /\ "commit" \in RequestPCs
        /\ name[i] # NoName /\ LinksWith(i) \subseteq cut[r]
        /\ rowWrite' = [rowWrite EXCEPT ![r][i] = NoName]
        /\ UNCHANGED <<tables, used, lastFile, job, todo, row, cut, add, newFiles, stale>>
    BY DEF IInv, DropTag, At, IsPost, RequestPCs
  <1>2. TagWritesIts(r) /\ i \in Ids /\ \A j \in Ids : ~Holds(r, j)
    BY <1>1 DEF IInv, TagWritesIts
  <1>3. cut[r] = LinksWith(i)
    BY <1>1, <1>2 DEF TagWritesIts
  <1>4. /\ rowWrite' \in [Requests -> [Ids -> Names \cup {NoName, Same}]]
        /\ rowWrite'[r][i] = NoName /\ \A j \in Ids \ {i} : rowWrite'[r][j] = rowWrite[r][j]
        /\ \A q \in Requests \ {r} : rowWrite'[q] = rowWrite[q]
    <2>1. rowWrite \in [Requests -> [Ids -> Names \cup {NoName, Same}]]
      BY <1>1 DEF TypeOK
    <2> QED
      BY <1>1, <1>2, <2>1
  <1>5. /\ pc' \in [Requests -> RequestPCs] /\ pc'[r] = "commit"
        /\ \A q \in Requests \ {r} : pc'[q] = pc[q]
    BY <1>1, GotoType
  <1>6. TypeOK' /\ OnlyOf(r)
    BY <1>1, <1>4, <1>5 DEF TypeOK, tables, OnlyOf
  <1>7. \A j \in Ids : Holds(r, j)' <=> j = i
    BY <1>2, <1>4, PostLinksAssumption DEF Holds
  <1>8. ~IsPost(r)' /\ ~Writing(r)' /\ TagWritesIts(r)'
    <2>1. row'[r] = i /\ name' = name /\ links' = links /\ cut' = cut /\ add' = add /\ job' = job
      BY <1>1 DEF tables
    <2>2. LinksWith(row[r])' = LinksWith(i)
      BY <2>1 DEF LinksWith
    <2> QED
      BY <1>1, <1>2, <1>3, <1>4, <1>5, <1>7, <2>1, <2>2 DEF IsPost, Writing, TagWritesIts
  <1>9. ASSUME NEW q \in Requests \ {r}
        PROVE  cut[q] \cap cut'[r] = {} /\ \A j \in Ids : Holds(r, j)' => ~Holds(q, j)
    <2>1. WaitsFor(r) = Holders(r, i) \cup Cutters(r, LinksWith(i))
      BY <1>1 DEF WaitsFor
    <2>2. ~Holds(q, i)
      BY <1>1, <2>1 DEF Holders
    <2> QED
      BY <1>1, <1>7, <2>2 DEF IInv, LocksAreExclusive
  <1>10. /\ row'[r] # NoName => row'[r] \in used'
         /\ \A j \in Ids : Holds(r, j)' => j \in used'
    BY <1>1, <1>2, <1>7 DEF IInv, RowsAreKnown
  <1> QED
    BY <1>1, <1>6, <1>8, <1>9, <1>10, OwnStep DEF WritesIts

-----------------------------------------------------------------------------
(* Statements that are transactions of their own.                          *)

\* Nothing is held by the request, before and after.
LEMMA DeletePostStep == ASSUME IInv, NEW r \in Requests, DeletePost(r) PROVE IInv'
  <1> DEFINE post == job[r].post
  <1>1. /\ TypeOK /\ pc[r] = "new" /\ job[r].op = "deletePost" /\ ~IsPost(r) /\ post \in Posts
        /\ WaitsFor(r) = {} /\ Goto(r, "done") /\ "done" \in RequestPCs /\ life[post] = "live"
        /\ life' = [life EXCEPT ![post] = "deleted"]
        /\ UNCHANGED <<name, links, files, given, used, lastFile, job, todo, row, stale>>
        /\ UNCHANGED <<rowWrite, cut, add, newFiles>>
    BY JobFields DEF IInv, DeletePost, At, IsPost, RequestPCs, writes
  <1>2. cut[r] = {} /\ add[r] = {} /\ \A j \in Ids : ~Holds(r, j)
    BY <1>1, NewHoldsNothing
  <1>3. /\ pc' \in [Requests -> RequestPCs] /\ pc'[r] = "done"
        /\ \A q \in Requests \ {r} : pc'[q] = pc[q]
    BY <1>1, GotoType
  <1>4. /\ life' \in [Posts -> {"absent", "live", "deleted"}] /\ life'[post] = "deleted"
        /\ \A p \in Posts \ {post} : life'[p] = life[p]
    BY <1>1 DEF TypeOK
  <1>5. TypeOK'
    BY <1>1, <1>3, <1>4 DEF TypeOK
  <1>6. \A q \in Requests, j \in Ids : Holds(q, j)' <=> Holds(q, j)
    BY <1>1 DEF Holds
  <1>7. \A q \in Requests : IsPost(q)' = IsPost(q) /\ HasTags(q)' = HasTags(q)
    BY <1>1 DEF IsPost, HasTags
  <1>8. \A q \in Requests \ {r} : Writing(q)' = Writing(q)
    BY <1>3, <1>7 DEF Writing
  <1>9. WritesIts(r)' /\ ~Writing(r)'
    BY <1>1, <1>2, <1>3, <1>6, EndedWritesIts
  <1>10. ASSUME NEW q \in Requests \ {r} PROVE WritesIts(q)'
    <2>1. CASE IsPost(q)
      <3>1. PostWritesIts(q) /\ job[q].post \in Posts
        BY <1>1, <2>1, JobFields DEF IInv
      <3>2. WaitsFor(r) = Writers(r, post)
        BY <1>1 DEF WaitsFor
      <3>3. Writing(q) => job[q].post # post
        <4> SUFFICES ASSUME Writing(q), job[q].post = post PROVE FALSE
          OBVIOUS
        <4>1. job[q].op = "edit"
          BY <1>1, <2>1, <3>1 DEF PostWritesIts, IsPost
        <4> QED
          BY <1>1, <3>2, <4>1 DEF Writers, Writing
      <3>4. Writing(q)' => life'[job'[q].post] = IF job'[q].op = "create" THEN "absent" ELSE "live"
        BY <1>1, <1>4, <1>8, <3>1, <3>3 DEF PostWritesIts
      <3>5. \A i \in Ids : Unseen(i) => Unseen(i)'
        BY <1>1 DEF Unseen
      <3>6. PostWritesIts(q)'
        BY <1>1, <1>3, <1>6, <1>7, <3>1, <3>4, <3>5 DEF PostWritesIts, LinksOf
      <3> QED
        BY <1>7, <2>1, <3>6 DEF WritesIts
    <2>2. CASE ~IsPost(q)
      <3>1. TagWritesIts(q)
        BY <2>2 DEF IInv
      <3>2. TagWritesIts(q)'
        BY <1>1, <1>3, <1>6, <3>1 DEF TagWritesIts, LinksWith
      <3> QED
        BY <1>7, <2>2, <3>2 DEF WritesIts
    <2> QED
      BY <2>1, <2>2
  <1>11. LocksAreExclusive'
    <2> SUFFICES ASSUME NEW q \in Requests, NEW o \in Requests, q # o
                 PROVE  /\ job[q].op = "create" /\ job[o].op = "create" => job[q].post # job[o].post
                        /\ cut[q] \cap cut[o] = {}
                        /\ \A i \in Ids : ~(Holds(q, i)' /\ Holds(o, i)')
                        /\ ~(Writing(q)' /\ Writing(o)' /\ job[q].post = job[o].post)
      BY <1>1 DEF LocksAreExclusive
    <2> QED
      BY <1>6, <1>8, <1>9 DEF IInv, LocksAreExclusive
  <1>12. RowsAreKnown' /\ LinksFollowLastWrite'
    BY <1>1, <1>6 DEF IInv, RowsAreKnown, LinksFollowLastWrite
  <1>13. TablesAreSound'
    BY <1>1, <1>4 DEF IInv, TablesAreSound
  <1> QED
    BY <1>5, <1>9, <1>10, <1>11, <1>12, <1>13 DEF IInv, WritesIts

\* The name is there, or its row is new to everybody.
LEMMA CreateTagStep == ASSUME IInv, NEW r \in Requests, CreateTag(r) PROVE IInv'
  <1> DEFINE n == job[r].name
  <1>1. /\ TypeOK /\ pc[r] = "new" /\ job[r].op = "createTag" /\ ~IsPost(r) /\ n \in Names
        /\ WaitsFor(r) = {} /\ Goto(r, "done") /\ "done" \in RequestPCs
        /\ UNCHANGED <<links, files, life, given, lastFile, job, todo, row, stale>>
        /\ UNCHANGED <<rowWrite, cut, add, newFiles>>
    BY JobFields DEF IInv, CreateTag, At, IsPost, RequestPCs, writes
  <1>2. PICK i \in TagRow(r, n) : name' = [name EXCEPT ![i] = n] /\ used' = used \cup {i}
    BY DEF CreateTag
  <1>3. cut[r] = {} /\ add[r] = {} /\ \A j \in Ids : ~Holds(r, j)
    BY <1>1, NewHoldsNothing
  <1>4. Busy(r, n) = {}
    BY <1>1 DEF WaitsFor
  <1>5. /\ i \in Ids /\ \A q \in Requests : ~Holds(q, i)
        /\ name[i] = n \/ (i \notin used /\ Unseen(i))
    BY <1>1, <1>2, <1>3, <1>4, TagRowIsFree
  <1>6. /\ name' \in [Ids -> Names \cup {NoName}] /\ name'[i] = n
        /\ \A j \in Ids \ {i} : name'[j] = name[j]
    <2>1. name \in [Ids -> Names \cup {NoName}]
      BY <1>1 DEF TypeOK
    <2> QED
      BY <1>1, <1>2, <1>5, <2>1
  <1>7. /\ pc' \in [Requests -> RequestPCs] /\ pc'[r] = "done"
        /\ \A q \in Requests \ {r} : pc'[q] = pc[q]
    BY <1>1, GotoType
  <1>8. TypeOK'
    BY <1>1, <1>2, <1>5, <1>6, <1>7 DEF TypeOK
  <1>9. \A q \in Requests, j \in Ids : Holds(q, j)' <=> Holds(q, j)
    BY <1>1 DEF Holds
  <1>10. \A q \in Requests : IsPost(q)' = IsPost(q) /\ HasTags(q)' = HasTags(q)
    BY <1>1 DEF IsPost, HasTags
  <1>11. \A q \in Requests \ {r} : Writing(q)' = Writing(q)
    BY <1>7, <1>10 DEF Writing
  <1>12. WritesIts(r)' /\ ~Writing(r)'
    BY <1>1, <1>3, <1>7, <1>9, EndedWritesIts
  <1>13. ASSUME NEW q \in Requests \ {r} PROVE WritesIts(q)'
    <2>1. \A j \in Ids : Holds(q, j) => name'[j] = name[j]
      BY <1>5, <1>6
    <2>2. CASE IsPost(q)
      <3>1. PostWritesIts(q)
        BY <2>2 DEF IInv
      <3>2. \A j \in Ids : Holds(q, j) /\ Unseen(j) => Unseen(j)'
        BY <1>1, <2>1 DEF Unseen
      <3>3. PostWritesIts(q)'
        BY <1>1, <1>7, <1>9, <1>10, <1>11, <2>1, <3>1, <3>2 DEF PostWritesIts, LinksOf
      <3> QED
        BY <1>10, <2>2, <3>3 DEF WritesIts
    <2>3. CASE ~IsPost(q)
      <3>1. TagWritesIts(q)
        BY <2>3 DEF IInv
      <3>2. row[q] \in Ids => row[q] \in used
        BY PostLinksAssumption DEF IInv, RowsAreKnown
      <3>3. row[q] \in Ids => name'[row[q]] = name[row[q]]
        BY <1>5, <1>6, <3>2
      <3>4. pc'[q] \in {"unlinkTag", "dropTag"} =>
              row'[q] \in Ids /\ (q \notin stale' => name'[row'[q]] \in {job'[q].name, NoName})
        BY <1>1, <1>7, <3>1, <3>3 DEF TagWritesIts
      <3>5. TagWritesIts(q)'
        BY <1>1, <1>7, <1>9, <2>1, <3>1, <3>4 DEF TagWritesIts, LinksWith
      <3> QED
        BY <1>10, <2>3, <3>5 DEF WritesIts
    <2> QED
      BY <2>2, <2>3
  <1>14. LocksAreExclusive'
    <2> SUFFICES ASSUME NEW q \in Requests, NEW o \in Requests, q # o
                 PROVE  /\ job[q].op = "create" /\ job[o].op = "create" => job[q].post # job[o].post
                        /\ cut[q] \cap cut[o] = {}
                        /\ \A j \in Ids : ~(Holds(q, j)' /\ Holds(o, j)')
                        /\ ~(Writing(q)' /\ Writing(o)' /\ job[q].post = job[o].post)
      BY <1>1 DEF LocksAreExclusive
    <2> QED
      BY <1>9, <1>11, <1>12 DEF IInv, LocksAreExclusive
  <1>15. RowsAreKnown'
    BY <1>1, <1>2, <1>5, <1>6, <1>9 DEF IInv, RowsAreKnown
  <1>16. TablesAreSound'
    BY <1>1 DEF IInv, TablesAreSound
  <1>17. LinksFollowLastWrite'
    <2> SUFFICES ASSUME NEW p \in Posts
                 PROVE  {j \in Ids : <<p, j>> \in links} = {j \in given[p] : name'[j] # NoName}
      BY <1>1 DEF LinksFollowLastWrite
    <2>1. {j \in Ids : <<p, j>> \in links} = {j \in given[p] : name[j] # NoName}
      BY DEF IInv, LinksFollowLastWrite
    <2>2. \A j \in given[p] : name'[j] = name[j]
      <3>1. given[p] \subseteq Ids
        BY <1>1 DEF TypeOK
      <3> QED
        BY <1>5, <1>6, <3>1 DEF Unseen
    <2> QED
      BY <2>1, <2>2
  <1> QED
    BY <1>8, <1>12, <1>13, <1>14, <1>15, <1>16, <1>17 DEF IInv, WritesIts

-----------------------------------------------------------------------------
(* The commit.                                                             *)

\* What it does to the tables.
LEMMA CommitType ==
  ASSUME IInv, NEW r \in Requests, Commit(r)
  PROVE  /\ TypeOK'
         /\ \A i \in Ids : name'[i] = IF Holds(r, i) THEN rowWrite[r][i] ELSE name[i]
         /\ IsPost(r) => /\ life'[job[r].post] = "live"
                         /\ \A p \in Posts \ {job[r].post} : life'[p] = life[p]
         /\ ~IsPost(r) => life' = life
         /\ HasTags(r) => /\ given'[job[r].post] = add[r]
                          /\ \A p \in Posts \ {job[r].post} : given'[p] = given[p]
         /\ ~HasTags(r) => given' = given
         /\ pc'[r] = "done" /\ OnlyOf(r)
         /\ cut'[r] = {} /\ add'[r] = {} /\ \A i \in Ids : ~Holds(r, i)'
  <1> DEFINE post == job[r].post
  <1>1. /\ TypeOK /\ pc[r] = "commit" /\ post \in Posts /\ Release(r) /\ Goto(r, "done")
        /\ "done" \in RequestPCs /\ UNCHANGED <<used, lastFile, job, todo, row>>
    BY JobFields DEF IInv, Commit, RequestPCs
  <1>2. /\ rowWrite' \in [Requests -> [Ids -> Names \cup {NoName, Same}]]
        /\ cut' \in [Requests -> SUBSET (Posts \X Ids)] /\ add' \in [Requests -> SUBSET Ids]
        /\ newFiles' \in [Requests -> SUBSET Rows]
        /\ cut'[r] = {} /\ add'[r] = {} /\ \A i \in Ids : ~Holds(r, i)'
        /\ \A q \in Requests \ {r} :
             rowWrite'[q] = rowWrite[q] /\ cut'[q] = cut[q] /\ add'[q] = add[q]
    BY <1>1, ReleaseOwn
  <1>3. /\ pc' \in [Requests -> RequestPCs] /\ pc'[r] = "done"
        /\ \A q \in Requests \ {r} : pc'[q] = pc[q]
    BY <1>1, GotoType
  <1>4. /\ name' \in [Ids -> Names \cup {NoName}]
        /\ \A i \in Ids : name'[i] = IF Holds(r, i) THEN rowWrite[r][i] ELSE name[i]
    <2>1. name' = [i \in Ids |-> IF Holds(r, i) THEN rowWrite[r][i] ELSE name[i]]
      BY DEF Commit
    <2>2. ASSUME NEW i \in Ids
          PROVE  (IF Holds(r, i) THEN rowWrite[r][i] ELSE name[i]) \in Names \cup {NoName}
      <3>1. name[i] \in Names \cup {NoName} /\ rowWrite[r][i] \in Names \cup {NoName, Same}
        BY <1>1 DEF TypeOK
      <3> QED
        BY <3>1 DEF Holds
    <2> QED
      BY <2>1, <2>2
  <1>5. links' \subseteq Posts \X Ids
    <2>1. links' = (links \ cut[r]) \cup ({post} \X add[r])
      BY DEF Commit
    <2>2. links \subseteq Posts \X Ids /\ add[r] \subseteq Ids
      BY <1>1 DEF TypeOK
    <2> QED
      BY <1>1, <2>1, <2>2
  <1>6. files' \in [Posts -> SUBSET Rows]
    <2>1. files \in [Posts -> SUBSET Rows] /\ newFiles[r] \in SUBSET Rows
      BY <1>1 DEF TypeOK
    <2>2. files' = IF IsPost(r) THEN [files EXCEPT ![post] = newFiles[r]] ELSE files
      BY DEF Commit
    <2> QED
      BY <1>1, <2>1, <2>2
  <1>7. /\ life' \in [Posts -> {"absent", "live", "deleted"}]
        /\ IsPost(r) => life'[post] = "live" /\ \A p \in Posts \ {post} : life'[p] = life[p]
        /\ ~IsPost(r) => life' = life
    <2>1. life \in [Posts -> {"absent", "live", "deleted"}]
      BY <1>1 DEF TypeOK
    <2>2. life' = IF IsPost(r) THEN [life EXCEPT ![post] = "live"] ELSE life
      BY DEF Commit
    <2> QED
      BY <1>1, <2>1, <2>2
  <1>8. /\ given' \in [Posts -> SUBSET Ids]
        /\ HasTags(r) => given'[post] = add[r] /\ \A p \in Posts \ {post} : given'[p] = given[p]
        /\ ~HasTags(r) => given' = given
    <2>1. given \in [Posts -> SUBSET Ids] /\ add[r] \in SUBSET Ids
      BY <1>1 DEF TypeOK
    <2>2. given' = IF HasTags(r) THEN [given EXCEPT ![post] = add[r]] ELSE given
      BY DEF Commit
    <2> QED
      BY <1>1, <2>1, <2>2
  <1>9. stale' \subseteq Requests
    BY <1>1 DEF Commit, TypeOK
  <1>10. TypeOK'
    BY <1>1, <1>2, <1>3, <1>4, <1>5, <1>6, <1>7, <1>8, <1>9 DEF TypeOK
  <1>11. OnlyOf(r)
    BY <1>1, <1>2, <1>3 DEF OnlyOf
  <1> QED
    BY <1>2, <1>3, <1>4, <1>7, <1>8, <1>10, <1>11

\* A row that another request found, or that has a name, gets no other name but
\* by a rename or a deletion of it.
LEMMA CommitOfPost ==
  ASSUME IInv, NEW r \in Requests, Commit(r), IsPost(r), NEW i \in Ids
  PROVE  /\ name'[i] = name[i] \/ (Holds(r, i) /\ Unseen(i))
         /\ Holds(r, i) => name'[i] # NoName
  <1>1. PostWritesIts(r)
    BY DEF IInv
  <1>2. name'[i] = IF Holds(r, i) THEN rowWrite[r][i] ELSE name[i]
    BY CommitType
  <1> QED
    BY <1>1, <1>2 DEF PostWritesIts

\* Others keep what they hold.
LEMMA CommitLeavesOthers ==
  ASSUME IInv, NEW r \in Requests, Commit(r), NEW q \in Requests, q # r
  PROVE  WritesIts(q)'
  <1>1. /\ TypeOK /\ pc[r] = "commit" /\ job' = job
        /\ links' = (links \ cut[r]) \cup ({job[r].post} \X add[r])
    BY DEF IInv, Commit
  <1>2. /\ pc'[q] = pc[q] /\ row'[q] = row[q] /\ rowWrite'[q] = rowWrite[q]
        /\ cut'[q] = cut[q] /\ add'[q] = add[q] /\ todo'[q] = todo[q]
        /\ \A o \in Requests : row'[o] = row[o]
    <2>1. OnlyOf(r)
      BY CommitType
    <2>2. row' = row
      BY DEF Commit
    <2> QED
      BY <2>1, <2>2 DEF OnlyOf
  <1>3. /\ IsPost(q)' = IsPost(q) /\ HasTags(q)' = HasTags(q) /\ Writing(q)' = Writing(q)
        /\ \A i \in Ids : Holds(q, i)' <=> Holds(q, i)
    BY <1>1, <1>2 DEF IsPost, HasTags, Writing, Holds
  <1>4. /\ \A i \in Ids : Holds(q, i) => ~Holds(r, i) /\ name'[i] = name[i]
        /\ cut[q] \cap cut[r] = {}
        /\ ~(Writing(q) /\ Writing(r) /\ job[q].post = job[r].post)
    BY CommitType DEF IInv, LocksAreExclusive
  <1>5. \A i \in add[r] : Holds(r, i)
    BY DEF IInv, PostWritesIts, TagWritesIts
  <1>6. CASE IsPost(q)
    <2>1. PostWritesIts(q) /\ job[q].post \in Posts
      BY <1>1, <1>6, JobFields DEF IInv
    <2>2. Writing(q) /\ IsPost(r) => job[q].post # job[r].post
      BY <1>1, <1>4 DEF Writing
    <2>3. Writing(q)' => life'[job'[q].post] = IF job'[q].op = "create" THEN "absent" ELSE "live"
      <3>1. Writing(q) => life'[job[q].post] = life[job[q].post]
        BY <2>1, <2>2, CommitType
      <3> QED
        BY <1>1, <1>3, <2>1, <3>1 DEF PostWritesIts
    <2>4. cut'[q] = IF HasTags(q)' /\ pc'[q] \in {"tag", "commit"} THEN LinksOf(job[q].post)' ELSE {}
      <3>1. CASE HasTags(q) /\ pc[q] \in {"tag", "commit"}
        <4>1. Writing(q) /\ cut[q] = LinksOf(job[q].post)
          BY <1>6, <2>1, <3>1 DEF Writing, PostWritesIts
        <4>2. add[r] = {} \/ job[q].post # job[r].post
          BY <2>2, <4>1 DEF IInv, TagWritesIts
        <4>3. {l \in links' : l[1] = job[q].post} = {l \in links : l[1] = job[q].post}
          BY <1>1, <1>4, <4>1, <4>2 DEF LinksOf
        <4>4. LinksOf(job[q].post)' = LinksOf(job[q].post)
          BY <1>1, <4>3 DEF LinksOf
        <4> QED
          BY <1>2, <1>3, <3>1, <4>1, <4>4
      <3>2. CASE ~(HasTags(q) /\ pc[q] \in {"tag", "commit"})
        BY <1>2, <1>3, <2>1, <3>2 DEF PostWritesIts
      <3> QED
        BY <3>1, <3>2
    <2>5. ASSUME NEW i \in Ids, Holds(q, i), Unseen(i) PROVE Unseen(i)'
      <3>1. name'[i] = NoName /\ \A o \in Requests : row'[o] # i
        BY <1>2, <1>4, <2>5 DEF Unseen
      <3>2. ASSUME NEW p \in Posts PROVE i \notin given'[p]
        <4>1. i \notin given[p] /\ i \notin add[r]
          BY <1>4, <1>5, <2>5 DEF Unseen
        <4> QED
          BY <4>1, CommitType
      <3> QED
        BY <3>1, <3>2 DEF Unseen
    <2>6. \A i \in Ids : Holds(q, i)' =>
            rowWrite'[q][i] # NoName /\ (rowWrite'[q][i] = name'[i] \/ Unseen(i)')
      BY <1>2, <1>3, <1>4, <2>1, <2>5 DEF PostWritesIts
    <2>7. PostWritesIts(q)'
      BY <1>1, <1>2, <1>3, <2>1, <2>3, <2>4, <2>6 DEF PostWritesIts
    <2> QED
      BY <1>3, <1>6, <2>7 DEF WritesIts
  <1>7. CASE ~IsPost(q)
    <2>1. TagWritesIts(q)
      BY <1>7 DEF IInv
    <2>2. cut'[q] # {} => /\ job'[q].op = "deleteTag" /\ pc'[q] \in {"dropTag", "commit"}
                          /\ cut'[q] \subseteq LinksWith(row[q])'
      <3>1. cut[q] \subseteq LinksWith(row[q]) => cut[q] \subseteq LinksWith(row[q])'
        BY <1>1, <1>2, <1>4 DEF LinksWith
      <3> QED
        BY <1>1, <1>2, <2>1, <3>1 DEF TagWritesIts
    <2>3. job'[q].op = "deleteTag" /\ pc'[q] = "commit" =>
            row'[q] \in Ids /\ Holds(q, row[q])' /\ cut'[q] = LinksWith(row[q])'
      <3> SUFFICES ASSUME job[q].op = "deleteTag", pc[q] = "commit"
                   PROVE  row'[q] \in Ids /\ Holds(q, row[q])' /\ cut'[q] = LinksWith(row[q])'
        BY <1>1, <1>2
      <3>1. row[q] \in Ids /\ Holds(q, row[q]) /\ cut[q] = LinksWith(row[q])
        BY <2>1 DEF TagWritesIts
      <3>2. row[q] \notin add[r]
        BY <1>4, <1>5, <3>1
      <3>3. {l \in links' : l[2] = row[q]} = {l \in links : l[2] = row[q]}
        BY <1>1, <1>4, <3>1, <3>2 DEF LinksWith
      <3>4. LinksWith(row[q])' = LinksWith(row[q])
        BY <1>2, <3>3 DEF LinksWith
      <3> QED
        BY <1>2, <1>3, <3>1, <3>4 DEF Holds
    <2>4. pc'[q] \in {"unlinkTag", "dropTag"} =>
            row'[q] \in Ids /\ (q \notin stale' => name'[row'[q]] \in {job'[q].name, NoName})
      <3> SUFFICES ASSUME pc[q] \in {"unlinkTag", "dropTag"}
                   PROVE  row[q] \in Ids /\ (q \notin stale' => name'[row[q]] \in {job[q].name, NoName})
        BY <1>1, <1>2
      <3>1. row[q] \in Ids /\ (q \notin stale => name[row[q]] \in {job[q].name, NoName})
        BY <2>1 DEF TagWritesIts
      <3>2. name'[row[q]] = IF Holds(r, row[q]) THEN rowWrite[r][row[q]] ELSE name[row[q]]
        BY <3>1, CommitType
      <3>3. stale \subseteq stale'
        BY DEF Commit
      <3>4. CASE IsPost(r)
        BY <3>1, <3>3, <3>4, CommitOfPost DEF Unseen
      <3>5. CASE ~IsPost(r) /\ Holds(r, row[q])
        <4>1. TagWritesIts(r)
          BY <3>5 DEF IInv
        <4>2. row[q] = row[r] /\ (job[r].op = "rename" \/ rowWrite[r][row[q]] = NoName)
          BY <3>1, <3>5, <4>1 DEF TagWritesIts
        <4>3. job[r].op = "rename" => q \in stale'
          BY <4>2 DEF Commit
        <4> QED
          BY <3>1, <3>2, <3>5, <4>2, <4>3
      <3>6. CASE ~Holds(r, row[q])
        BY <3>1, <3>2, <3>3, <3>6
      <3> QED
        BY <3>4, <3>5, <3>6
    <2>5. \A i \in Ids : Holds(q, i)' =>
            /\ i = row'[q] /\ name'[i] # NoName
            /\ IF job'[q].op = "deleteTag" THEN pc'[q] = "commit" /\ rowWrite'[q][i] = NoName
               ELSE job'[q].op = "rename" /\ pc'[q] \in {"unique", "commit"} /\ rowWrite'[q][i] \in Names
      BY <1>1, <1>2, <1>3, <1>4, <2>1 DEF TagWritesIts
    <2>6. add'[q] = {} /\ pc'[q] \notin {"unlink", "tag"}
      BY <1>2, <2>1 DEF TagWritesIts
    <2>7. row'[q] = row[q]
      BY <1>2
    <2>8. TagWritesIts(q)'
      BY <2>2, <2>3, <2>4, <2>5, <2>6, <2>7 DEF TagWritesIts, LinksWith, Holds
    <2> QED
      BY <1>3, <1>7, <2>8 DEF WritesIts
  <1> QED
    BY <1>6, <1>7

\* The links are those of the last write, and of no hashtag that is gone.
LEMMA CommitLinks ==
  ASSUME IInv, NEW r \in Requests, Commit(r)
  PROVE  LinksFollowLastWrite'
  <1> SUFFICES ASSUME NEW p \in Posts
               PROVE  {i \in Ids : <<p, i>> \in links'} = {i \in given'[p] : name'[i] # NoName}
    BY DEF LinksFollowLastWrite
  <1>1. /\ TypeOK /\ pc[r] = "commit" /\ given[p] \subseteq Ids /\ add[r] \subseteq Ids
        /\ links' = (links \ cut[r]) \cup ({job[r].post} \X add[r])
    BY DEF IInv, Commit, TypeOK
  <1>2. \A i \in Ids : <<p, i>> \in links <=> i \in given[p] /\ name[i] # NoName
    BY DEF IInv, LinksFollowLastWrite
  <1>3. CASE HasTags(r) /\ p = job[r].post
    <2>1. PostWritesIts(r) /\ IsPost(r)
      BY <1>3 DEF IInv, HasTags
    <2>2. cut[r] = LinksOf(p) /\ \A i \in add[r] : Holds(r, i)
      BY <1>1, <1>3, <2>1 DEF PostWritesIts
    <2>3. \A i \in Ids : <<p, i>> \in links' <=> i \in add[r]
      BY <1>1, <1>3, <2>2 DEF LinksOf
    <2>4. \A i \in add[r] : name'[i] # NoName
      BY <1>1, <2>1, <2>2, CommitOfPost
    <2> QED
      BY <1>1, <1>3, <2>3, <2>4, CommitType
  <1>4. CASE IsPost(r) /\ ~(HasTags(r) /\ p = job[r].post)
    <2>1. PostWritesIts(r)
      BY <1>4 DEF IInv
    <2>2. \A i \in Ids : <<p, i>> \in links' <=> <<p, i>> \in links
      <3>1. CASE HasTags(r)
        BY <1>1, <1>4, <2>1, <3>1 DEF PostWritesIts, LinksOf
      <3>2. CASE ~HasTags(r)
        BY <1>1, <2>1, <3>2 DEF PostWritesIts
      <3> QED
        BY <3>1, <3>2
    <2>3. given'[p] = given[p]
      BY <1>4, CommitType
    <2>4. \A i \in given[p] : name'[i] = name[i]
      BY <1>1, <1>4, CommitOfPost DEF Unseen
    <2> QED
      BY <1>1, <1>2, <2>2, <2>3, <2>4
  <1>5. CASE ~IsPost(r)
    <2>1. TagWritesIts(r) /\ given' = given /\ ~HasTags(r)
      BY <1>5, CommitType DEF IInv, HasTags
    <2>2. links' = links \ cut[r]
      BY <1>1, <2>1 DEF TagWritesIts
    <2>3. \A i \in Ids : name'[i] = IF Holds(r, i) THEN rowWrite[r][i] ELSE name[i]
      BY CommitType
    <2>4. CASE job[r].op = "deleteTag"
      <3>1. row[r] \in Ids /\ Holds(r, row[r]) /\ cut[r] = LinksWith(row[r])
        BY <1>1, <2>1, <2>4 DEF TagWritesIts
      <3>2. \A i \in Ids : name'[i] = IF i = row[r] THEN NoName ELSE name[i]
        BY <2>1, <2>3, <2>4, <3>1 DEF TagWritesIts
      <3>3. \A i \in Ids : <<p, i>> \in links' <=> <<p, i>> \in links /\ i # row[r]
        BY <2>2, <3>1 DEF LinksWith
      <3> QED
        BY <1>1, <1>2, <2>1, <3>2, <3>3
    <2>5. CASE job[r].op # "deleteTag"
      <3>1. cut[r] = {}
        BY <2>1, <2>5 DEF TagWritesIts
      <3>2. \A i \in Ids : name'[i] # NoName <=> name[i] # NoName
        BY <2>1, <2>3, <2>5, PostLinksAssumption DEF TagWritesIts
      <3> QED
        BY <1>1, <1>2, <2>1, <2>2, <3>1, <3>2
    <2> QED
      BY <2>4, <2>5
  <1> QED
    BY <1>3, <1>4, <1>5

LEMMA CommitStep == ASSUME IInv, NEW r \in Requests, Commit(r) PROVE IInv'
  <1>1. /\ TypeOK' /\ pc'[r] = "done" /\ OnlyOf(r)
        /\ cut'[r] = {} /\ add'[r] = {} /\ \A i \in Ids : ~Holds(r, i)'
    BY CommitType
  <1>2. UNCHANGED <<used, job, row>>
    BY DEF Commit
  <1>3. WritesIts(r)' /\ ~Writing(r)'
    BY <1>1, EndedWritesIts
  <1>4. \A q \in Requests : WritesIts(q)'
    BY <1>3, CommitLeavesOthers
  <1>5. \A q \in Requests \ {r} : /\ Writing(q)' = Writing(q) /\ cut'[q] = cut[q]
                                  /\ \A i \in Ids : Holds(q, i)' <=> Holds(q, i)
    BY <1>1, <1>2 DEF OnlyOf, Writing, IsPost, Holds
  <1>6. LocksAreExclusive'
    <2> SUFFICES ASSUME NEW q \in Requests, NEW o \in Requests, q # o
                 PROVE  /\ job[q].op = "create" /\ job[o].op = "create" => job[q].post # job[o].post
                        /\ cut'[q] \cap cut'[o] = {}
                        /\ \A i \in Ids : ~(Holds(q, i)' /\ Holds(o, i)')
                        /\ ~(Writing(q)' /\ Writing(o)' /\ job[q].post = job[o].post)
      BY <1>2 DEF LocksAreExclusive
    <2> QED
      BY <1>1, <1>3, <1>5 DEF IInv, LocksAreExclusive
  <1>7. RowsAreKnown'
    <2>1. \A i \in Ids : name'[i] # NoName => i \in used
      BY CommitType DEF IInv, RowsAreKnown
    <2>2. add[r] \subseteq used
      BY DEF IInv, RowsAreKnown, PostWritesIts, TagWritesIts
    <2>3. \A p \in Posts : given'[p] \subseteq used
      BY <2>2, CommitType DEF IInv, RowsAreKnown
    <2>4. \A q \in Requests : row'[q] # NoName => row'[q] \in used'
      BY <1>2 DEF IInv, RowsAreKnown
    <2>5. \A q \in Requests, i \in Ids : Holds(q, i)' => i \in used
      BY <1>1, <1>5 DEF IInv, RowsAreKnown
    <2> QED
      BY <1>2, <2>1, <2>3, <2>4, <2>5 DEF RowsAreKnown
  <1>8. TablesAreSound'
    <2> SUFFICES ASSUME NEW p \in Posts, life'[p] = "absent" PROVE given'[p] = {}
      BY DEF TablesAreSound
    <2>1. HasTags(r) => IsPost(r)
      BY DEF HasTags
    <2>2. life[p] = "absent" /\ given'[p] = given[p]
      BY <2>1, CommitType
    <2> QED
      BY <2>2 DEF IInv, TablesAreSound
  <1> QED
    BY <1>1, <1>4, <1>6, <1>7, <1>8, CommitLinks DEF IInv, WritesIts

-----------------------------------------------------------------------------
(* The invariant holds, and what follows from it.                          *)

LEMMA NextInv == IInv /\ [Next]_vars => IInv'
  <1> SUFFICES ASSUME IInv, [Next]_vars PROVE IInv'
    OBVIOUS
  <1>1. CASE UNCHANGED vars
    <2>1. /\ UNCHANGED <<name, links, files, life, given, used, lastFile, job, pc, todo, row>>
          /\ UNCHANGED <<rowWrite, cut, add, newFiles, stale>>
      BY <1>1 DEF vars, tables, writes
    <2>2. TypeOK' /\ TablesAreSound' /\ LinksFollowLastWrite'
      BY <2>1 DEF IInv, TypeOK, TablesAreSound, LinksFollowLastWrite
    <2>3. LocksAreExclusive' /\ RowsAreKnown'
      BY <2>1 DEF IInv, LocksAreExclusive, RowsAreKnown, Holds, Writing, IsPost
    <2>4. ASSUME NEW q \in Requests PROVE WritesIts(q)'
      <3>1. CASE IsPost(q)
        <4>1. PostWritesIts(q)
          BY <3>1 DEF IInv
        <4>2. PostWritesIts(q)'
          BY <2>1, <4>1 DEF PostWritesIts, Writing, IsPost, HasTags, LinksOf, Holds, Unseen
        <4> QED
          BY <2>1, <3>1, <4>2 DEF WritesIts, IsPost
      <3>2. CASE ~IsPost(q)
        <4>1. TagWritesIts(q)
          BY <3>2 DEF IInv
        <4>2. TagWritesIts(q)'
          BY <2>1, <4>1 DEF TagWritesIts, LinksWith, Holds
        <4> QED
          BY <2>1, <3>2, <4>2 DEF WritesIts, IsPost
      <3> QED
        BY <3>1, <3>2
    <2> QED
      BY <2>2, <2>3, <2>4 DEF IInv, WritesIts
  <1>2. ASSUME NEW r \in Requests, PostStep(r) PROVE IInv'
    <2>1. PostGone(r) => Rollback(r)
      BY DEF PostGone
    <2> QED
      BY <1>2, <2>1, WritePostStep, UnlinkPostStep, UpsertTagStep, DeletePostStep, RollbackStep
      DEF PostStep
  <1>3. ASSUME NEW r \in Requests, TagStep(r) PROVE IInv'
    <2>1. NameTaken(r) \/ NoSuchTag(r) \/ DropRefused(r) => Rollback(r)
      BY DEF NameTaken, NoSuchTag, DropRefused
    <2> QED
      BY <1>3, <2>1, CreateTagStep, RenameRowStep, CheckUniqueStep, FindTagStep, UnlinkTagStep,
         DropTagStep, RollbackStep DEF TagStep
  <1>4. ASSUME NEW r \in Requests, Victim(r) \/ Fail(r) PROVE IInv'
    BY <1>4, RollbackStep DEF Victim, Fail
  <1> QED
    BY <1>1, <1>2, <1>3, <1>4, CommitStep DEF Next, Step

\* Whatever the posts, hashtags and files are and however many transactions run
\* at once at READ COMMITTED, rows, links and posts have one writer at most, and
\* what is to be committed agrees with what is (repository/posts.go, hashtags.go).
THEOREM InvariantHolds == Spec => []IInv
  <1> QED
    BY InitInv, NextInv, PTL DEF Spec

\* A post has the hashtags of its last committed write, less those that were
\* deleted since, although upsertHashtags deletes and inserts link by link while
\* others rename and delete the hashtags.
THEOREM LinksAreOfTheLastWrite == Spec => []LinksFollowLastWrite
  <1>1. IInv => LinksFollowLastWrite
    BY DEF IInv
  <1> QED
    BY <1>1, InvariantHolds, PTL

\* DeleteHashtag deletes by id what it found by name: the name is the right one
\* unless a rename came in between.
THEOREM FreshDeletions == Spec => FreshDeletionIsOfItsName
  <1>1. IInv /\ [Next]_vars =>
          [\A r \in Requests \ stale : DropTag(r) => name[row[r]] = job[r].name]_vars
    <2> SUFFICES ASSUME IInv, NEW r \in Requests \ stale, DropTag(r)
                 PROVE  name[row[r]] = job[r].name
      OBVIOUS
    <2>1. pc[r] = "dropTag" /\ job[r].op = "deleteTag" /\ name[row[r]] # NoName
      BY DEF DropTag, At
    <2>2. TagWritesIts(r)
      BY <2>1 DEF IInv, IsPost
    <2> QED
      BY <2>1, <2>2 DEF TagWritesIts
  <1> QED
    BY <1>1, InvariantHolds, PTL DEF Spec, FreshDeletionIsOfItsName

-----------------------------------------------------------------------------
(* The order in which requests take hashtags.                              *)

\* Names stay unique when a row k gets a name n that no other row claims.
LEMMA ClaimsGrow ==
  ASSUME NamesAreUnique, NEW r \in Requests, OnlyOf(r), NEW k \in Ids, NEW n,
         \A j \in Ids \ {k} : n \notin Claimed(j),
         \A i \in Ids : name'[i] \in Claimed(i) \cup {NoName, Same} \/ (i = k /\ name'[i] = n),
         \A i \in Ids : pc'[r] # "unique" =>
           rowWrite'[r][i] \in Claimed(i) \cup {NoName, Same} \/ (i = k /\ rowWrite'[r][i] = n)
  PROVE  NamesAreUnique'
<1>1. ASSUME NEW i \in Ids, NEW m \in Claimed(i)'
      PROVE  m \in Claimed(i) \/ (i = k /\ m = n)
  <2>1. m # NoName /\ m # Same
    BY <1>1 DEF Claimed
  <2>2. CASE m = name'[i]
    BY <2>1, <2>2
  <2>3. ASSUME NEW q \in Requests, pc'[q] # "unique", m = rowWrite'[q][i]
        PROVE  m \in Claimed(i) \/ (i = k /\ m = n)
    <3>1. CASE q = r
      BY <2>1, <2>3, <3>1
    <3>2. CASE q # r
      BY <2>1, <2>3, <3>2 DEF OnlyOf, Claimed
    <3> QED
      BY <3>1, <3>2
  <2> QED
    BY <1>1, <2>2, <2>3 DEF Claimed
<1> QED
  BY <1>1 DEF NamesAreUnique

LEMMA ClaimsKept ==
  ASSUME NamesAreUnique, NEW r \in Requests, OnlyOf(r),
         \A i \in Ids : name'[i] \in Claimed(i) \cup {NoName, Same},
         \A i \in Ids : pc'[r] # "unique" => rowWrite'[r][i] \in Claimed(i) \cup {NoName, Same}
  PROVE  NamesAreUnique'
<1>1. \A i \in Ids : NoName \notin Claimed(i)
  BY DEF Claimed
<1>2. CASE Ids = {}
  BY <1>2 DEF NamesAreUnique
<1>3. CASE Ids # {}
  <2>1. PICK k \in Ids : TRUE
    BY <1>3
  <2> QED
    BY <1>1, <2>1, ClaimsGrow
<1> QED
  BY <1>2, <1>3

\* What a step of one request has to keep.
LEMMA OrderStep ==
  ASSUME OrderInv, NEW r \in Requests, OnlyOf(r), UNCHANGED job,
         NamesAreUnique', TakesInOrder(r)',
         \A q \in Requests \ {r}, i \in Ids : Holds(q, i) => name'[i] = name[i],
         \A q \in Requests \ {r} :
           pc[q] = "dropTag" /\ pc'[r] = "dropTag" /\ row[q] = row'[r] => cut[q] = {} \/ cut'[r] = {}
  PROVE  OrderInv'
<1>1. ASSUME NEW q \in Requests \ {r} PROVE TakesInOrder(q)'
  <2>1. /\ pc'[q] = pc[q] /\ row'[q] = row[q] /\ todo'[q] = todo[q]
        /\ rowWrite'[q] = rowWrite[q] /\ \A i \in Ids : Holds(q, i)' = Holds(q, i)
    BY DEF OnlyOf, Holds
  <2>2. TakesInOrder(q)
    BY DEF OrderInv
  <2> QED
    BY <2>1, <2>2 DEF TakesInOrder
<1>2. OneCutsAll'
  BY DEF OrderInv, OneCutsAll, OnlyOf
<1> QED
  BY <1>1, <1>2 DEF OrderInv

\* Steps that leave names and locks of rows alone.
LEMMA QuietOrderStep ==
  ASSUME OrderInv, NEW r \in Requests, OnlyOf(r), UNCHANGED <<name, rowWrite, job>>,
         pc[r] = "unique" => pc'[r] = "unique", TakesInOrder(r)',
         \A q \in Requests \ {r} :
           pc[q] = "dropTag" /\ pc'[r] = "dropTag" /\ row[q] = row'[r] => cut[q] = {} \/ cut'[r] = {}
  PROVE  OrderInv'
<1>1. \A i \in Ids : name'[i] \in Claimed(i) \cup {NoName, Same}
  BY DEF Claimed
<1>2. \A i \in Ids : pc'[r] # "unique" => rowWrite'[r][i] \in Claimed(i) \cup {NoName, Same}
  BY DEF Claimed
<1>3. NamesAreUnique'
  BY <1>1, <1>2, ClaimsKept DEF OrderInv
<1> QED
  BY <1>3, OrderStep

\* The end of a request, with or without a commit.
LEMMA EndOrderStep ==
  ASSUME OrderInv, NEW r \in Requests, OnlyOf(r), UNCHANGED job, pc'[r] = "done",
         \A i \in Ids : ~Holds(r, i)',
         \A i \in Ids : name'[i] \in Claimed(i) \cup {NoName, Same},
         \A q \in Requests \ {r}, i \in Ids : Holds(q, i) => name'[i] = name[i]
  PROVE  OrderInv'
<1>1. TakesInOrder(r)'
  BY DEF TakesInOrder
<1>2. NamesAreUnique'
  BY ClaimsKept DEF OrderInv, Holds
<1> QED
  BY <1>1, <1>2, OrderStep

LEMMA RollbackOrder ==
  ASSUME IInv, OrderInv, NEW r \in Requests, Rollback(r)
  PROVE  OrderInv'
<1>1. /\ TypeOK /\ Release(r) /\ Goto(r, "done") /\ "done" \in RequestPCs
      /\ UNCHANGED <<name, job, todo, row>>
  BY DEF IInv, Rollback, RequestPCs, tables
<1>2. OnlyOf(r) /\ pc'[r] = "done" /\ \A i \in Ids : ~Holds(r, i)'
  BY <1>1, ReleaseOwn, GotoType DEF OnlyOf
<1>3. \A i \in Ids : name'[i] \in Claimed(i) \cup {NoName, Same}
  BY <1>1 DEF Claimed
<1> QED
  BY <1>1, <1>2, <1>3, EndOrderStep

LEMMA CommitOrder ==
  ASSUME IInv, OrderInv, NEW r \in Requests, Commit(r)
  PROVE  OrderInv'
<1>1. /\ pc[r] = "commit" /\ UNCHANGED job
      /\ pc'[r] = "done" /\ OnlyOf(r) /\ \A i \in Ids : ~Holds(r, i)'
      /\ \A i \in Ids : name'[i] = IF Holds(r, i) THEN rowWrite[r][i] ELSE name[i]
  BY CommitType DEF Commit
<1>2. \A i \in Ids : name'[i] \in Claimed(i) \cup {NoName, Same}
  BY <1>1 DEF Claimed
<1>3. \A q \in Requests \ {r}, i \in Ids : Holds(q, i) => name'[i] = name[i]
  BY <1>1 DEF IInv, LocksAreExclusive
<1> QED
  BY <1>1, <1>2, <1>3, EndOrderStep

\* Whoever may take the row of a name finds that no other row claims the name.
LEMMA NobodyClaims ==
  ASSUME IInv, OrderInv, NEW r \in Requests, NEW n \in Names, Busy(r, n) = {},
         IsPost(r) \/ \A i \in Ids : ~Holds(r, i), NEW i \in TagRow(r, n),
         pc[r] # "unique"
  PROVE  \A j \in Ids \ {i} : n \notin Claimed(j)
<1>1. i \in Ids
  BY TagRowIsFree
<1>2. ASSUME NEW j \in Ids, n \in Claimed(j) PROVE j \in Named(r, n)
  <2>1. CASE \E q \in Requests \ {r} : pc[q] # "unique" /\ rowWrite[q][j] = n
    BY <2>1, PostLinksAssumption DEF Busy, Holds
  <2>2. CASE rowWrite[r][j] = n
    BY <2>2, PostLinksAssumption DEF Named, Holds
  <2>3. CASE name[j] = n
    <3>1. CASE Holds(r, j)
      <4>1. IsPost(r) /\ n # NoName
        BY <3>1, PostLinksAssumption
      <4>2. rowWrite[r][j] = n
        BY <2>3, <3>1, <4>1 DEF IInv, PostWritesIts, Unseen
      <4> QED
        BY <2>2, <4>2
    <3>2. CASE ~Holds(r, j)
      BY <2>3, <3>2 DEF Named
    <3> QED
      BY <3>1, <3>2
  <2> QED
    BY <1>2, <2>1, <2>2, <2>3 DEF Claimed
<1>3. CASE Named(r, n) = {}
  BY <1>2, <1>3
<1>4. CASE Named(r, n) # {}
  <2>1. i \in Named(r, n)
    BY <1>4 DEF TagRow
  <2>2. n \in Claimed(i)
    <3>1. n # NoName /\ n # Same
      BY PostLinksAssumption
    <3>2. n = rowWrite[r][i] \/ n = name[i]
      BY <2>1 DEF Named
    <3> QED
      BY <3>1, <3>2 DEF Claimed
  <2> QED
    BY <1>1, <2>2 DEF OrderInv, NamesAreUnique
<1> QED
  BY <1>3, <1>4

LEMMA CreateTagOrder ==
  ASSUME IInv, OrderInv, NEW r \in Requests, CreateTag(r)
  PROVE  OrderInv'
<1> DEFINE n == job[r].name
<1>1. /\ TypeOK /\ pc[r] = "new" /\ n \in Names /\ Busy(r, n) = {}
      /\ Goto(r, "done") /\ "done" \in RequestPCs /\ UNCHANGED <<job, todo, row, rowWrite, cut, add>>
  BY JobFields DEF IInv, CreateTag, At, RequestPCs, writes, WaitsFor
<1>2. \A i \in Ids : ~Holds(r, i)
  BY <1>1, NewHoldsNothing
<1>3. PICK k \in TagRow(r, n) : name' = [name EXCEPT ![k] = n]
  BY DEF CreateTag
<1> HIDE DEF n
<1>4. OnlyOf(r) /\ pc'[r] = "done" /\ \A i \in Ids : ~Holds(r, i)'
  BY <1>1, <1>2, GotoType DEF OnlyOf, Holds
<1>5. k \in Ids /\ \A q \in Requests \ {r} : ~Holds(q, k)
  BY <1>1, <1>3, TagRowIsFree
<1>6. \A j \in Ids \ {k} : n \notin Claimed(j)
  BY <1>1, <1>2, <1>3, NobodyClaims
<1>7. name'[k] = n /\ \A j \in Ids \ {k} : name'[j] = name[j]
  BY <1>1, <1>3, <1>5 DEF TypeOK
<1>8. \A i \in Ids : name'[i] \in Claimed(i) \cup {NoName, Same} \/ (i = k /\ name'[i] = n)
  BY <1>7 DEF Claimed
<1>9. NamesAreUnique'
  BY <1>4, <1>5, <1>6, <1>8, ClaimsGrow DEF OrderInv, Holds
<1>10. TakesInOrder(r)'
  BY <1>4 DEF TakesInOrder
<1> QED
  BY <1>1, <1>4, <1>5, <1>7, <1>9, <1>10, OrderStep

LEMMA WritePostOrder ==
  ASSUME IInv, OrderInv, NEW r \in Requests, CreatePost(r) \/ UpdatePost(r)
  PROVE  OrderInv'
<1> DEFINE where == IF job[r].tags = NotGiven THEN "commit" ELSE "unlink"
           list  == IF job[r].tags = NotGiven THEN <<>> ELSE job[r].tags
<1>1. /\ TypeOK /\ pc[r] = "new" /\ Goto(r, where) /\ where \in RequestPCs
      /\ todo' = [todo EXCEPT ![r] = list]
      /\ UNCHANGED <<name, job, row, rowWrite, cut, add>>
  BY DEF IInv, CreatePost, UpdatePost, At, WritePost, RequestPCs, tables
<1> HIDE DEF where
<1>2. pc'[r] = where /\ OnlyOf(r)
  BY <1>1, GotoType DEF OnlyOf, TypeOK
<1>3. TakesInOrder(r)'
  <2>1. todo'[r] = list
    BY <1>1 DEF TypeOK
  <2>2. pc'[r] = "unlink" => todo'[r] = job'[r].tags
    BY <1>1, <1>2, <2>1 DEF where
  <2>3. pc'[r] \in {"commit", "unlink"}
    BY <1>2 DEF where
  <2> QED
    BY <2>2, <2>3 DEF TakesInOrder, Precedes
<1> QED
  BY <1>1, <1>2, <1>3, QuietOrderStep DEF where

LEMMA UnlinkPostOrder ==
  ASSUME IInv, OrderInv, NEW r \in Requests, UnlinkPost(r)
  PROVE  OrderInv'
<1> DEFINE where == IF todo[r] = <<>> THEN "commit" ELSE "tag"
<1>1. /\ TypeOK /\ pc[r] = "unlink" /\ PostWritesIts(r) /\ Goto(r, where) /\ where \in RequestPCs
      /\ cut' = [cut EXCEPT ![r] = LinksOf(job[r].post)]
      /\ UNCHANGED <<name, job, todo, row, rowWrite, add>>
  BY DEF IInv, UnlinkPost, At, IsPost, RequestPCs, tables
<1> HIDE DEF where
<1>2. pc'[r] = where /\ OnlyOf(r)
  BY <1>1, GotoType DEF OnlyOf, TypeOK
<1>3. \A i \in Ids : ~Holds(r, i)'
  BY <1>1 DEF PostWritesIts, Holds
<1>4. TakesInOrder(r)' /\ pc'[r] \in {"commit", "tag"}
  BY <1>1, <1>2, <1>3 DEF OrderInv, TakesInOrder, where
<1> QED
  BY <1>1, <1>2, <1>4, QuietOrderStep

\* The head of a list is gone, and the rest has moved up.
LEMMA RestMovesUp ==
  ASSUME NEW s \in Seq(Names), s # <<>>
  PROVE  /\ DOMAIN RemoveAt(s, 1) = 1..(Len(s) - 1)
         /\ \A l \in 1..(Len(s) - 1) : RemoveAt(s, 1)[l] = s[l + 1]
<1>1. /\ Tail(s) \in Seq(Names) /\ Len(Tail(s)) = Len(s) - 1
      /\ \A l \in 1..Len(Tail(s)) : Tail(s)[l] = s[l + 1]
  OBVIOUS
<1>2. SubSeq(s, 1, 0) = <<>> /\ SubSeq(s, 2, Len(s)) = Tail(s)
  OBVIOUS
<1>3. RemoveAt(s, 1) = SubSeq(s, 1, 0) \o SubSeq(s, 2, Len(s))
  BY DEF RemoveAt
<1>4. RemoveAt(s, 1) = Tail(s)
  BY <1>1, <1>2, <1>3
<1>5. DOMAIN Tail(s) = 1..Len(Tail(s))
  BY <1>1
<1> QED
  BY <1>1, <1>4, <1>5

LEMMA UpsertTagOrder ==
  ASSUME IInv, OrderInv, NEW r \in Requests, UpsertTag(r)
  PROVE  OrderInv'
<1> DEFINE n == todo[r][1]
<1>1. /\ TypeOK /\ pc[r] = "tag" /\ IsPost(r) /\ PostWritesIts(r) /\ todo[r] # <<>> /\ todo[r] \in Seq(Names)
      /\ UNCHANGED <<name, job, row, cut>>
  <2>1. TypeOK /\ pc[r] = "tag" /\ UNCHANGED <<name, job, row, cut>>
    BY DEF IInv, UpsertTag, tables
  <2>2. IsPost(r) /\ PostWritesIts(r)
    BY <2>1 DEF IInv, TagWritesIts
  <2> QED
    BY <2>1, <2>2 DEF PostWritesIts, TypeOK
<1>2. n \in Names
  BY <1>1
<1>3. PICK i \in TagRow(r, n) : /\ Busy(r, n) = {}
                                /\ rowWrite' = [rowWrite EXCEPT ![r][i] = n]
                                /\ add' = [add EXCEPT ![r] = @ \cup {i}]
                                /\ todo' = [todo EXCEPT ![r] = RemoveAt(@, 1)]
  BY DEF UpsertTag, NextTags
<1> HIDE DEF n
<1>4. i \in Ids /\ \A q \in Requests \ {r} : ~Holds(q, i)
  BY <1>2, <1>3, TagRowIsFree
<1>5. \A j \in Ids \ {i} : n \notin Claimed(j)
  BY <1>1, <1>2, <1>3, NobodyClaims
<1>6. /\ rowWrite'[r][i] = n /\ \A j \in Ids \ {i} : rowWrite'[r][j] = rowWrite[r][j]
      /\ \A q \in Requests \ {r} : rowWrite'[q] = rowWrite[q]
  BY <1>1, <1>3, <1>4 DEF TypeOK
<1>7. /\ todo'[r] = RemoveAt(todo[r], 1)
      /\ \A q \in Requests \ {r} : todo'[q] = todo[q] /\ add'[q] = add[q]
  BY <1>1, <1>3 DEF TypeOK
<1>8. /\ \A q \in Requests \ {r} : pc'[q] = pc[q]
      /\ pc'[r] = IF todo'[r] = <<>> THEN "commit" ELSE "tag"
  <2> DEFINE where == IF todo'[r] = <<>> THEN "commit" ELSE "tag"
  <2>1. where \in RequestPCs /\ Goto(r, where)
    BY DEF RequestPCs, UpsertTag
  <2> HIDE DEF where
  <2>2. pc'[r] = where /\ \A q \in Requests \ {r} : pc'[q] = pc[q]
    BY <1>1, <2>1, GotoType
  <2> QED
    BY <2>2 DEF where
<1>9. OnlyOf(r)
  BY <1>1, <1>6, <1>7, <1>8 DEF OnlyOf
<1>10. \A j \in Ids : rowWrite'[r][j] \in Claimed(j) \cup {NoName, Same} \/ (j = i /\ rowWrite'[r][j] = n)
  BY <1>1, <1>6 DEF Claimed
<1>11. \A j \in Ids : name'[j] \in Claimed(j) \cup {NoName, Same}
  BY <1>1 DEF Claimed
<1>12. NamesAreUnique'
  BY <1>4, <1>5, <1>9, <1>10, <1>11, ClaimsGrow DEF OrderInv
<1>13. TakesInOrder(r)'
  <2> DEFINE tags == job[r].tags
  <2>1. /\ DOMAIN todo'[r] = 1..(Len(todo[r]) - 1)
        /\ \A l \in 1..(Len(todo[r]) - 1) : todo'[r][l] = todo[r][l + 1]
    BY <1>1, <1>7, RestMovesUp
  <2>2. /\ \A k, l \in DOMAIN todo[r] : k < l => Precedes(tags, todo[r][k], todo[r][l])
        /\ \A j \in Ids, l \in DOMAIN todo[r] : Holds(r, j) => Precedes(tags, rowWrite[r][j], todo[r][l])
    BY <1>1 DEF OrderInv, TakesInOrder
  <2>3. DOMAIN todo[r] = 1..Len(todo[r]) /\ Len(todo[r]) \in Nat
    BY <1>1
  <2> HIDE DEF tags
  <2>4. \A k, l \in DOMAIN todo'[r] : k < l => Precedes(tags, todo'[r][k], todo'[r][l])
    <3> SUFFICES ASSUME NEW k \in 1..(Len(todo[r]) - 1), NEW l \in 1..(Len(todo[r]) - 1), k < l
                 PROVE  Precedes(tags, todo[r][k + 1], todo[r][l + 1])
      BY <2>1
    <3>1. k + 1 \in DOMAIN todo[r] /\ l + 1 \in DOMAIN todo[r] /\ k + 1 < l + 1
      BY <2>3
    <3> QED
      BY <2>2, <3>1
  <2>5. ASSUME NEW j \in Ids, NEW l \in DOMAIN todo'[r], Holds(r, j)'
        PROVE  Precedes(tags, rowWrite'[r][j], todo'[r][l])
    <3>1. l + 1 \in DOMAIN todo[r] /\ 1 \in DOMAIN todo[r] /\ 1 < l + 1 /\ todo'[r][l] = todo[r][l + 1]
      BY <2>1, <2>3, <2>5
    <3>2. CASE j = i
      BY <1>6, <2>2, <3>1, <3>2 DEF n
    <3>3. CASE j # i
      <4>1. Holds(r, j) /\ rowWrite'[r][j] = rowWrite[r][j]
        BY <1>6, <2>5, <3>3 DEF Holds
      <4> QED
        BY <2>2, <3>1, <4>1
    <3> QED
      BY <3>2, <3>3
  <2> QED
    BY <1>1, <1>8, <2>4, <2>5 DEF TakesInOrder, tags
<1> QED
  BY <1>1, <1>8, <1>9, <1>12, <1>13, OrderStep

LEMMA DeletePostOrder ==
  ASSUME IInv, OrderInv, NEW r \in Requests, DeletePost(r)
  PROVE  OrderInv'
<1>1. /\ TypeOK /\ pc[r] = "new" /\ Goto(r, "done") /\ "done" \in RequestPCs
      /\ UNCHANGED <<name, job, todo, row, rowWrite, cut, add>>
  BY DEF IInv, DeletePost, At, RequestPCs, writes
<1>2. pc'[r] = "done" /\ OnlyOf(r)
  BY <1>1, GotoType DEF OnlyOf
<1>3. TakesInOrder(r)'
  BY <1>2 DEF TakesInOrder
<1> QED
  BY <1>1, <1>2, <1>3, QuietOrderStep

LEMMA RenameRowOrder ==
  ASSUME IInv, OrderInv, NEW r \in Requests, RenameRow(r)
  PROVE  OrderInv'
<1>1. /\ TypeOK /\ pc[r] = "new" /\ job[r].op = "rename" /\ Goto(r, "unique") /\ "unique" \in RequestPCs
      /\ UNCHANGED <<name, job, todo, cut, add>> /\ job[r].next \in Names
      /\ WaitsFor(r) = UNION {Holders(r, i) : i \in Named(r, job[r].name)}
  BY JobFields DEF IInv, RenameRow, At, RequestPCs, tables, WaitsFor
<1>2. PICK i \in Named(r, job[r].name) : /\ rowWrite' = [rowWrite EXCEPT ![r][i] = job[r].next]
                                         /\ row' = [row EXCEPT ![r] = i]
  BY DEF RenameRow
<1>3. i \in Ids /\ name[i] = job[r].name
  BY <1>1, NewHoldsNothing DEF Named
<1>4. /\ pc'[r] = "unique" /\ row'[r] = i /\ rowWrite'[r][i] = job[r].next
      /\ OnlyOf(r)
  BY <1>1, <1>2, <1>3, GotoType DEF OnlyOf, TypeOK
<1>5. Holds(r, i)'
  BY <1>1, <1>4, PostLinksAssumption DEF Holds
<1>6. NamesAreUnique'
  <2>1. \A j \in Ids : name'[j] \in Claimed(j) \cup {NoName, Same}
    BY <1>1 DEF Claimed
  <2> QED
    BY <1>4, <2>1, ClaimsKept DEF OrderInv
<1>7. TakesInOrder(r)'
  BY <1>1, <1>3, <1>4, <1>5 DEF TakesInOrder
<1> QED
  BY <1>1, <1>4, <1>6, <1>7, OrderStep

LEMMA CheckUniqueOrder ==
  ASSUME IInv, OrderInv, NEW r \in Requests, CheckUnique(r)
  PROVE  OrderInv'
<1> DEFINE n == job[r].next
           k == row[r]
<1>1. /\ TypeOK /\ pc[r] = "unique" /\ job[r].op = "rename" /\ Goto(r, "commit") /\ "commit" \in RequestPCs
      /\ n \in Names /\ Busy(r, n) = {} /\ \A i \in Ids \ {k} : name[i] # n
      /\ UNCHANGED <<name, job, todo, row, rowWrite, cut, add>>
  BY JobFields DEF IInv, CheckUnique, At, RequestPCs, tables, writes, WaitsFor
<1> HIDE DEF n
<1>2. pc'[r] = "commit" /\ OnlyOf(r)
  BY <1>1, GotoType DEF OnlyOf
<1>3. k \in Ids /\ \A i \in Ids : Holds(r, i) => i = k
  BY <1>1 DEF OrderInv, TakesInOrder, IInv, IsPost, TagWritesIts
<1>4. TakesInOrder(r)'
  BY <1>2 DEF TakesInOrder
<1>5. \A j \in Ids \ {k} : n \notin Claimed(j)
  <2> SUFFICES ASSUME NEW j \in Ids \ {k}, NEW q \in Requests, pc[q] # "unique", rowWrite[q][j] = n
               PROVE  FALSE
    BY <1>1 DEF Claimed
  <2>1. q # r /\ q \in Busy(r, n)
    BY <1>1, PostLinksAssumption DEF Busy, Holds
  <2> QED
    BY <1>1, <2>1
<1>6. \A i \in Ids : name'[i] \in Claimed(i) \cup {NoName, Same}
  BY <1>1 DEF Claimed
<1>7. \A i \in Ids : rowWrite'[r][i] \in Claimed(i) \cup {NoName, Same} \/ (i = k /\ rowWrite'[r][i] = n)
  <2> SUFFICES ASSUME NEW i \in Ids, Holds(r, i) PROVE i = k /\ rowWrite[r][i] = n
    BY <1>1 DEF Holds
  <2> QED
    BY <1>1, <1>3 DEF n, OrderInv, TakesInOrder
<1> HIDE DEF k
<1>8. NamesAreUnique'
  BY <1>2, <1>3, <1>5, <1>6, <1>7, ClaimsGrow DEF OrderInv
<1> QED
  BY <1>1, <1>2, <1>4, <1>8, OrderStep

LEMMA FindTagOrder ==
  ASSUME IInv, OrderInv, NEW r \in Requests, FindTag(r)
  PROVE  OrderInv'
<1>1. /\ TypeOK /\ pc[r] = "new" /\ job[r].op = "deleteTag" /\ Goto(r, "unlinkTag") /\ "unlinkTag" \in RequestPCs
      /\ UNCHANGED <<name, job, todo, rowWrite, cut, add>> /\ \E i \in Ids : row' = [row EXCEPT ![r] = i]
  BY DEF IInv, FindTag, At, RequestPCs, tables, writes, Named
<1>2. pc'[r] = "unlinkTag" /\ OnlyOf(r)
  BY <1>1, GotoType DEF OnlyOf, TypeOK
<1>3. TakesInOrder(r)'
  BY <1>1, <1>2 DEF TakesInOrder
<1> QED
  BY <1>1, <1>2, <1>3, QuietOrderStep

\* A deletion that cuts links has none of them cut by another one.
LEMMA UnlinkTagOrder ==
  ASSUME IInv, OrderInv, NEW r \in Requests, UnlinkTag(r)
  PROVE  OrderInv'
<1> DEFINE L == LinksWith(row[r])
<1>1. /\ TypeOK /\ pc[r] = "unlinkTag" /\ job[r].op = "deleteTag" /\ Goto(r, "dropTag") /\ "dropTag" \in RequestPCs
      /\ Cutters(r, L) = {} /\ cut' = [cut EXCEPT ![r] = L]
      /\ UNCHANGED <<name, job, todo, row, rowWrite, add>>
  BY DEF IInv, UnlinkTag, At, RequestPCs, tables, WaitsFor
<1>2. pc'[r] = "dropTag" /\ OnlyOf(r)
  BY <1>1, GotoType DEF OnlyOf, TypeOK
<1>3. TakesInOrder(r)'
  BY <1>1, <1>2 DEF TakesInOrder
<1>4. ASSUME NEW q \in Requests \ {r}, pc[q] = "dropTag", row[q] = row[r]
      PROVE  cut[q] = {}
  <2>1. TagWritesIts(q)
    BY <1>4 DEF IInv, OrderInv, TakesInOrder, IsPost
  <2>2. cut[q] \subseteq L
    BY <1>4, <2>1 DEF TagWritesIts
  <2> QED
    BY <1>1, <2>2 DEF Cutters
<1> QED
  BY <1>1, <1>2, <1>3, <1>4, QuietOrderStep

LEMMA DropTagOrder ==
  ASSUME IInv, OrderInv, NEW r \in Requests, DropTag(r)
  PROVE  OrderInv'
<1>1. /\ TypeOK /\ pc[r] = "dropTag" /\ Goto(r, "commit") /\ "commit" \in RequestPCs
      /\ rowWrite' = [rowWrite EXCEPT ![r][row[r]] = NoName]
      /\ UNCHANGED <<name, job, todo, row, cut, add>>
  BY DEF IInv, DropTag, At, RequestPCs, tables
<1>2. pc'[r] = "commit" /\ OnlyOf(r)
  BY <1>1, GotoType DEF OnlyOf, TypeOK
<1>3. TakesInOrder(r)'
  BY <1>2 DEF TakesInOrder
<1>4. \A i \in Ids : name'[i] \in Claimed(i) \cup {NoName, Same}
  BY <1>1 DEF Claimed
<1>5. \A i \in Ids : rowWrite'[r][i] \in Claimed(i) \cup {NoName, Same}
  <2>1. \A i \in Ids : rowWrite'[r][i] \in {rowWrite[r][i], NoName}
    BY <1>1 DEF TypeOK
  <2> QED
    BY <1>1, <2>1 DEF Claimed
<1>6. NamesAreUnique'
  BY <1>2, <1>4, <1>5, ClaimsKept DEF OrderInv
<1> QED
  BY <1>1, <1>2, <1>3, <1>6, OrderStep

LEMMA InitOrder == Init => OrderInv
<1> SUFFICES ASSUME Init PROVE OrderInv
  OBVIOUS
<1>1. \A i \in Ids : Claimed(i) \subseteq {OldNames[i]} \ {NoName}
  BY DEF Init, Nothing, Claimed
<1>2. NamesAreUnique
  BY <1>1, PostLinksAssumption DEF NamesAreUnique
<1> QED
  BY <1>2 DEF Init, OrderInv, OneCutsAll, TakesInOrder

LEMMA NextOrder == IInv /\ OrderInv /\ [Next]_vars => OrderInv'
<1> SUFFICES ASSUME IInv, OrderInv, [Next]_vars PROVE OrderInv'
  OBVIOUS
<1>1. CASE UNCHANGED vars
  <2>1. UNCHANGED <<name, job, pc, todo, row, rowWrite, cut>>
    BY <1>1 DEF vars, tables, writes
  <2>2. NamesAreUnique' /\ OneCutsAll'
    BY <2>1 DEF OrderInv, NamesAreUnique, OneCutsAll, Claimed
  <2>3. ASSUME NEW r \in Requests PROVE TakesInOrder(r)'
    BY <2>1 DEF OrderInv, TakesInOrder, Holds
  <2> QED
    BY <2>2, <2>3 DEF OrderInv
<1>2. ASSUME NEW r \in Requests, PostStep(r) PROVE OrderInv'
  BY <1>2, WritePostOrder, UnlinkPostOrder, UpsertTagOrder, DeletePostOrder, RollbackOrder
  DEF PostStep, PostGone
<1>3. ASSUME NEW r \in Requests, TagStep(r) PROVE OrderInv'
  BY <1>3, CreateTagOrder, RenameRowOrder, CheckUniqueOrder, FindTagOrder, UnlinkTagOrder,
     DropTagOrder, RollbackOrder DEF TagStep, NameTaken, NoSuchTag, DropRefused
<1>4. ASSUME NEW r \in Requests, Victim(r) \/ Fail(r) PROVE OrderInv'
  BY <1>4, RollbackOrder DEF Victim, Fail
<1> QED
  BY <1>1, <1>2, <1>3, <1>4, CommitOrder DEF Next, Step

-----------------------------------------------------------------------------
(* Deadlocks.                                                              *)

\* Whom a request waits for, at each of its statements that may wait.
LEMMA WaitsAt ==
  ASSUME NEW r \in Requests
  PROVE  /\ pc[r] = "tag" => WaitsFor(r) = Busy(r, Head(todo[r]))
         /\ pc[r] = "unique" => WaitsFor(r) = Busy(r, job[r].next)
         /\ pc[r] = "dropTag" => WaitsFor(r) = Holders(r, row[r]) \cup Cutters(r, LinksWith(row[r]))
         /\ pc[r] \in {"commit", "done"} => WaitsFor(r) = {}
  BY DEF WaitsFor

\* What others wait for is a row or a link that a request has.
LEMMA WaitedFor ==
  ASSUME IInv, OrderInv, NEW r \in Requests, pc[r] # "new", NEW q \in WaitsFor(r)
  PROVE  /\ q \in Requests /\ q # r
         /\ (\E i \in Ids : Holds(q, i)) \/ cut[q] # {}
<1>1. pc[r] \in RequestPCs
  BY DEF IInv, TypeOK
<1>2. CASE pc[r] \in {"unlink", "unlinkTag"}
  BY <1>2 DEF WaitsFor, Cutters
<1>3. CASE pc[r] \in {"tag", "unique"}
  BY <1>3, WaitsAt DEF Busy
<1>4. CASE pc[r] = "dropTag"
  <2>1. ~IsPost(r)
    BY <1>4 DEF OrderInv, TakesInOrder, IsPost
  <2>2. row[r] \in Ids
    BY <1>4, <2>1 DEF IInv, TagWritesIts
  <2> QED
    BY <1>4, <2>2, WaitsAt DEF Holders, Cutters
<1>5. CASE pc[r] \in {"commit", "done"}
  BY <1>5, WaitsAt
<1> QED
  BY <1>1, <1>2, <1>3, <1>4, <1>5 DEF RequestPCs

\* Whoever has something is at its hashtags, at its row or about to commit.
LEMMA HoldersAre ==
  ASSUME IInv, OrderInv, NEW q \in Requests, (\E i \in Ids : Holds(q, i)) \/ cut[q] # {}
  PROVE  pc[q] \in {"tag", "unique", "dropTag", "commit"}
<1>1. CASE IsPost(q)
  <2>1. PostWritesIts(q)
    BY <1>1 DEF IInv
  <2>2. cut[q] # {} => pc[q] \in {"tag", "commit"}
    BY <2>1 DEF PostWritesIts
  <2>3. (\E i \in Ids : Holds(q, i)) => add[q] # {}
    BY <2>1 DEF PostWritesIts
  <2> QED
    BY <2>1, <2>2, <2>3 DEF PostWritesIts
<1>2. CASE ~IsPost(q)
  BY <1>2 DEF IInv, TagWritesIts
<1> QED
  BY <1>1, <1>2

\* In a deadlock are only posts at their hashtags, renames that enter their new
\* name and deletions at their row.
LEMMA DeadlockedPCs ==
  ASSUME IInv, OrderInv, NEW S \in SUBSET Requests, Deadlocked(S), NEW q \in S
  PROVE  pc[q] \in {"tag", "unique", "dropTag"}
<1>1. ASSUME NEW o \in S PROVE pc[o] # "new"
  <2> SUFFICES ASSUME pc[o] = "new" PROVE FALSE
    OBVIOUS
  <2>1. PICK r \in S : o \in WaitsFor(r)
    BY DEF Deadlocked
  <2>2. cut[o] = {} /\ ~Writing(o) /\ \A i \in Ids : ~Holds(o, i)
    BY NewHoldsNothing DEF Writing
  <2>3. CASE pc[r] # "new"
    BY <2>1, <2>2, <2>3, WaitedFor
  <2>4. CASE pc[r] = "new"
    <3>1. \A i \in Named(r, job[r].name) : o \notin Holders(r, i)
      BY <2>2 DEF Named, Holders
    <3>2. o \notin Busy(r, job[r].name) /\ o \notin Writers(r, job[r].post)
      BY <2>2 DEF Busy, Writers
    <3> QED
      BY <2>1, <2>4, <3>1, <3>2 DEF WaitsFor
  <2> QED
    BY <2>3, <2>4
<1>2. PICK r \in S : q \in WaitsFor(r)
  BY DEF Deadlocked
<1>3. (\E i \in Ids : Holds(q, i)) \/ cut[q] # {}
  BY <1>1, <1>2, WaitedFor
<1>4. pc[q] \in {"tag", "unique", "dropTag", "commit"}
  BY <1>3, HoldersAre
<1>5. pc[q] # "commit"
  BY WaitsAt DEF Deadlocked
<1> QED
  BY <1>4, <1>5

\* The name that a post or a rename takes next.
Wanted(r) == IF pc[r] = "tag" THEN Head(todo[r]) ELSE job[r].next

AtNames(r) == pc[r] \in {"tag", "unique"}

\* The name that a post or a rename wants is a name.
LEMMA WantedName ==
  ASSUME IInv, NEW r \in Requests, AtNames(r)
  PROVE  Wanted(r) \in Names
<1>1. job[r].next \in Names
  BY DEF IInv, TypeOK, Job
<1>2. CASE pc[r] = "tag"
  <2>1. IsPost(r)
    BY <1>2 DEF IInv, TagWritesIts
  <2>2. todo[r] \in Seq(Names) /\ todo[r] # <<>>
    BY <1>2, <2>1 DEF IInv, PostWritesIts, TypeOK
  <2> QED
    BY <1>2, <2>2, HeadTailProperties DEF Wanted
<1> QED
  BY <1>1, <1>2 DEF Wanted

\* A deadlocked request that wants a name waits for another that has a row with
\* the name, and wants a name that follows in its own order.
LEMMA NameWait ==
  ASSUME IInv, OrderInv, NEW S \in SUBSET Requests, Deadlocked(S), NEW q \in S, AtNames(q)
  PROVE  \E o \in S \ {q}, i \in Ids :
           /\ AtNames(o) /\ Holds(o, i) /\ Wanted(q) \in Claimed(i)
           /\ Precedes(NameOrder(o), Wanted(q), Wanted(o))
<1> DEFINE n == Wanted(q)
<1>1. n \in Names /\ n # NoName /\ n # Same
  BY WantedName, PostLinksAssumption
<1>2. WaitsFor(q) = Busy(q, n)
  BY WaitsAt DEF AtNames, Wanted
<1>3. PICK o \in S : o \in Busy(q, n)
  BY <1>2 DEF Deadlocked
<1>4. PICK i \in Ids : Holds(o, i) /\ (name[i] = n \/ (rowWrite[o][i] = n /\ pc[o] # "unique"))
  BY <1>3 DEF Busy
<1>5. o \in Requests /\ o # q
  BY <1>3 DEF Busy
<1>6. n \in Claimed(i)
  BY <1>1, <1>4, <1>5 DEF Claimed
<1>7. pc[o] \in {"tag", "unique", "dropTag"}
  BY DeadlockedPCs
<1>8. CASE IsPost(o)
  <2>1. PostWritesIts(o) /\ TakesInOrder(o) /\ todo[o] \in Seq(Names)
    BY <1>5, <1>8 DEF IInv, OrderInv, TypeOK
  <2>2. pc[o] = "tag" /\ HasTags(o) /\ todo[o] # <<>>
    BY <1>7, <1>8, <2>1 DEF PostWritesIts, TakesInOrder, IsPost
  <2>3. rowWrite[o][i] = n
    BY <1>1, <1>4, <2>1, <2>2 DEF PostWritesIts, Unseen
  <2>4. 1 \in DOMAIN todo[o] /\ Head(todo[o]) = todo[o][1]
    BY <2>1, <2>2, HeadTailProperties
  <2>5. Precedes(job[o].tags, n, Wanted(o))
    BY <1>4, <2>1, <2>2, <2>3, <2>4 DEF TakesInOrder, Wanted
  <2> QED
    BY <1>4, <1>5, <1>6, <2>2, <2>5 DEF AtNames, NameOrder
<1>9. CASE ~IsPost(o)
  <2>1. TagWritesIts(o) /\ TakesInOrder(o)
    BY <1>5, <1>9 DEF IInv, OrderInv
  <2>2. pc[o] = "unique" /\ i = row[o]
    BY <1>4, <1>7, <2>1 DEF TagWritesIts
  <2>3. name[i] = n
    BY <1>4, <2>2
  <2>4. job[o].op = "rename" /\ job[o].name = n
    BY <2>1, <2>2, <2>3 DEF TakesInOrder
  <2>5. NameOrder(o) = <<n, job[o].next>> /\ Wanted(o) = job[o].next
    BY <1>9, <2>2, <2>4 DEF NameOrder, HasTags, Wanted
  <2>6. Precedes(NameOrder(o), n, Wanted(o))
    BY <2>5 DEF Precedes
  <2> QED
    BY <1>4, <1>5, <1>6, <2>2, <2>6 DEF AtNames
<1> QED
  BY <1>8, <1>9

\* The next in such a chain wants another name.
LEMMA NextName ==
  ASSUME IInv, OrderInv, NEW S \in SUBSET Requests, Deadlocked(S), NEW q \in S, AtNames(q)
  PROVE  \E o \in S : /\ AtNames(o) /\ Wanted(o) # Wanted(q)
                      /\ Precedes(NameOrder(o), Wanted(q), Wanted(o))
<1>1. PICK o \in S \ {q}, i \in Ids :
        /\ AtNames(o) /\ Holds(o, i) /\ Wanted(q) \in Claimed(i)
        /\ Precedes(NameOrder(o), Wanted(q), Wanted(o))
  BY NameWait
<1>2. ASSUME Wanted(o) = Wanted(q) PROVE FALSE
  <2>1. PICK t \in S \ {o}, j \in Ids :
          /\ AtNames(t) /\ Holds(t, j) /\ Wanted(o) \in Claimed(j)
          /\ Precedes(NameOrder(t), Wanted(o), Wanted(t))
    BY <1>1, NameWait
  <2>2. i # j
    BY <1>1, <2>1 DEF IInv, LocksAreExclusive
  <2> QED
    BY <1>1, <1>2, <2>1, <2>2 DEF OrderInv, NamesAreUnique
<1> QED
  BY <1>1, <1>2

\* Deletions alone do not get stuck: the one that has the links goes on.
LEMMA DeletionsGoOn ==
  ASSUME IInv, OrderInv, NEW S \in SUBSET Requests, Deadlocked(S),
         \A q \in S : pc[q] = "dropTag"
  PROVE  FALSE
<1>1. ASSUME NEW q \in S
      PROVE  /\ cut[q] \subseteq LinksWith(row[q])
             /\ \A i \in Ids : ~Holds(q, i)
             /\ row[q] \in Ids
  <2>1. ~IsPost(q) /\ job[q].op = "deleteTag"
    BY DEF OrderInv, TakesInOrder, IsPost
  <2>2. TagWritesIts(q)
    BY <2>1 DEF IInv
  <2> QED
    BY <2>1, <2>2 DEF TagWritesIts
<1>2. ASSUME NEW q \in S PROVE cut[q] # {}
  <2>1. PICK r \in S : q \in WaitsFor(r)
    BY DEF Deadlocked
  <2> QED
    BY <1>1, <2>1, WaitedFor
<1>3. PICK q \in S : TRUE
  BY DEF Deadlocked
<1>4. PICK o \in S : o \in WaitsFor(q)
  BY DEF Deadlocked
<1>5. o # q /\ o \in Cutters(q, LinksWith(row[q]))
  BY <1>1, <1>4, WaitsAt, WaitedFor DEF Holders
<1>6. row[o] = row[q]
  BY <1>1, <1>5 DEF Cutters, LinksWith
<1> QED
  BY <1>2, <1>5, <1>6 DEF OrderInv, OneCutsAll

LEMMA OrdersMakeDeadlocks == IInv /\ OrderInv => DeadlocksNeedCircularOrders
<1> SUFFICES ASSUME IInv, OrderInv, NEW S \in SUBSET Requests, Deadlocked(S)
             PROVE  Circular(S)
  BY DEF DeadlocksNeedCircularOrders
<1> DEFINE N == {Wanted(q) : q \in {o \in S : AtNames(o)}}
<1>1. N \in SUBSET Names
  BY WantedName
<1>2. N # {}
  BY DeadlockedPCs, DeletionsGoOn DEF AtNames
<1>3. ASSUME NEW m \in N
      PROVE  \E n \in N \ {m}, r \in S : Precedes(NameOrder(r), m, n)
  <2>1. PICK q \in S : AtNames(q) /\ m = Wanted(q)
    OBVIOUS
  <2>2. PICK o \in S : /\ AtNames(o) /\ Wanted(o) # Wanted(q)
                       /\ Precedes(NameOrder(o), Wanted(q), Wanted(o))
    BY <2>1, NextName
  <2> QED
    BY <2>1, <2>2
<1> QED
  BY <1>1, <1>2, <1>3 DEF Circular

\* What requests hold and still want stays in the orders they were given, and no
\* two rows ever claim the same name.
THEOREM OrderHolds == Spec => []OrderInv
<1>1. Spec => []IInv
  BY InvariantHolds
<1> QED
  BY <1>1, InitOrder, NextOrder, PTL DEF Spec

\* Two rows of hashtags never have, or are about to have, the same name.
THEOREM NamesStayUnique == Spec => []NamesAreUnique
<1>1. OrderInv => NamesAreUnique
  BY DEF OrderInv
<1> QED
  BY <1>1, OrderHolds, PTL

\* Whoever is stuck: among them are posts or renames that name hashtags in
\* orders that do not fit together.
THEOREM DeadlocksAreCircular == Spec => []DeadlocksNeedCircularOrders
  BY InvariantHolds, OrderHolds, OrdersMakeDeadlocks, PTL

-----------------------------------------------------------------------------
(* The attachments that a post keeps.                                      *)

\* Numbers are well-founded.
Less == OpToRel(<, Nat)

\* A set of numbers has a least one.
LEMMA LeastNat ==
  ASSUME NEW T \in SUBSET Nat, T # {}
  PROVE  \E x \in T : \A y \in T : x <= y
<1>1. IsWellFoundedOn(Less, Nat)
  BY NatLessThanWellFounded, Zenon DEF Less
<1>2. PICK x \in T : \A y \in T : ~(<<y, x>> \in Less)
  BY <1>1, WFMin
<1>3. Less = {p \in Nat \X Nat : p[1] < p[2]}
  BY DEF Less, OpToRel
<1>4. ASSUME NEW y \in T PROVE x <= y
  <2>1. x \in Nat /\ y \in Nat /\ <<y, x>> \in Nat \X Nat
    OBVIOUS
  <2>2. <<y, x>> \notin {p \in Nat \X Nat : p[1] < p[2]}
    BY <1>2, <1>3
  <2> QED
    BY <2>1, <2>2
<1> QED
  BY <1>4

\* The rank of an input is a number.
LEMMA RanksAreNumbers ==
  ASSUME NEW s \in Seq(Keys), NEW i \in DOMAIN s
  PROVE  Rank(s, i) \in Nat
<1>1. IsFiniteSet(1 .. i) /\ {j \in 1 .. i : s[j] = s[i]} \subseteq 1 .. i
  BY FS_Interval
<1> QED
  BY <1>1, FS_Subset, FS_CardinalityType DEF Rank

\* When one input is the n-th of its key, others are the first to the n-th.
LEMMA RanksHaveNoGaps ==
  ASSUME NEW s \in Seq(Keys), NEW i \in DOMAIN s, NEW d \in Nat \ {0}, d <= Rank(s, i)
  PROVE  \E j \in DOMAIN s : s[j] = s[i] /\ Rank(s, j) = d
<1> DEFINE Upto(n) == {j \in 1 .. n : s[j] = s[i]}
           Enough == {n \in 1 .. i : d <= Cardinality(Upto(n))}
<1>1. i \in Nat /\ 1 <= i /\ i <= Len(s) /\ DOMAIN s = 1 .. Len(s) /\ Len(s) \in Nat
  OBVIOUS
<1>2. ASSUME NEW n \in Nat PROVE IsFiniteSet(Upto(n)) /\ Cardinality(Upto(n)) \in Nat
  <2>1. IsFiniteSet(1 .. n) /\ Upto(n) \subseteq 1 .. n
    BY FS_Interval
  <2> QED
    BY <2>1, FS_Subset, FS_CardinalityType
<1>3. i \in Enough /\ Enough \in SUBSET Nat
  BY <1>1 DEF Rank
<1>4. PICK n \in Enough : \A m \in Enough : n <= m
  BY <1>3, LeastNat
<1>5. PICK m : m = n - 1
  OBVIOUS
<1>6. m \in Nat /\ n = m + 1 /\ n \in Nat /\ n \in 1 .. i /\ n \in DOMAIN s
  BY <1>1, <1>4, <1>5
<1>7. Cardinality(Upto(m)) < d
  <2>1. CASE m = 0
    <3>1. Upto(m) = {}
      BY <2>1
    <3> HIDE DEF Upto
    <3>2. Cardinality(Upto(m)) = 0
      BY <3>1, FS_EmptySet
    <3> QED
      BY <3>2
  <2>2. CASE m # 0
    <3>1. m \in 1 .. i /\ ~(n <= m)
      BY <1>1, <1>6, <2>2
    <3>2. m \notin Enough
      BY <1>4, <3>1
    <3>3. ~(d <= Cardinality(Upto(m)))
      BY <3>1, <3>2
    <3> HIDE DEF Upto
    <3> QED
      BY <1>2, <1>6, <3>3
  <2> QED
    BY <2>1, <2>2
<1>8. d <= Cardinality(Upto(n))
  BY <1>4
<1>9. n \notin Upto(m) /\ Upto(n) = Upto(m) \cup (IF s[n] = s[i] THEN {n} ELSE {})
  <2>1. \A j \in 1 .. n : j \in 1 .. m \/ j = n
    BY <1>6
  <2>2. \A j \in 1 .. m : j \in 1 .. n /\ j # n
    BY <1>6
  <2>3. n \in 1 .. n
    BY <1>6
  <2> QED
    BY <2>1, <2>2, <2>3
<1> HIDE DEF Upto
<1>10. s[n] = s[i]
  <2> SUFFICES ASSUME s[n] # s[i] PROVE FALSE
    OBVIOUS
  <2>1. Upto(n) = Upto(m)
    BY <1>9
  <2> QED
    BY <1>2, <1>6, <1>7, <1>8, <2>1
<1>11. Cardinality(Upto(n)) = Cardinality(Upto(m)) + 1
  <2>1. Upto(n) = Upto(m) \cup {n}
    BY <1>9, <1>10
  <2> QED
    BY <1>2, <1>6, <1>9, <2>1, FS_AddElement
<1>12. Cardinality(Upto(n)) = d
  BY <1>2, <1>6, <1>7, <1>8, <1>11
<1> QED
  BY <1>6, <1>10, <1>12 DEF Rank, Upto

\* popReusableAttachment: of each key all rows stay, or none is inserted.
LEMMA ReuseKeepsRows ==
  ASSUME NEW old \in SUBSET Rows, IsFiniteSet(old), NEW s \in Seq(Keys)
  PROVE  KeepsRows(old, Reused(old, s) \cup Inserted(old, s))
<1> SUFFICES ASSUME NEW k \in Keys
             PROVE  \/ FilesOf(old, k) \subseteq FilesOf(Reused(old, s) \cup Inserted(old, s), k)
                    \/ FilesOf(Reused(old, s) \cup Inserted(old, s), k) \subseteq FilesOf(old, k)
  BY DEF KeepsRows
<1>1. CASE \E f \in Inserted(old, s) : f.key = k
  <2>1. PICK i \in DOMAIN s : s[i] = k /\ Rank(s, i) > Cardinality(FilesOf(old, k))
    <3>1. PICK f \in Inserted(old, s) : f.key = k
      BY <1>1
    <3>2. PICK i \in DOMAIN s : /\ Rank(s, i) > Cardinality({g \in old : g.key = s[i]})
                                /\ f = [id |-> lastFile + i, key |-> s[i]]
      BY <3>1 DEF Inserted
    <3>3. s[i] = k
      BY <3>1, <3>2
    <3> QED
      BY <3>2, <3>3 DEF FilesOf
  <2>2. ASSUME NEW f \in FilesOf(old, k) PROVE f \in Reused(old, s)
    <3> DEFINE Before == {g \in old : g.key = f.key /\ g.id <= f.id}
               d == Cardinality(Before)
    <3>1. f \in old /\ f.key = k
      BY DEF FilesOf
    <3>2. IsFiniteSet(FilesOf(old, k)) /\ Before \subseteq FilesOf(old, k) /\ f \in Before
      <4>1. f.id \in Nat
        BY <3>1 DEF Rows
      <4> QED
        BY <3>1, <4>1, FS_Subset DEF FilesOf
    <3>3. IsFiniteSet(Before) /\ Before # {}
      BY <3>2, FS_Subset
    <3>4. d \in Nat /\ d # 0 /\ d <= Cardinality(FilesOf(old, k)) /\ Cardinality(FilesOf(old, k)) \in Nat
      BY <3>2, <3>3, FS_Subset, FS_CardinalityType, FS_EmptySet
    <3>5. Rank(s, i) \in Nat
      BY RanksAreNumbers
    <3> HIDE DEF d
    <3>6. d \in Nat \ {0} /\ d <= Rank(s, i)
      BY <2>1, <3>4, <3>5
    <3>7. PICK j \in DOMAIN s : s[j] = s[i] /\ Rank(s, j) = d
      BY <3>6, RanksHaveNoGaps
    <3> QED
      BY <2>1, <3>1, <3>7 DEF Reused, d
  <2> QED
    BY <2>2 DEF FilesOf
<1>2. CASE ~\E f \in Inserted(old, s) : f.key = k
  BY <1>2 DEF FilesOf, Reused
<1> QED
  BY <1>1, <1>2

\* The rows that are inserted get the next numbers.
LEMMA ReuseIsNumbered ==
  ASSUME NEW old \in SUBSET Rows, AreNumbered(old, lastFile), NEW s \in Seq(Keys), lastFile \in Nat,
         NEW F, F = Reused(old, s) \cup Inserted(old, s)
  PROVE  AreNumbered(F, lastFile + Len(s))
<1>1. Reused(old, s) \subseteq old /\ IsFiniteSet(old) /\ Len(s) \in Nat
  BY DEF Reused, AreNumbered
<1>2. \A f \in old : f.id \in Nat /\ f.id <= lastFile
  BY DEF AreNumbered, Rows
<1>3. ASSUME NEW f \in Inserted(old, s)
      PROVE  \E i \in 1 .. Len(s) : f = [id |-> lastFile + i, key |-> s[i]]
  <2>1. PICK i \in DOMAIN s : f = [id |-> lastFile + i, key |-> s[i]]
    BY DEF Inserted
  <2>2. i \in 1 .. Len(s)
    OBVIOUS
  <2> QED
    BY <2>1, <2>2
<1>4. IsFiniteSet(F)
  <2>1. PICK N : N = [i \in 1 .. Len(s) |-> [id |-> lastFile + i, key |-> s[i]]]
    OBVIOUS
  <2>2. PICK T : T = {N[i] : i \in 1 .. Len(s)}
    OBVIOUS
  <2>3. N \in Surjection(1 .. Len(s), T)
    BY <2>1, <2>2 DEF Surjection
  <2>4. IsFiniteSet(T)
    BY <1>1, <2>3, FS_Interval, FS_Surjection
  <2>5. Inserted(old, s) \subseteq T
    BY <1>3, <2>1, <2>2
  <2>6. IsFiniteSet(Inserted(old, s)) /\ IsFiniteSet(Reused(old, s))
    BY <1>1, <2>4, <2>5, FS_Subset
  <2> QED
    BY <2>6, FS_Union
<1>5. ASSUME NEW f \in Inserted(old, s)
      PROVE  f.id \in Nat /\ lastFile < f.id /\ f.id <= lastFile + Len(s)
  <2>1. PICK i \in 1 .. Len(s) : f = [id |-> lastFile + i, key |-> s[i]]
    BY <1>3
  <2> QED
    BY <1>1, <2>1
<1>6. ASSUME NEW f \in Inserted(old, s), NEW g \in Inserted(old, s), f.id = g.id PROVE f = g
  <2>1. PICK i \in 1 .. Len(s) : f = [id |-> lastFile + i, key |-> s[i]]
    BY <1>3
  <2>2. PICK j \in 1 .. Len(s) : g = [id |-> lastFile + j, key |-> s[j]]
    BY <1>3
  <2>3. lastFile + i = lastFile + j
    BY <1>6, <2>1, <2>2
  <2>4. i = j
    BY <1>1, <2>3
  <2> QED
    BY <2>1, <2>2, <2>4
<1>7. ASSUME NEW f \in F PROVE f \in old \/ f \in Inserted(old, s)
  BY <1>1
<1>8. ASSUME NEW f \in F PROVE f.id <= lastFile + Len(s)
  BY <1>1, <1>2, <1>5, <1>7
<1>9. ASSUME NEW f \in F, NEW g \in F, f.id = g.id PROVE f = g
  <2>1. CASE f \in old /\ g \in old
    BY <1>9, <2>1 DEF AreNumbered
  <2>2. CASE f \in Inserted(old, s) /\ g \in Inserted(old, s)
    BY <1>6, <1>9, <2>2
  <2>3. ASSUME NEW a \in old, NEW b \in Inserted(old, s), a.id = b.id PROVE FALSE
    BY <1>2, <1>5, <2>3
  <2> QED
    BY <1>7, <1>9, <2>1, <2>2, <2>3
<1> QED
  BY <1>4, <1>8, <1>9 DEF AreNumbered

\* Steps that write no attachments.
LEMMA QuietFiles ==
  ASSUME FilesInv, UNCHANGED <<files, newFiles, lastFile, job>>,
         \A q \in Requests : Writing(q)' => Writing(q)
  PROVE  FilesInv'
BY DEF FilesInv, AreNumbered

\* The attachments that a transaction is about to give its post.
LEMMA WritePostFiles ==
  ASSUME IInv, FilesInv, NEW r \in Requests, CreatePost(r) \/ UpdatePost(r)
  PROVE  FilesInv'
<1>1. PICK old, s : old = files[job[r].post] /\ s = job[r].files
  OBVIOUS
<1>2. PICK F : F = IF s = NotGiven THEN old ELSE Reused(old, s) \cup Inserted(old, s)
  OBVIOUS
<1>3. TypeOK /\ WritePost(r)
  BY DEF IInv, CreatePost, UpdatePost
<1>4. /\ job[r].post \in Posts /\ s \in Seq(Keys) \cup {NotGiven}
      /\ old \in SUBSET Rows /\ lastFile \in Nat
      /\ newFiles \in [Requests -> SUBSET Rows] /\ files \in [Posts -> SUBSET Rows]
      /\ job \in [Requests -> Job]
  BY <1>1, <1>3, JobFields DEF TypeOK
<1>5. /\ newFiles' = [newFiles EXCEPT ![r] = F]
      /\ lastFile' = lastFile + (IF s = NotGiven THEN 0 ELSE Len(s))
      /\ UNCHANGED <<files, job>> /\ \A q \in Requests \ {r} : pc'[q] = pc[q]
  BY <1>1, <1>2, <1>3 DEF WritePost, tables, Goto, TypeOK
<1>6. AreNumbered(old, lastFile)
  BY <1>1, <1>4 DEF FilesInv
<1>7. KeepsRows(old, F)
  <2>1. CASE s = NotGiven
    BY <1>2, <2>1 DEF KeepsRows
  <2>2. CASE s # NotGiven
    BY <1>2, <1>4, <1>6, <2>2, ReuseKeepsRows DEF AreNumbered
  <2> QED
    BY <2>1, <2>2
<1>8. AreNumbered(F, lastFile')
  <2>1. CASE s = NotGiven
    BY <1>2, <1>4, <1>5, <1>6, <2>1 DEF AreNumbered
  <2>2. CASE s # NotGiven
    <3>1. s \in Seq(Keys) /\ F = Reused(old, s) \cup Inserted(old, s) /\ lastFile' = lastFile + Len(s)
      BY <1>2, <1>4, <1>5, <2>2
    <3> QED
      BY <1>4, <1>6, <3>1, ReuseIsNumbered
  <2> QED
    BY <2>1, <2>2
<1>9. lastFile' \in Nat /\ lastFile <= lastFile'
  BY <1>4, <1>5
<1>10. ASSUME NEW G \in SUBSET Rows, AreNumbered(G, lastFile) PROVE AreNumbered(G, lastFile')
  <2>1. \A f \in G : f.id \in Nat
    BY DEF Rows
  <2> QED
    BY <1>4, <1>9, <1>10, <2>1 DEF AreNumbered
<1>11. \A p \in Posts : AreNumbered(files[p], lastFile)'
  <2> SUFFICES ASSUME NEW p \in Posts PROVE AreNumbered(files[p], lastFile)'
    OBVIOUS
  <2>1. files[p] \in SUBSET Rows /\ AreNumbered(files[p], lastFile)
    BY <1>4 DEF FilesInv
  <2> QED
    BY <1>5, <1>10, <2>1 DEF AreNumbered
<1>12. \A q \in Requests : AreNumbered(newFiles[q], lastFile)'
  <2> SUFFICES ASSUME NEW q \in Requests PROVE AreNumbered(newFiles[q], lastFile)'
    OBVIOUS
  <2>1. CASE q = r
    BY <1>4, <1>5, <1>8, <2>1 DEF AreNumbered
  <2>2. CASE q # r
    <3>1. newFiles[q] \in SUBSET Rows /\ AreNumbered(newFiles[q], lastFile) /\ newFiles'[q] = newFiles[q]
      BY <1>4, <1>5, <2>2 DEF FilesInv
    <3> QED
      BY <1>10, <3>1 DEF AreNumbered
  <2> QED
    BY <2>1, <2>2
<1>13. \A q \in Requests : Writing(q)' => KeepsRows(files[job[q].post], newFiles[q])'
  <2> SUFFICES ASSUME NEW q \in Requests, Writing(q)'
               PROVE  KeepsRows(files[job[q].post], newFiles[q])'
    OBVIOUS
  <2>1. files' = files /\ job' = job
    BY <1>5
  <2>2. CASE q = r
    <3>1. newFiles'[q] = F /\ files'[job'[q].post] = old
      BY <1>1, <1>4, <1>5, <2>2
    <3> QED
      BY <1>7, <3>1 DEF KeepsRows
  <2>3. CASE q # r
    <3>1. newFiles'[q] = newFiles[q] /\ Writing(q)
      BY <1>4, <1>5, <2>3 DEF Writing, IsPost
    <3> QED
      BY <2>1, <3>1 DEF KeepsRows, FilesInv
  <2> QED
    BY <2>2, <2>3
<1> QED
  BY <1>11, <1>12, <1>13 DEF FilesInv

\* The end of a request that leaves the files as they are.
LEMMA RollbackFiles ==
  ASSUME IInv, FilesInv, NEW r \in Requests, Rollback(r)
  PROVE  FilesInv'
<1>1. /\ newFiles \in [Requests -> SUBSET Rows] /\ pc \in [Requests -> RequestPCs]
  BY DEF IInv, TypeOK
<1>2. /\ UNCHANGED <<files, lastFile, job>> /\ newFiles' = [newFiles EXCEPT ![r] = {}]
      /\ pc' = [pc EXCEPT ![r] = "done"]
  BY DEF Rollback, Release, tables, Goto
<1>3. AreNumbered({}, lastFile)
  BY FS_EmptySet DEF AreNumbered
<1>4. ASSUME NEW q \in Requests PROVE newFiles'[q] = newFiles[q] \/ newFiles'[q] = {}
  BY <1>1, <1>2
<1>5. ASSUME NEW q \in Requests, Writing(q)' PROVE Writing(q) /\ newFiles'[q] = newFiles[q]
  BY <1>1, <1>2, <1>5 DEF Writing, IsPost
<1>6. \A p \in Posts : AreNumbered(files[p], lastFile)'
  BY <1>2 DEF FilesInv, AreNumbered
<1>7. \A q \in Requests : AreNumbered(newFiles[q], lastFile)'
  BY <1>2, <1>3, <1>4 DEF FilesInv, AreNumbered
<1>8. \A q \in Requests : Writing(q)' => KeepsRows(files[job[q].post], newFiles[q])'
  BY <1>2, <1>5 DEF FilesInv, KeepsRows
<1> QED
  BY <1>6, <1>7, <1>8 DEF FilesInv

\* ... and that it gives it.
LEMMA CommitFiles ==
  ASSUME IInv, FilesInv, NEW r \in Requests, Commit(r)
  PROVE  FilesInv'
<1>1. /\ newFiles \in [Requests -> SUBSET Rows] /\ pc \in [Requests -> RequestPCs]
      /\ files \in [Posts -> SUBSET Rows] /\ job[r].post \in Posts
  BY JobFields DEF IInv, TypeOK
<1>2. /\ UNCHANGED <<lastFile, job>> /\ newFiles' = [newFiles EXCEPT ![r] = {}]
      /\ pc' = [pc EXCEPT ![r] = "done"] /\ pc[r] = "commit"
      /\ files' = IF IsPost(r) THEN [files EXCEPT ![job[r].post] = newFiles[r]] ELSE files
  BY DEF Commit, Release, Goto
<1>3. AreNumbered({}, lastFile)
  BY FS_EmptySet DEF AreNumbered
<1>4. ASSUME NEW q \in Requests PROVE newFiles'[q] = newFiles[q] \/ newFiles'[q] = {}
  BY <1>1, <1>2
<1>5. ASSUME NEW p \in Posts PROVE files'[p] = files[p] \/ files'[p] = newFiles[r]
  BY <1>1, <1>2
<1>6. \A p \in Posts : AreNumbered(files[p], lastFile)'
  BY <1>2, <1>5 DEF FilesInv, AreNumbered
<1>7. \A q \in Requests : AreNumbered(newFiles[q], lastFile)'
  BY <1>2, <1>3, <1>4 DEF FilesInv, AreNumbered
<1>8. ASSUME NEW q \in Requests, Writing(q)'
      PROVE  Writing(q) /\ newFiles'[q] = newFiles[q] /\ files'[job[q].post] = files[job[q].post]
  <2>1. q # r /\ Writing(q) /\ newFiles'[q] = newFiles[q]
    BY <1>1, <1>2, <1>8 DEF Writing, IsPost
  <2>2. CASE IsPost(r)
    <3>1. Writing(r)
      BY <1>2, <2>2 DEF Writing
    <3>2. job[q].post # job[r].post
      BY <2>1, <3>1 DEF IInv, LocksAreExclusive
    <3> QED
      BY <1>1, <1>2, <2>1, <3>2
  <2>3. CASE ~IsPost(r)
    BY <1>2, <2>1, <2>3
  <2> QED
    BY <2>2, <2>3
<1>9. \A q \in Requests : Writing(q)' => KeepsRows(files[job[q].post], newFiles[q])'
  BY <1>2, <1>8 DEF FilesInv, KeepsRows
<1> QED
  BY <1>6, <1>7, <1>9 DEF FilesInv

\* Only transactions on posts are in these places.
LEMMA QuietSteps ==
  ASSUME IInv, FilesInv, NEW r \in Requests,
         \/ UnlinkPost(r) \/ UpsertTag(r) \/ DeletePost(r) \/ CreateTag(r) \/ RenameRow(r)
         \/ CheckUnique(r) \/ FindTag(r) \/ UnlinkTag(r) \/ DropTag(r)
  PROVE  FilesInv'
<1>1. UNCHANGED <<files, newFiles, lastFile, job>>
  BY DEF UnlinkPost, UpsertTag, DeletePost, CreateTag, RenameRow, CheckUnique, FindTag, UnlinkTag,
         DropTag, tables, writes
<1>2. pc \in [Requests -> RequestPCs] /\ \A q \in Requests \ {r} : pc'[q] = pc[q]
  BY DEF IInv, TypeOK, Goto, UnlinkPost, UpsertTag, DeletePost, CreateTag, RenameRow, CheckUnique,
         FindTag, UnlinkTag, DropTag
<1>3. Writing(r) \/ ~Writing(r)'
  <2>1. CASE UnlinkPost(r) \/ UpsertTag(r)
    <3>1. pc[r] \in {"unlink", "tag"}
      BY <2>1 DEF UnlinkPost, UpsertTag, At
    <3> QED
      BY <1>1, <3>1 DEF Writing, IsPost
  <2>2. CASE DeletePost(r) \/ CreateTag(r) \/ RenameRow(r) \/ CheckUnique(r) \/ FindTag(r)
             \/ UnlinkTag(r) \/ DropTag(r)
    <3>1. ~IsPost(r)
      BY <2>2 DEF DeletePost, CreateTag, RenameRow, CheckUnique, FindTag, UnlinkTag, DropTag, At, IsPost
    <3> QED
      BY <1>1, <3>1 DEF Writing, IsPost
  <2> QED
    BY <2>1, <2>2
<1>4. \A q \in Requests : Writing(q)' => Writing(q)
  BY <1>1, <1>2, <1>3 DEF Writing, IsPost
<1> QED
  BY <1>1, <1>4, QuietFiles

\* All steps together.
LEMMA NextFiles == IInv /\ FilesInv /\ [Next]_vars => FilesInv'
<1> SUFFICES ASSUME IInv, FilesInv, [Next]_vars PROVE FilesInv'
  OBVIOUS
<1>1. CASE UNCHANGED vars
  <2>1. UNCHANGED <<files, newFiles, lastFile, job, pc>>
    BY <1>1 DEF vars, tables, writes
  <2> QED
    BY <2>1, QuietFiles DEF Writing, IsPost
<1>2. ASSUME NEW r \in Requests, Step(r) PROVE FilesInv'
  BY <1>2, WritePostFiles, RollbackFiles, CommitFiles, QuietSteps
  DEF Step, PostStep, TagStep, PostGone, NameTaken, NoSuchTag, DropRefused
<1>3. ASSUME NEW r \in Requests, Victim(r) \/ Fail(r) PROVE FilesInv'
  BY <1>3, RollbackFiles DEF Victim, Fail
<1> QED
  BY <1>1, <1>2, <1>3 DEF Next

\* Rows of attachments have numbers of their own, and of what a transaction is
\* about to give a post no row is new while an old one of its key goes.
THEOREM FilesHold == Spec => []FilesInv
<1>1. Init => FilesInv
  BY FS_EmptySet DEF Init, FilesInv, AreNumbered, Writing
<1> QED
  BY <1>1, InvariantHolds, NextFiles, PTL DEF Spec

\* A file that a post keeps keeps its row and with it its upload to Drive,
\* whatever else of its attachments an edit drops, repeats or adds, and whoever
\* edits the post at the same time (upsertAttachments).
THEOREM KeptFilesStay == Spec => KeptFilesKeepTheirRow
<1> DEFINE ids(F, k) == {f.id : f \in {g \in F : g.key = k}}
           Kept(p, k) ==
             LET kept == Cardinality(ids(files[p], k) \cap ids(files'[p], k)) IN
             kept = Cardinality(ids(files[p], k)) \/ kept = Cardinality(ids(files'[p], k))
<1>1. IInv /\ FilesInv /\ [Next]_vars =>
        [\A p \in Posts, k \in Keys : life[p] = "live" => Kept(p, k)]_vars
  <2> SUFFICES ASSUME IInv, FilesInv, Next, NEW p \in Posts, NEW k \in Keys PROVE Kept(p, k)
    OBVIOUS
  <2>1. KeepsRows(files[p], files'[p])
    <3>1. CASE files'[p] = files[p]
      BY <3>1 DEF KeepsRows
    <3>2. ASSUME NEW r \in Requests, Commit(r) PROVE KeepsRows(files[p], files'[p])
      <4>1. /\ files' = (IF IsPost(r) THEN [files EXCEPT ![job[r].post] = newFiles[r]] ELSE files)
            /\ files \in [Posts -> SUBSET Rows] /\ pc[r] = "commit"
        BY <3>2 DEF Commit, IInv, TypeOK
      <4>2. CASE IsPost(r) /\ p = job[r].post
        BY <4>1, <4>2 DEF FilesInv, Writing
      <4>3. CASE ~(IsPost(r) /\ p = job[r].post)
        BY <3>1, <4>1, <4>3
      <4> QED
        BY <4>2, <4>3
    <3>3. ASSUME NEW r \in Requests, Step(r) \/ Victim(r) \/ Fail(r), ~Commit(r) PROVE files' = files
      BY <3>3 DEF Step, PostStep, TagStep, Victim, Fail, Rollback, CreatePost, UpdatePost, WritePost,
                  UnlinkPost, UpsertTag, DeletePost, PostGone, CreateTag, RenameRow, CheckUnique,
                  NameTaken, FindTag, NoSuchTag, UnlinkTag, DropTag, DropRefused, tables
    <3> QED
      BY <3>1, <3>2, <3>3 DEF Next
  <2>2. \/ ids(files[p], k) \subseteq ids(files'[p], k)
        \/ ids(files'[p], k) \subseteq ids(files[p], k)
    BY <2>1 DEF KeepsRows, FilesOf
  <2> HIDE DEF ids
  <2>3. \/ ids(files[p], k) \cap ids(files'[p], k) = ids(files[p], k)
        \/ ids(files[p], k) \cap ids(files'[p], k) = ids(files'[p], k)
    BY <2>2
  <2> QED
    BY <2>3
<1> QED
  BY <1>1, InvariantHolds, FilesHold, PTL DEF Spec, KeptFilesKeepTheirRow
=============================================================================
