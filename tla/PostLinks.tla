------------------------------ MODULE PostLinks ------------------------------
(***************************************************************************)
(* What hangs on a post: its attachments and its hashtags, written with it *)
(* in one transaction (CreatePost and UpdatePost of                        *)
(* internal/repository/posts.go), and the administration of the hashtags   *)
(* themselves (internal/service/hashtags.go,                               *)
(* internal/repository/hashtags.go).                                       *)
(*                                                                         *)
(* The transactions run at READ COMMITTED: they see what is committed,     *)
(* hold the rows they have written until they end and wait for rows that   *)
(* others hold.  Posts take the rows of their hashtags in the order of the *)
(* request.  name, links, files and life are the committed tables; what a  *)
(* transaction has written but not committed is in rowWrite, cut, add and  *)
(* newFiles.                                                               *)
(*                                                                         *)
(* Abstractions.  A statement that waits looks at the tables when it goes  *)
(* on; that it may then miss a row it has not seen before, and answer      *)
(* "not found" or fail, is a failure of the request here.  The statements  *)
(* on a post's own row and attachments are one step: only the transaction  *)
(* that holds the post's row touches them.  Rights are in PostReview.      *)
(***************************************************************************)
EXTENDS Naturals, SequencesExt

CONSTANTS
  Posts,    \* ids of posts
  Names,    \* names of hashtags, normalised
  Keys,     \* kind, bucket and object of a file: attachmentReuseKey
  Ids,      \* bound: ids of rows of hashtags
  NoName,   \* name of an id that has no row
  Same,     \* "this row is not written"
  NotGiven, \* a part of the post that the request leaves alone
  Requests, \* the requests
  Mixes,    \* bound: what they may ask for together
  OldNames, \* the hashtags that exist at first
  OldPosts, \* the posts that exist at first
  MayFail   \* requests can fail, time out or die with their process

Ops == {"create", "edit", "deletePost", "createTag", "rename", "deleteTag"}

\* What a request asks for; the fields that its operation does not use are idle.
Job == [op : Ops, post : Posts, tags : Seq(Names) \cup {NotGiven},
        files : Seq(Keys) \cup {NotGiven}, name : Names, next : Names]

ASSUME PostLinksAssumption ==
  /\ NoName \notin Names \cup Ids /\ Same \notin Names /\ Same # NoName
  /\ NotGiven \notin Seq(Names) /\ NotGiven \notin Seq(Keys)
  /\ Mixes \subseteq [Requests -> Job]
  /\ \A f \in Mixes, r \in Requests : f[r].op = "create" =>
       /\ f[r].post \notin OldPosts
       /\ \A q \in Requests \ {r} : f[q].op = "create" => f[q].post # f[r].post
  /\ OldNames \in [Ids -> Names \cup {NoName}]
  /\ \A i, j \in Ids : OldNames[i] = OldNames[j] /\ OldNames[i] # NoName => i = j
  /\ OldPosts \subseteq Posts
  /\ MayFail \in BOOLEAN

VARIABLES
  name,     \* hashtags: the name of a row, or NoName
  used,     \* ids that were ever given to a row
  links,    \* post_hashtags
  files,    \* post_attachments: the rows of a post
  lastFile, \* ids of attachments given so far
  life,     \* posts: "absent", "live", or "deleted" (deleted_at)
  job,      \* what a request asks for
  pc,       \* where it is
  todo,     \* the hashtags that it still has to upsert
  row,      \* the row that it renames or deletes
  rowWrite, \* rows of hashtags it has written and holds: their new names
  cut,      \* links it has deleted and holds
  add,      \* hashtags it has linked to its post
  newFiles, \* the attachments its post is to have
  given,    \* history: the hashtags the last committed write gave a post
  stale     \* history: deletions whose hashtag was renamed since they found it

tables == <<name, links, files, life, given>>
writes == <<rowWrite, cut, add, newFiles>>
vars   == <<tables, used, lastFile, job, pc, todo, row, writes, stale>>

RequestPCs == {"new", "unlink", "tag", "unique", "unlinkTag", "dropTag", "commit", "done"}
Rows == [id : Nat, key : Keys]

TypeOK ==
  /\ name \in [Ids -> Names \cup {NoName}]
  /\ used \subseteq Ids
  /\ links \subseteq Posts \X Ids
  /\ files \in [Posts -> SUBSET Rows]
  /\ lastFile \in Nat
  /\ life \in [Posts -> {"absent", "live", "deleted"}]
  /\ job \in [Requests -> Job]
  /\ pc \in [Requests -> RequestPCs]
  /\ todo \in [Requests -> Seq(Names)]
  /\ row \in [Requests -> Ids \cup {NoName}]
  /\ rowWrite \in [Requests -> [Ids -> Names \cup {NoName, Same}]]
  /\ cut \in [Requests -> SUBSET (Posts \X Ids)]
  /\ add \in [Requests -> SUBSET Ids]
  /\ newFiles \in [Requests -> SUBSET Rows]
  /\ given \in [Posts -> SUBSET Ids]
  /\ stale \subseteq Requests

Nothing == [i \in Ids |-> Same]

\* The old posts have some of the old hashtags.
Init ==
  /\ name = OldNames
  /\ used = {i \in Ids : name[i] # NoName}
  /\ life = [p \in Posts |-> IF p \in OldPosts THEN "live" ELSE "absent"]
  /\ links \in SUBSET (OldPosts \X used)
  /\ given = [p \in Posts |-> {i \in Ids : <<p, i>> \in links}]
  /\ files = [p \in Posts |-> {}]
  /\ lastFile = 0
  /\ job \in Mixes
  /\ pc = [r \in Requests |-> "new"]
  /\ todo = [r \in Requests |-> <<>>]
  /\ row = [r \in Requests |-> NoName]
  /\ rowWrite = [r \in Requests |-> Nothing]
  /\ cut = [r \in Requests |-> {}]
  /\ add = [r \in Requests |-> {}]
  /\ newFiles = [r \in Requests |-> {}]
  /\ stale = {}

Goto(r, where) == pc' = [pc EXCEPT ![r] = where]

-----------------------------------------------------------------------------
(* Waiting.                                                                *)

Holds(q, i) == rowWrite[q][i] # Same

\* The rows with a name that r sees: committed, or its own.
Named(r, n) == {i \in Ids : n = IF Holds(r, i) THEN rowWrite[r][i] ELSE name[i]}

\* Others that hold a row with the name n, or have given the name to one.  A
\* rename whose new name is still to be checked has taken its row only.
Busy(r, n) ==
  {q \in Requests \ {r} : \E i \in Ids :
     Holds(q, i) /\ (name[i] = n \/ (rowWrite[q][i] = n /\ pc[q] # "unique"))}

Holders(r, i) == {q \in Requests \ {r} : Holds(q, i)}

Cutters(r, L) == {q \in Requests \ {r} : cut[q] \cap L # {}}

\* Writers of a post that hold its row.
Writers(r, p) ==
  {q \in Requests \ {r} : /\ job[q].op = "edit" /\ job[q].post = p
                          /\ pc[q] \in {"unlink", "tag", "commit"}}

LinksOf(p)   == {l \in links : l[1] = p}
LinksWith(i) == {l \in links : l[2] = i}

\* Those that the next statement of r waits for.
WaitsFor(r) ==
  LET j == job[r] IN
  CASE pc[r] = "new" /\ j.op \in {"edit", "deletePost"} /\ life[j.post] = "live"
                              -> Writers(r, j.post)
    [] pc[r] = "new" /\ j.op = "createTag" -> Busy(r, j.name)
    [] pc[r] = "new" /\ j.op = "rename"    -> UNION {Holders(r, i) : i \in Named(r, j.name)}
    [] pc[r] = "unlink"       -> Cutters(r, LinksOf(j.post))
    [] pc[r] = "tag"          -> Busy(r, Head(todo[r]))
    [] pc[r] = "unique"       -> Busy(r, j.next)
    [] pc[r] = "unlinkTag"    -> Cutters(r, LinksWith(row[r]))
    [] pc[r] = "dropTag"      -> Holders(r, row[r]) \cup Cutters(r, LinksWith(row[r]))
    [] OTHER                  -> {}

At(r, where, op) == pc[r] = where /\ job[r].op \in op /\ WaitsFor(r) = {}

\* Mutated form of Release: an early return without the rollback.
ReleaseLater(r) == UNCHANGED writes

\* The end of a transaction: its locks and what it has not committed are gone.
Release(r) ==
  /\ rowWrite' = [rowWrite EXCEPT ![r] = Nothing]
  /\ cut' = [cut EXCEPT ![r] = {}]
  /\ add' = [add EXCEPT ![r] = {}]
  /\ newFiles' = [newFiles EXCEPT ![r] = {}]

\* tx.Rollback, the answer being an error.
Rollback(r) ==
  /\ Goto(r, "done")
  /\ Release(r)
  /\ UNCHANGED <<tables, used, lastFile, job, todo, row, stale>>

-----------------------------------------------------------------------------
(* Posts.                                                                  *)

\* The how-manieth s[i] is of its kind.
Rank(s, i) == Cardinality({j \in 1..i : s[j] = s[i]})

\* Mutated form of Reused: everything is inserted anew.
ReusedNone(old, s) == {}

\* The rows of old that upsertAttachments keeps: for the n-th input of a key,
\* the n-th row of that key (popReusableAttachment).
Reused(old, s) ==
  {f \in old : \E i \in DOMAIN s :
     /\ s[i] = f.key
     /\ Rank(s, i) = Cardinality({g \in old : g.key = f.key /\ g.id <= f.id})}

\* The rows it inserts for the other inputs.
Inserted(old, s) ==
  {[id |-> lastFile + i, key |-> s[i]] :
     i \in {i \in DOMAIN s : Rank(s, i) > Cardinality({g \in old : g.key = s[i]})}}

\* The INSERT or UPDATE of the post with its attachments, and what comes next.
WritePost(r) ==
  /\ newFiles' = [newFiles EXCEPT ![r] =
       LET old == files[job[r].post]
           s   == job[r].files
       IN IF s = NotGiven THEN old ELSE Reused(old, s) \cup Inserted(old, s)]
  /\ lastFile' = lastFile + (IF job[r].files = NotGiven THEN 0 ELSE Len(job[r].files))
  /\ Goto(r, IF job[r].tags = NotGiven THEN "commit" ELSE "unlink")
  /\ todo' = [todo EXCEPT ![r] = IF job[r].tags = NotGiven THEN <<>> ELSE job[r].tags]
  /\ UNCHANGED <<tables, used, job, row, rowWrite, cut, add, stale>>

CreatePost(r) ==
  /\ At(r, "new", {"create"})
  /\ life[job[r].post] = "absent"
  /\ WritePost(r)

UpdatePost(r) ==
  /\ At(r, "new", {"edit"})
  /\ life[job[r].post] = "live"
  /\ WritePost(r)

\* Mutated form of UnlinkPost: the old links stay.
UnlinkPostNothing(r) ==
  /\ At(r, "unlink", {"create", "edit"})
  /\ Goto(r, IF todo[r] = <<>> THEN "commit" ELSE "tag")
  /\ UNCHANGED <<tables, used, lastFile, job, todo, row, writes, stale>>

\* upsertHashtags: DELETE FROM post_hashtags WHERE post_id = ...
UnlinkPost(r) ==
  /\ At(r, "unlink", {"create", "edit"})
  /\ cut' = [cut EXCEPT ![r] = LinksOf(job[r].post)]
  /\ Goto(r, IF todo[r] = <<>> THEN "commit" ELSE "tag")
  /\ UNCHANGED <<tables, used, lastFile, job, todo, row, rowWrite, add, newFiles, stale>>

\* Mutated form of NextTags: the tags are kept in a map, which has no order.
NextTagsUnordered(r) == DOMAIN todo[r]

\* Where the tag stands whose turn it is.
NextTags(r) == {1}

\* The row with the name n, or the id of a new one (while the bound Ids lasts).
TagRow(r, n) ==
  IF Named(r, n) # {} THEN Named(r, n) ELSE {i \in Ids \ used : i = CHOOSE j \in Ids \ used : TRUE}

\* ... and for each tag in turn INSERT ... ON CONFLICT (name) DO UPDATE, which
\* takes the row of the tag or makes one, and the link to it.  A tag that is
\* given twice is upserted twice, the second time to no effect.
UpsertTag(r) ==
  /\ pc[r] = "tag"
  /\ \E k \in NextTags(r) :
       LET n == todo[r][k] IN
       /\ Busy(r, n) = {}
       /\ \E i \in TagRow(r, n) :
            /\ rowWrite' = [rowWrite EXCEPT ![r][i] = n]
            /\ used' = used \cup {i}
            /\ add' = [add EXCEPT ![r] = @ \cup {i}]
       /\ todo' = [todo EXCEPT ![r] = RemoveAt(@, k)]
  /\ Goto(r, IF todo'[r] = <<>> THEN "commit" ELSE "tag")
  /\ UNCHANGED <<tables, lastFile, job, row, cut, newFiles, stale>>

\* SoftDeletePost: attachments and links stay.
DeletePost(r) ==
  /\ At(r, "new", {"deletePost"})
  /\ life[job[r].post] = "live"
  /\ life' = [life EXCEPT ![job[r].post] = "deleted"]
  /\ Goto(r, "done")
  /\ UNCHANGED <<name, links, files, given, used, lastFile, job, todo, row, writes, stale>>

\* No row with deleted_at IS NULL.
PostGone(r) ==
  /\ At(r, "new", {"edit", "deletePost"})
  /\ life[job[r].post] # "live"
  /\ Rollback(r)

-----------------------------------------------------------------------------
(* Hashtags.                                                               *)

\* CreateHashtag, one statement; the name may be taken.
CreateTag(r) ==
  /\ At(r, "new", {"createTag"})
  /\ \E i \in TagRow(r, job[r].name) :
       /\ name' = [name EXCEPT ![i] = job[r].name]
       /\ used' = used \cup {i}
  /\ Goto(r, "done")
  /\ UNCHANGED <<links, files, life, given, lastFile, job, todo, row, writes, stale>>

\* RenameHashtag: the UPDATE takes the row ...
RenameRow(r) ==
  /\ At(r, "new", {"rename"})
  /\ \E i \in Named(r, job[r].name) :
       /\ rowWrite' = [rowWrite EXCEPT ![r][i] = job[r].next]
       /\ row' = [row EXCEPT ![r] = i]
  /\ Goto(r, "unique")
  /\ UNCHANGED <<tables, used, lastFile, job, todo, cut, add, newFiles, stale>>

\* ... and enters its new name into the unique index.
CheckUnique(r) ==
  /\ At(r, "unique", {"rename"})
  /\ \A i \in Ids \ {row[r]} : name[i] # job[r].next
  /\ Goto(r, "commit")
  /\ UNCHANGED <<tables, used, lastFile, job, todo, row, writes, stale>>

NameTaken(r) ==
  /\ At(r, "unique", {"rename"})
  /\ \E i \in Ids \ {row[r]} : name[i] = job[r].next
  /\ Rollback(r)

\* Mutated form of FindTag: with the match that the search uses, ILIKE, which
\* may hit another tag.
FindTagAlike(r) ==
  /\ At(r, "new", {"deleteTag"})
  /\ \E i \in {i \in Ids : name[i] # NoName} : row' = [row EXCEPT ![r] = i]
  /\ Goto(r, "unlinkTag")
  /\ UNCHANGED <<tables, used, lastFile, job, todo, writes, stale>>

\* DeleteHashtag looks for the id, without a lock ...
FindTag(r) ==
  /\ At(r, "new", {"deleteTag"})
  /\ \E i \in Named(r, job[r].name) : row' = [row EXCEPT ![r] = i]
  /\ Goto(r, "unlinkTag")
  /\ UNCHANGED <<tables, used, lastFile, job, todo, writes, stale>>

\* Nothing has the name that is to be renamed or deleted.
NoSuchTag(r) ==
  /\ At(r, "new", {"rename", "deleteTag"})
  /\ Named(r, job[r].name) = {}
  /\ Rollback(r)

\* ... deletes the links with this id ...
UnlinkTag(r) ==
  /\ At(r, "unlinkTag", {"deleteTag"})
  /\ cut' = [cut EXCEPT ![r] = LinksWith(row[r])]
  /\ Goto(r, "dropTag")
  /\ UNCHANGED <<tables, used, lastFile, job, todo, row, rowWrite, add, newFiles, stale>>

\* ... and the row.
DropTag(r) ==
  /\ At(r, "dropTag", {"deleteTag"})
  /\ name[row[r]] # NoName
  /\ LinksWith(row[r]) \subseteq cut[r]
  /\ rowWrite' = [rowWrite EXCEPT ![r][row[r]] = NoName]
  /\ Goto(r, "commit")
  /\ UNCHANGED <<tables, used, lastFile, job, todo, row, cut, add, newFiles, stale>>

\* The row is gone already, or a post has been linked to it since (the foreign
\* key is ON DELETE RESTRICT): everything is rolled back.
DropRefused(r) ==
  /\ At(r, "dropTag", {"deleteTag"})
  /\ name[row[r]] = NoName \/ ~(LinksWith(row[r]) \subseteq cut[r])
  /\ Rollback(r)

-----------------------------------------------------------------------------
IsPost(r)  == job[r].op \in {"create", "edit"}
HasTags(r) == IsPost(r) /\ job[r].tags # NotGiven

\* tx.Commit.
Commit(r) ==
  /\ pc[r] = "commit"
  /\ name' = [i \in Ids |-> IF Holds(r, i) THEN rowWrite[r][i] ELSE name[i]]
  /\ links' = (links \ cut[r]) \cup ({job[r].post} \X add[r])
  /\ files' = IF IsPost(r) THEN [files EXCEPT ![job[r].post] = newFiles[r]] ELSE files
  /\ life' = IF IsPost(r) THEN [life EXCEPT ![job[r].post] = "live"] ELSE life
  /\ given' = IF HasTags(r) THEN [given EXCEPT ![job[r].post] = add[r]] ELSE given
  /\ stale' = IF job[r].op = "rename"
                THEN stale \cup {q \in Requests : /\ pc[q] \in {"unlinkTag", "dropTag"}
                                                  /\ row[q] = row[r]}
                ELSE stale
  /\ Goto(r, "done")
  /\ Release(r)
  /\ UNCHANGED <<used, lastFile, job, todo, row>>

\* The requests of S wait for each other.
Deadlocked(S) ==
  /\ S # {}
  /\ \A q \in S : WaitsFor(q) \cap S # {} /\ \E o \in S : q \in WaitsFor(o)

\* The database ends a deadlock by failing one of those in it.
Victim(r) ==
  /\ \E S \in SUBSET Requests : r \in S /\ Deadlocked(S)
  /\ Rollback(r)

\* Anything else goes wrong, the 30 seconds of the request are over or its
\* process ends.
Fail(r) ==
  /\ MayFail
  /\ pc[r] \notin {"new", "done"}
  /\ Rollback(r)

PostStep(r) ==
  CreatePost(r) \/ UpdatePost(r) \/ UnlinkPost(r) \/ UpsertTag(r) \/ DeletePost(r) \/ PostGone(r)

TagStep(r) ==
  \/ CreateTag(r) \/ RenameRow(r) \/ CheckUnique(r) \/ NameTaken(r)
  \/ FindTag(r) \/ NoSuchTag(r) \/ UnlinkTag(r) \/ DropTag(r) \/ DropRefused(r)

Step(r) == PostStep(r) \/ TagStep(r) \/ Commit(r)

Next == \E r \in Requests : Step(r) \/ Victim(r) \/ Fail(r)

Spec == Init /\ [][Next]_vars

\* A request that has begun goes on, and the database finds deadlocks.
FairSpec ==
  Spec /\ \A r \in Requests : WF_vars(pc[r] # "new" /\ Step(r)) /\ WF_vars(Victim(r))

-----------------------------------------------------------------------------
(* Properties.                                                             *)

\* A post has the hashtags that the last committed write gave it, under the
\* names they have by now, less those that were deleted since - while writes,
\* renames and deletions of the same hashtags run into each other and fail in
\* the middle.  No link is left to a hashtag that is gone.
LinksFollowLastWrite ==
  \A p \in Posts : {i \in Ids : <<p, i>> \in links} = {i \in given[p] : name[i] # NoName}

\* A file that a post keeps keeps its row, on which its Drive upload hangs: of
\* each key as many rows stay as are there before and after.
KeptFilesKeepTheirRow ==
  [][\A p \in Posts, k \in Keys :
       LET ids(F) == {f.id : f \in {g \in F : g.key = k}} IN
       life[p] = "live" =>
         LET kept == Cardinality(ids(files[p]) \cap ids(files'[p])) IN
         kept = Cardinality(ids(files[p])) \/ kept = Cardinality(ids(files'[p]))]_vars

\* The names a request takes, in its order: those of its list, or the old and
\* then the new name.
NameOrder(r) ==
  IF HasTags(r) THEN job[r].tags
  ELSE IF job[r].op = "rename" THEN <<job[r].name, job[r].next>> ELSE <<>>

Precedes(s, m, n) == \E i, j \in DOMAIN s : i < j /\ s[i] = m /\ s[j] = n

\* The requests of S name hashtags in orders that do not fit together: from each
\* name of some set, one of them goes on to another of the set.
Circular(S) ==
  \E N \in SUBSET Names :
    N # {} /\ \A m \in N : \E n \in N \ {m}, r \in S : Precedes(NameOrder(r), m, n)

\* Requests get in each other's way for good only by the orders in which posts
\* and renames name hashtags: when one common order fits them all nobody is
\* stuck, and creations and deletions of hashtags never add to a deadlock.
DeadlocksNeedCircularOrders ==
  \A S \in SUBSET Requests : Deadlocked(S) => Circular(S)

\* A deletion takes the hashtag with the name it was given, unless that was
\* renamed after its id was read.
FreshDeletionIsOfItsName ==
  [][\A r \in Requests \ stale : DropTag(r) => name[row[r]] = job[r].name]_vars

(* The inductive invariant behind LinksFollowLastWrite and                  *)
(* FreshDeletionIsOfItsName.                                               *)

Writing(r) == IsPost(r) /\ pc[r] \in {"unlink", "tag", "commit"}

\* Rows and links are held by one transaction at most, and so are posts; nobody
\* else creates the same post.
LocksAreExclusive ==
  \A q, r \in Requests : q # r =>
    /\ job[q].op = "create" /\ job[r].op = "create" => job[q].post # job[r].post
    /\ cut[q] \cap cut[r] = {}
    /\ \A i \in Ids : ~(Holds(q, i) /\ Holds(r, i))
    /\ ~(Writing(q) /\ Writing(r) /\ job[q].post = job[r].post)

\* A row that nobody but its writer knows: no post had it, no request found it.
Unseen(i) ==
  /\ name[i] = NoName
  /\ \A p \in Posts : i \notin given[p]
  /\ \A q \in Requests : row[q] # i

\* What the steps of a post have written so far: its old links are cut, and it
\* holds hashtags under the names they have, or new ones.
PostWritesIts(r) ==
  /\ Writing(r) => life[job[r].post] = IF job[r].op = "create" THEN "absent" ELSE "live"
  /\ pc[r] \in {"unlink", "tag"} => HasTags(r)
  /\ pc[r] = "tag" => todo[r] # <<>>
  /\ cut[r] = IF HasTags(r) /\ pc[r] \in {"tag", "commit"} THEN LinksOf(job[r].post) ELSE {}
  /\ add[r] = {i \in Ids : Holds(r, i)}
  /\ add[r] # {} => HasTags(r) /\ pc[r] \in {"tag", "commit"}
  /\ \A i \in Ids : Holds(r, i) =>
       rowWrite[r][i] # NoName /\ (rowWrite[r][i] = name[i] \/ Unseen(i))

\* What renames and deletions have written.
TagWritesIts(r) ==
  /\ add[r] = {}
  /\ pc[r] \notin {"unlink", "tag"}
  /\ \A i \in Ids : Holds(r, i) =>
       /\ i = row[r] /\ name[i] # NoName
       /\ IF job[r].op = "deleteTag" THEN pc[r] = "commit" /\ rowWrite[r][i] = NoName
          ELSE job[r].op = "rename" /\ pc[r] \in {"unique", "commit"} /\ rowWrite[r][i] \in Names
  /\ cut[r] # {} =>
       /\ job[r].op = "deleteTag" /\ pc[r] \in {"dropTag", "commit"}
       /\ cut[r] \subseteq LinksWith(row[r])
  /\ job[r].op = "deleteTag" /\ pc[r] = "commit" =>
       row[r] \in Ids /\ Holds(r, row[r]) /\ cut[r] = LinksWith(row[r])
  /\ pc[r] \in {"unlinkTag", "dropTag"} =>
       /\ row[r] \in Ids
       /\ r \notin stale => name[row[r]] \in {job[r].name, NoName}

\* Rows that were seen have been there.
RowsAreKnown ==
  /\ \A i \in Ids : name[i] # NoName => i \in used
  /\ \A p \in Posts : given[p] \subseteq used
  /\ \A r \in Requests :
       /\ row[r] # NoName => row[r] \in used
       /\ \A i \in Ids : Holds(r, i) => i \in used

TablesAreSound == \A p \in Posts : life[p] = "absent" => given[p] = {}

IInv ==
  /\ TypeOK
  /\ LocksAreExclusive
  /\ \A r \in Requests : IF IsPost(r) THEN PostWritesIts(r) ELSE TagWritesIts(r)
  /\ RowsAreKnown
  /\ TablesAreSound
  /\ LinksFollowLastWrite

(* What is needed on top of it for DeadlocksNeedCircularOrders.            *)

\* The names that a row has or is about to have.
Claimed(i) ==
  ({name[i]} \cup {rowWrite[q][i] : q \in {o \in Requests : pc[o] # "unique"}}) \ {NoName, Same}

\* The index on hashtags.name is unique, also over what is not committed yet.
NamesAreUnique == \A i, j \in Ids : i # j => Claimed(i) \cap Claimed(j) = {}

\* What a request holds comes before what it is still to take.
TakesInOrder(r) ==
  /\ pc[r] \in {"unlink", "tag"} => \A k, l \in DOMAIN todo[r] :
       k < l => Precedes(job[r].tags, todo[r][k], todo[r][l])
  /\ pc[r] = "tag" => \A i \in Ids, l \in DOMAIN todo[r] :
       Holds(r, i) => Precedes(job[r].tags, rowWrite[r][i], todo[r][l])
  /\ pc[r] = "unique" =>
       /\ job[r].op = "rename" /\ row[r] \in Ids /\ Holds(r, row[r])
       /\ rowWrite[r][row[r]] = job[r].next /\ name[row[r]] = job[r].name
  /\ pc[r] \in {"unlinkTag", "dropTag"} => job[r].op = "deleteTag"

\* Of two deletions of the same hashtag one has cut all its links.
OneCutsAll ==
  \A q, r \in Requests :
    q # r /\ pc[q] = "dropTag" /\ pc[r] = "dropTag" /\ row[q] = row[r] => cut[q] = {} \/ cut[r] = {}

OrderInv == NamesAreUnique /\ (\A r \in Requests : TakesInOrder(r)) /\ OneCutsAll

(* What is needed for KeptFilesKeepTheirRow.                                *)

FilesOf(F, k) == {f \in F : f.key = k}

\* Of each key all rows stay, or none is new.
KeepsRows(old, new) ==
  \A k \in Keys : FilesOf(old, k) \subseteq FilesOf(new, k) \/ FilesOf(new, k) \subseteq FilesOf(old, k)

\* Rows that were numbered one by one, up to n.
AreNumbered(F, n) ==
  /\ IsFiniteSet(F)
  /\ \A f \in F : f.id <= n
  /\ \A f, g \in F : f.id = g.id => f = g

\* What a transaction is about to give a post agrees with what the post has.
FilesInv ==
  /\ \A p \in Posts : AreNumbered(files[p], lastFile)
  /\ \A r \in Requests : AreNumbered(newFiles[r], lastFile)
  /\ \A r \in Requests : Writing(r) => KeepsRows(files[job[r].post], newFiles[r])

\* Every request that has begun comes to an end: nobody waits for ever.
EveryRequestEnds == \A r \in Requests : pc[r] # "new" ~> pc[r] = "done"
=============================================================================
