---------------------------- MODULE DriveFolders ----------------------------
(***************************************************************************)
(* Where in Google Drive the videos of a post go: the root folder of the   *)
(* settings, the list of the folders below it that is kept in              *)
(* google_drive_folders (internal/service/drive_folders.go over            *)
(* storage.GoogleDrive.ListFolders), the folder that a post names          *)
(* (PostService.Create and Update), and the folder that the worker uploads *)
(* to (resolveUploadFolderID of internal/service/drive_sync.go).           *)
(*                                                                         *)
(* Folders are moved in Drive while they are being listed; requests of     *)
(* several users refresh the list, change the root, and write the post at  *)
(* the same time.  A refresh writes the list in one transaction at READ    *)
(* COMMITTED: the DELETE sees the rows that were committed when it began,  *)
(* waits for rows that another refresh deletes, and never sees those that  *)
(* the other has put in their place.                                       *)
(*                                                                         *)
(* Abstractions.  A folder's name is the folder itself, and a path is the  *)
(* sequence of the folders it leads through, so its length is the depth.   *)
(* Folders with one parent have any order among each other.  The pages of  *)
(* a listing of one folder are one call.  There is one post; its own       *)
(* transaction is one step.  Rights are in PostReview, retries of the      *)
(* upload in DriveSync, and the connection in DriveConnection.             *)
(***************************************************************************)
EXTENDS Naturals, SequencesExt

CONSTANTS
  Folders,     \* ids of folders in Drive
  Roots,       \* ids of folders that can be the root
  NoRoot,      \* the setting is absent or blank
  DefaultRoot, \* GOOGLE_DRIVE_FOLDER_ID
  Elsewhere,   \* where a folder is that nobody sees: not yet made, or trashed
  NoTarget,    \* a post names no folder
  Before,      \* a refresh from before
  Keep,        \* a part of the post that an edit leaves alone
  Requests,    \* the requests, and runs of the worker
  Mixes,       \* bound: what they may ask for together
  Forests,     \* bound: what Drive may look like at first
  MaxMoves     \* bound: folders that are moved

Kinds == {"refresh", "setRoot", "create", "edit", "upload"}

\* video: whether the attachments of the request have one; folder:
\* drive_target_folder_id, NoTarget for a blank one.
Job == [kind : Kinds, root : Roots \cup {NoRoot}, video : BOOLEAN \cup {Keep},
        folder : Folders \cup {NoTarget, Keep}]

Places == Folders \cup Roots \cup {Elsewhere}

\* f is x, or is somewhere below it, where up says in what a folder is: x is in
\* every set that has f and, with a folder, what it is in.
Below(up, f, x) ==
  \A S \in SUBSET Places : f \in S /\ (\A g \in S \cap Folders : up[g] \in S) => x \in S

\* No folder is below itself.
IsForest(up) == \A f \in Folders : ~Below(up, up[f], f)

ASSUME DriveFoldersAssumption ==
  /\ IsFiniteSet(Folders)
  /\ {NoRoot, Elsewhere, NoTarget, Keep} \cap (Folders \cup Roots) = {}
  /\ Before \notin Requests
  /\ Folders \cap Roots = {}
  /\ Keep \notin BOOLEAN /\ Keep # NoTarget
  /\ DefaultRoot \in Roots \cup {NoRoot}
  /\ Mixes \subseteq [Requests -> Job]
  /\ \A f \in Mixes, q \in Requests : f[q].kind = "create" =>
       /\ f[q].video # Keep
       /\ \A p \in Requests \ {q} : f[p].kind # "create"
  /\ Forests \subseteq {up \in [Folders -> Places] : IsForest(up)}
  /\ MaxMoves \in Nat

VARIABLES
  parent,  \* Drive: where a folder is
  moves,   \* how often one was moved
  setting, \* google_drive_root_folder_id in system_settings
  cache,   \* google_drive_folders: the rows of a root
  mixed,   \* history: roots whose last refresh overlapped with another
  post,    \* whether it is there, has a video, and its target; raced is history:
           \* it is from before there were targets, or its last write was overtaken
  job,     \* what a request asks for
  req      \* where it is and what it has read

vars == <<parent, moves, setting, cache, mixed, post, job, req>>

Paths == Seq(Folders)

\* A row of the cache; by is history: the refresh that has written it.
Rows == [path : Paths \ {<<>>}, by : Requests \cup {Before}]

Targets == Folders \cup Roots \cup {NoTarget}

RequestPCs == {"new", "target", "files", "root", "list", "delete", "wait", "insert",
               "cache", "exists", "write", "send", "done"}

\* found: the folders in the order in which they were found; listed: how many
\* listings were made, the root's among them; gone and put: the rows deleted
\* and how many were inserted.  late, moved, lone and fell are history: another
\* request wrote during this one; Drive changed during the traversal; no other
\* refresh of the root wrote during this one; the setting could not be read.
States == [pc : RequestPCs, root : Roots \cup {NoRoot}, found : Seq(Paths), listed : Nat,
           gone : SUBSET Rows, put : Nat, target : Targets, video : BOOLEAN,
           late : BOOLEAN, moved : BOOLEAN, lone : BOOLEAN, fell : BOOLEAN]

TypeOK ==
  /\ parent \in [Folders -> Places]
  /\ moves \in 0 .. MaxMoves
  /\ setting \in Roots \cup {NoRoot}
  /\ cache \in [Roots -> SUBSET Rows]
  /\ mixed \subseteq Roots
  /\ post \in [there : BOOLEAN, video : BOOLEAN, target : Targets, raced : BOOLEAN]
  /\ job \in [Requests -> Job]
  /\ req \in [Requests -> States]

Fresh == [pc |-> "new", root |-> NoRoot, found |-> <<>>, listed |-> 0, gone |-> {}, put |-> 0,
          target |-> NoTarget, video |-> FALSE,
          late |-> FALSE, moved |-> FALSE, lone |-> TRUE, fell |-> FALSE]

\* A request that has ended.
Done == [Fresh EXCEPT !.pc = "done"]

\* The folders below a root, as paths.
Tree(r) ==
  {p \in UNION {[1 .. n -> Folders] : n \in 1 .. Cardinality(Folders)} :
     \A i \in 1 .. Len(p) : parent[p[i]] = IF i = 1 THEN r ELSE p[i - 1]}

\* The list of a root may be from before.  A post from before there were targets
\* (migration 0009) may have a video and none.
Init ==
  /\ parent \in Forests
  /\ moves = 0
  /\ setting = NoRoot
  /\ \E listed \in SUBSET Roots :
       cache = [r \in Roots |-> IF r \in listed THEN {[path |-> p, by |-> Before] : p \in Tree(r)}
                                ELSE {}]
  /\ mixed = {}
  /\ job \in Mixes
  /\ \E there, video \in BOOLEAN :
       /\ there <=> \A q \in Requests : job[q].kind # "create"
       /\ video => there
       /\ post = [there |-> there, video |-> video, target |-> NoTarget, raced |-> video]
  /\ req = [q \in Requests |-> Fresh]

At(q, where) == req[q].pc = where

\* The request goes on in another state; the rest of it stays.
Become(q, state) == req' = [req EXCEPT ![q] = state]

\* ... and what the others have read is no longer what there is.
BecomeWriter(q, state) ==
  req' = [p \in Requests |-> IF p = q THEN state
                             ELSE [req[p] EXCEPT !.late = @ \/ req[p].pc \notin {"new", "done"}]]

-----------------------------------------------------------------------------
(* Drive.                                                                  *)

\* A folder is made, moved or trashed; never into itself.
MoveFolder(f, to) ==
  /\ moves < MaxMoves
  /\ to # parent[f] /\ ~Below(parent, to, f)
  /\ parent' = [parent EXCEPT ![f] = to]
  /\ moves' = moves + 1
  /\ req' = [q \in Requests |-> [req[q] EXCEPT !.moved = @ \/ At(q, "list")]]
  /\ UNCHANGED <<setting, cache, mixed, post, job>>

-----------------------------------------------------------------------------
(* The root and the list.                                                  *)

\* ResolveRootFolderID.
EffectiveRoot == IF setting # NoRoot THEN setting ELSE DefaultRoot

\* UpdateDriveSettings.
SetRoot(q) ==
  /\ At(q, "new") /\ job[q].kind = "setRoot"
  /\ setting' = job[q].root
  /\ BecomeWriter(q, Done)
  /\ UNCHANGED <<parent, moves, cache, mixed, post, job>>

\* A refresh begins with the root; so does a post that must have a target.
StartRefresh(q) ==
  /\ At(q, "new") /\ job[q].kind = "refresh"
  /\ Become(q, [req[q] EXCEPT !.pc = "root"])
  /\ UNCHANGED <<parent, moves, setting, cache, mixed, post, job>>

\* Mutated form of ReadRoot: the environment comes first.
ReadRootOfEnvironment(q) ==
  /\ At(q, "root")
  /\ LET next == IF job[q].kind = "refresh" THEN "list" ELSE "cache" IN
     Become(q, IF DefaultRoot = NoRoot THEN Done
               ELSE [req[q] EXCEPT !.pc = next, !.root = DefaultRoot])
  /\ UNCHANGED <<parent, moves, setting, cache, mixed, post, job>>

\* Without a root there is nothing to refresh, to choose, or to upload to.
ReadRoot(q) ==
  /\ At(q, "root")
  /\ LET next == IF job[q].kind = "refresh" THEN "list" ELSE "cache" IN
     Become(q, IF EffectiveRoot = NoRoot THEN Done
               ELSE [req[q] EXCEPT !.pc = next, !.root = EffectiveRoot])
  /\ UNCHANGED <<parent, moves, setting, cache, mixed, post, job>>

\* The worker takes the default when the setting cannot be read.
ReadRootFails(q) ==
  /\ At(q, "root") /\ job[q].kind = "upload"
  /\ Become(q, IF DefaultRoot = NoRoot THEN Done
               ELSE [req[q] EXCEPT !.pc = "cache", !.root = DefaultRoot, !.fell = TRUE])
  /\ UNCHANGED <<parent, moves, setting, cache, mixed, post, job>>

\* The path of the folder whose children are listed next.
NextPath(q) == IF req[q].listed = 0 THEN <<>> ELSE req[q].found[req[q].listed]

\* Mutated form of Children: the path of the parent is not passed on.
ChildrenWithoutPath(q) ==
  LET p == NextPath(q)
      from == IF p = <<>> THEN req[q].root ELSE Last(p)
  IN {<<f>> : f \in {f \in Folders : parent[f] = from}}

Children(q) ==
  LET p == NextPath(q)
      from == IF p = <<>> THEN req[q].root ELSE Last(p)
  IN {Append(p, f) : f \in {f \in Folders : parent[f] = from}}

\* Mutated form of ListChildren: a folder without subfolders is not taken out
\* of the queue.
ListChildrenKeepsLeaves(q) ==
  /\ At(q, "list") /\ req[q].listed <= Len(req[q].found)
  /\ \E s \in SetToSeqs(Children(q)) :
       Become(q, [req[q] EXCEPT !.found = @ \o s, !.listed = @ + (IF s = <<>> THEN 0 ELSE 1)])
  /\ UNCHANGED <<parent, moves, setting, cache, mixed, post, job>>

\* listDirectChildFolders for the head of the queue: its children join the
\* queue and the result.
ListChildren(q) ==
  /\ At(q, "list") /\ req[q].listed <= Len(req[q].found)
  /\ \E s \in SetToSeqs(Children(q)) :
       Become(q, [req[q] EXCEPT !.found = @ \o s, !.listed = @ + 1])
  /\ UNCHANGED <<parent, moves, setting, cache, mixed, post, job>>

\* The queue is empty.
FinishTraversal(q) ==
  /\ At(q, "list") /\ req[q].listed > Len(req[q].found)
  /\ Become(q, [req[q] EXCEPT !.pc = "delete", !.moved = FALSE])
  /\ UNCHANGED <<parent, moves, setting, cache, mixed, post, job>>

(* ReplaceGoogleDriveFolders. *)

Folder(row) == Last(row.path)

Inserted(q) == {[path |-> req[q].found[i], by |-> q] : i \in 1 .. req[q].put}

\* Other refreshes of the same root in their transactions.
Rivals(q) ==
  {p \in Requests \ {q} : req[p].pc \in {"wait", "insert"} /\ req[p].root = req[q].root}

\* Those that hold a row of this folder.
Holders(q, f) ==
  {p \in Rivals(q) : At(p, "insert") /\ \E w \in req[p].gone \cup Inserted(p) : Folder(w) = f}

\* The DELETE begins: these are the rows that it will ever see.
BeginDelete(q) ==
  /\ At(q, "delete")
  /\ req' = [p \in Requests |->
       IF p = q THEN [req[q] EXCEPT !.pc = "wait", !.gone = cache[req[q].root],
                                    !.lone = Rivals(q) = {}]
       ELSE [req[p] EXCEPT !.lone = @ /\ p \notin Rivals(q)]]
  /\ UNCHANGED <<parent, moves, setting, cache, mixed, post, job>>

\* Mutated form of EndDelete: the rows of folders that are no more are kept.
EndDeleteFound(q) ==
  /\ At(q, "wait")
  /\ \A w \in req[q].gone : Holders(q, Folder(w)) = {}
  /\ Become(q, [req[q] EXCEPT
       !.pc = "insert",
       !.gone = {w \in @ \cap cache[req[q].root] :
                   \E i \in DOMAIN req[q].found : Last(req[q].found[i]) = Folder(w)}])
  /\ UNCHANGED <<parent, moves, setting, cache, mixed, post, job>>

\* ... and ends when nobody else holds one of them; rows that are gone by then
\* are passed over.
EndDelete(q) ==
  /\ At(q, "wait")
  /\ \A w \in req[q].gone : Holders(q, Folder(w)) = {}
  /\ Become(q, [req[q] EXCEPT !.pc = "insert", !.gone = @ \cap cache[req[q].root]])
  /\ UNCHANGED <<parent, moves, setting, cache, mixed, post, job>>

\* The folder that is inserted next is in the list already.
Repeated(q, f) ==
  \E w \in (cache[req[q].root] \ req[q].gone) \cup Inserted(q) : Folder(w) = f

InsertFolder(q) ==
  /\ At(q, "insert") /\ req[q].put < Len(req[q].found)
  /\ LET f == Last(req[q].found[req[q].put + 1]) IN
       /\ Holders(q, f) = {}
       /\ ~Repeated(q, f)
  /\ Become(q, [req[q] EXCEPT !.put = @ + 1])
  /\ UNCHANGED <<parent, moves, setting, cache, mixed, post, job>>

\* The primary key refuses it, and all is rolled back.
InsertRefused(q) ==
  /\ At(q, "insert") /\ req[q].put < Len(req[q].found)
  /\ LET f == Last(req[q].found[req[q].put + 1]) IN
       /\ Holders(q, f) = {}
       /\ Repeated(q, f)
  /\ Become(q, Done)
  /\ UNCHANGED <<parent, moves, setting, cache, mixed, post, job>>

CommitRefresh(q) ==
  /\ At(q, "insert") /\ req[q].put = Len(req[q].found)
  /\ LET root == req[q].root IN
       /\ cache' = [cache EXCEPT ![root] = (@ \ req[q].gone) \cup Inserted(q)]
       /\ mixed' = IF req[q].lone THEN mixed \ {root} ELSE mixed \cup {root}
  /\ BecomeWriter(q, Done)
  /\ UNCHANGED <<parent, moves, setting, post, job>>

-----------------------------------------------------------------------------
(* The target of a post.                                                   *)

\* Mutated form of Chooses: only a request that names a folder.
ChoosesNamed(q) == job[q].kind = "create" \/ job[q].folder # Keep

\* normalizeDriveTargetFolderID is called: not for an edit of the text alone.
Chooses(q) == job[q].kind = "create" \/ job[q].folder # Keep \/ job[q].video # Keep

\* The post is going to have a video, as far as a request in this state knows.
ToHaveVideo(q, state) == IF job[q].video = Keep THEN state.video ELSE job[q].video

\* A post without a video has no target; otherwise the root is looked up.
Choose(q, state) ==
  Become(q, IF ~Chooses(q) THEN [state EXCEPT !.pc = "write"]
            ELSE IF ToHaveVideo(q, state) THEN [state EXCEPT !.pc = "root"]
            ELSE [state EXCEPT !.pc = "write", !.target = NoTarget])

StartCreate(q) ==
  /\ At(q, "new") /\ job[q].kind = "create"
  /\ Choose(q, req[q])
  /\ UNCHANGED <<parent, moves, setting, cache, mixed, post, job>>

\* An edit reads the post ...
ReadPost(q) ==
  /\ At(q, "new") /\ job[q].kind = "edit"
  /\ Become(q, IF post.there THEN [req[q] EXCEPT !.pc = "files", !.target = post.target]
               ELSE Done)
  /\ UNCHANGED <<parent, moves, setting, cache, mixed, post, job>>

\* ... and then its attachments.
ReadFiles(q) ==
  /\ At(q, "files")
  /\ Choose(q, [req[q] EXCEPT !.video = post.video])
  /\ UNCHANGED <<parent, moves, setting, cache, mixed, post, job>>

\* GetCache: an empty list means the root itself; otherwise a folder must be
\* named.
ReadCache(q) ==
  /\ At(q, "cache") /\ job[q].kind \in {"create", "edit"}
  /\ Become(q, IF cache[req[q].root] = {}
               THEN [req[q] EXCEPT !.pc = "write", !.target = req[q].root]
               ELSE IF job[q].folder \in Folders
                    THEN [req[q] EXCEPT !.pc = "exists", !.target = job[q].folder]
                    ELSE Done)
  /\ UNCHANGED <<parent, moves, setting, cache, mixed, post, job>>

\* Mutated form of Offers: the root is left out of the condition.
OffersAnywhere(r, f) == \E x \in Roots : \E w \in cache[x] : Folder(w) = f

\* GoogleDriveFolderExists.
Offers(r, f) == \E w \in cache[r] : Folder(w) = f

CheckFolder(q) ==
  /\ At(q, "exists")
  /\ Become(q, IF Offers(req[q].root, req[q].target) THEN [req[q] EXCEPT !.pc = "write"] ELSE Done)
  /\ UNCHANGED <<parent, moves, setting, cache, mixed, post, job>>

\* Mutated form of WritePost: the folder is written as it was given.
WritePostAsGiven(q) ==
  /\ At(q, "write")
  /\ post' = [there  |-> TRUE,
              video  |-> IF job[q].video = Keep THEN post.video ELSE job[q].video,
              target |-> job[q].folder,
              raced  |-> req[q].late \/ (post.raced /\ ~Chooses(q))]
  /\ BecomeWriter(q, Done)
  /\ UNCHANGED <<parent, moves, setting, cache, mixed, job>>

\* CreatePost and UpdatePost: the target is written in any case, attachments
\* if they were given.
WritePost(q) ==
  /\ At(q, "write")
  /\ post' = [there  |-> TRUE,
              video  |-> IF job[q].video = Keep THEN post.video ELSE job[q].video,
              target |-> req[q].target,
              raced  |-> req[q].late \/ (post.raced /\ ~Chooses(q))]
  /\ BecomeWriter(q, Done)
  /\ UNCHANGED <<parent, moves, setting, cache, mixed, job>>

-----------------------------------------------------------------------------
(* The upload.                                                             *)

\* The worker claims the video, with the target of its post.
Claim(q) ==
  /\ At(q, "new") /\ job[q].kind = "upload"
  /\ post.video
  /\ Become(q, [req[q] EXCEPT !.pc = IF post.target = NoTarget THEN "root" ELSE "send",
                              !.target = post.target])
  /\ UNCHANGED <<parent, moves, setting, cache, mixed, post, job>>

\* A post without a target goes to the root, but only if no folder could have
\* been named.
ReadCacheForUpload(q) ==
  /\ At(q, "cache") /\ job[q].kind = "upload"
  /\ Become(q, IF cache[req[q].root] = {}
               THEN [req[q] EXCEPT !.pc = "send", !.target = req[q].root]
               ELSE Done)
  /\ UNCHANGED <<parent, moves, setting, cache, mixed, post, job>>

Send(q) ==
  /\ At(q, "send")
  /\ Become(q, Done)
  /\ UNCHANGED <<parent, moves, setting, cache, mixed, post, job>>

\* A statement or a call fails, the time of the request is over, or the
\* database ends one of two refreshes that wait for each other.
Fail(q) ==
  /\ ~At(q, "new") /\ ~At(q, "done")
  /\ Become(q, Done)
  /\ UNCHANGED <<parent, moves, setting, cache, mixed, post, job>>

-----------------------------------------------------------------------------
RefreshStep(q) ==
  \/ StartRefresh(q) \/ ListChildren(q) \/ FinishTraversal(q)
  \/ BeginDelete(q) \/ EndDelete(q) \/ InsertFolder(q) \/ InsertRefused(q) \/ CommitRefresh(q)

PostStep(q) ==
  \/ StartCreate(q) \/ ReadPost(q) \/ ReadFiles(q) \/ ReadCache(q)
  \/ CheckFolder(q) \/ WritePost(q)

UploadStep(q) == ReadRootFails(q) \/ Claim(q) \/ ReadCacheForUpload(q) \/ Send(q)

RequestStep(q) ==
  \/ SetRoot(q) \/ ReadRoot(q) \/ RefreshStep(q) \/ PostStep(q) \/ UploadStep(q) \/ Fail(q)

Next ==
  \/ \E f \in Folders, to \in Places : MoveFolder(f, to)
  \/ \E q \in Requests : RequestStep(q)

\* Drive answers in the end, or the request fails: a traversal goes on.
Fairness == \A q \in Requests : WF_vars(ListChildren(q) \/ FinishTraversal(q))

Spec == Init /\ [][Next]_vars /\ Fairness

-----------------------------------------------------------------------------
(* Properties.                                                             *)

\* A traversal during which nothing moves finds every folder below the root,
\* each once and with its path.
FreshTraversalsAreComplete ==
  [][\A q \in Requests : FinishTraversal(q) /\ ~req[q].moved =>
       /\ ToSet(req[q].found) = Tree(req[q].root)
       /\ IsInjective(req[q].found)]_vars

\* The list of a root has every folder once, and is what one refresh has found,
\* in which every folder has its parent - whatever was moved meanwhile - unless
\* two refreshes of that root have overlapped.
CacheIsATree ==
  \A r \in Roots :
    /\ \A v, w \in cache[r] : Folder(v) = Folder(w) => v = w
    /\ r \notin mixed => \A v, w \in cache[r] :
         /\ v.by = w.by
         /\ Len(w.path) > 1 => \E u \in cache[r] : u.path = Front(w.path)

\* A post with a video has a target, unless it is from before there were any, or
\* an edit was overtaken that wrote back the target from before.
VideosHaveTargets == post.video => post.target # NoTarget \/ post.raced

\* Every traversal ends, although it keeps no set of visited folders and folders
\* move under it: Drive has no cycles, and folders are not moved forever.
TraversalsEnd == \A q \in Requests : At(q, "list") ~> ~At(q, "list")

\* The target that a request chooses is one that the list offers, or the root
\* if there is no list, if nothing has been written since the request began.
FreshTargetsAreOffered ==
  [][\A q \in Requests : WritePost(q) /\ Chooses(q) /\ ~req[q].late /\ post'.video =>
       IF cache[EffectiveRoot] = {} THEN post'.target = EffectiveRoot
       ELSE \E w \in cache[EffectiveRoot] : Folder(w) = post'.target]_vars

\* A video that nobody writes to meanwhile is uploaded to the target of its
\* post, or into the root of the settings; only a setting that could not be
\* read sends it to another root.
FreshUploadsFollowTheSettings ==
  [][\A q \in Requests : Send(q) /\ ~req[q].late =>
       req[q].target = IF post.target # NoTarget THEN post.target
                       ELSE IF req[q].fell THEN DefaultRoot ELSE EffectiveRoot]_vars

(* The inductive invariant behind these, but for TraversalsEnd.            *)

IsPost(q) == job[q].kind \in {"create", "edit"}

\* Where each kind of request can be, and what it has by then.
IsSound(q) ==
  /\ At(q, "new") => req[q] = Fresh
  /\ req[q].pc \in {"list", "delete", "wait", "insert", "cache", "exists"} => req[q].root \in Roots
  /\ req[q].pc \in {"list", "delete", "wait", "insert"} => job[q].kind = "refresh"
  /\ req[q].pc \in {"files", "exists", "write"} => IsPost(q)
  /\ At(q, "files") => job[q].kind = "edit"
  /\ At(q, "send") => job[q].kind = "upload"
  /\ At(q, "cache") => job[q].kind # "refresh"
  /\ At(q, "root") => job[q].kind # "setRoot"
  /\ req[q].pc \in {"files", "root"} => req[q].found = <<>> /\ req[q].listed = 0
  /\ req[q].pc \in {"files", "root", "list", "delete", "wait"} => req[q].put = 0
  /\ req[q].listed <= Len(req[q].found) + 1 /\ req[q].put <= Len(req[q].found)

\* What a request for the post is about to write; unless it was overtaken, it
\* knows the post and the list.
PostIsChosen(q) == IsPost(q) =>
  /\ req[q].pc \in {"root", "cache", "exists"} => Chooses(q) /\ ToHaveVideo(q, req[q])
  /\ At(q, "exists") => req[q].target = job[q].folder /\ job[q].folder \in Folders
  /\ At(q, "write") /\ Chooses(q) => (req[q].target # NoTarget <=> ToHaveVideo(q, req[q]))
  /\ ~req[q].late =>
       /\ At(q, "files") => req[q].target = post.target
       /\ At(q, "write") /\ ~Chooses(q) => req[q].target = post.target
       /\ job[q].kind = "edit" /\ req[q].pc \in {"root", "cache", "exists", "write"} =>
            req[q].video = post.video
       /\ req[q].pc \in {"cache", "exists"} => req[q].root = EffectiveRoot
       /\ At(q, "exists") => cache[req[q].root] # {}
       /\ At(q, "write") /\ Chooses(q) /\ ToHaveVideo(q, req[q]) =>
            IF cache[EffectiveRoot] = {} THEN req[q].target = EffectiveRoot
            ELSE Offers(EffectiveRoot, req[q].target)

\* The same for an upload.
UploadIsChosen(q) == job[q].kind = "upload" /\ ~req[q].late =>
  LET root == IF req[q].fell THEN DefaultRoot ELSE EffectiveRoot IN
  /\ req[q].pc \in {"root", "cache"} => post.target = NoTarget
  /\ At(q, "root") => ~req[q].fell
  /\ At(q, "cache") => req[q].root = root
  /\ At(q, "send") => req[q].target = IF post.target # NoTarget THEN post.target ELSE root

\* The found folder with the number k, or the root.
PathOf(q, k) == IF k = 0 THEN <<>> ELSE req[q].found[k]

PlaceOf(q, k) == IF k = 0 THEN req[q].root ELSE Last(req[q].found[k])

\* A folder is found below one that was listed, and under one path once.
IsFoundOnce(q) == \A i \in DOMAIN req[q].found :
  /\ req[q].found[i] # <<>>
  /\ \E k \in 0 .. req[q].listed - 1 : k < i /\ PathOf(q, k) = Front(req[q].found[i])
  /\ \A j \in DOMAIN req[q].found : req[q].found[i] = req[q].found[j] => i = j

\* While nothing has moved, the found folders are where they were found, and
\* those in a listed one have been found.
IsTrue(q) == At(q, "list") /\ ~req[q].moved =>
  /\ \A i \in DOMAIN req[q].found : \A n \in DOMAIN req[q].found[i] :
       parent[req[q].found[i][n]] = IF n = 1 THEN req[q].root ELSE req[q].found[i][n - 1]
  /\ \A k \in 0 .. req[q].listed - 1, f \in Folders :
       parent[f] = PlaceOf(q, k) => Append(PathOf(q, k), f) \in ToSet(req[q].found)

\* Of two refreshes that write the list of a root none touches a folder that the
\* other holds.  What one has inserted fits to the rows that it leaves, and one
\* that is alone leaves none.
IsApart(q) == req[q].pc \in {"wait", "insert"} =>
  LET rows == cache[req[q].root] IN
  /\ req[q].lone => Rivals(q) = {} /\ req[q].gone = rows
  /\ At(q, "insert") =>
       /\ \A w \in req[q].gone \cup Inserted(q) : Holders(q, Folder(w)) = {}
       /\ req[q].gone \subseteq rows
       /\ \A v \in rows \ req[q].gone, w \in Inserted(q) : Folder(v) # Folder(w)
       /\ \A i, j \in 1 .. req[q].put : Last(req[q].found[i]) = Last(req[q].found[j]) => i = j

IInv ==
  /\ TypeOK /\ job \in Mixes /\ IsForest(parent)
  /\ \A q \in Requests :
       /\ IsSound(q) /\ PostIsChosen(q) /\ UploadIsChosen(q)
       /\ IsFoundOnce(q) /\ IsTrue(q) /\ IsApart(q)
  /\ VideosHaveTargets /\ CacheIsATree
=============================================================================
