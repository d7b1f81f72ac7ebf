# A formal model of pqmedia-be

TLA+ modules for the backend in this repository, TLC configurations that
model-check them on small instances, and theorems about them that the TLA+
proof system (TLAPS) checks for instances of any size. `PROJECT.json` lists the
parts of the system, the runs, the source lines behind every definition, the
hazards of the code with the properties that watch them, and the theorems.

To check: `tlc -config DriveSync_faults.cfg MCDriveSync.tla` (every `.cfg` names
its component first, the module is `MC` + that name), and
`tlapm DriveSync_proofs.tla`.

## The system

A Go HTTP server (`internal/httpserver/router.go`) over PostgreSQL. Every
request runs in a goroutine of its own, for 30 seconds at most; handlers
translate JSON, services decide, repositories talk SQL. Any number of server
processes may share the database. Nothing but single statements and explicit
transactions (at READ COMMITTED) is atomic: a service usually reads, decides in
Go, and then writes in another statement, which is where most of what follows
comes from. One goroutine per process, the Drive worker, runs beside the
requests.

| Component | State | Operations | What is hard | What makes it correct | Modelled in |
|---|---|---|---|---|---|
| Drive sync (`service/drive_sync.go`, `repository/attachment_drive_uploads.go`) | table `attachment_drive_uploads`, a one-token channel per process | queue, claim, upload, mark, requeue | several workers, crash, deadline and database failure between any two steps, lost answers of Drive, attachments deleted under the worker | one worker per video; a second copy only after a lost answer; every video attempted, but behind rows whose delay overflowed; no wake-up lost | `DriveSync`, `UploadQueue` |
| Drive connection (`service/google_drive_oauth.go`) | one row with the refresh token and its last error | connect, disconnect, refresh a token, requeue | late errors of an old token, a requeue that fails silently, the arithmetic of retries | errors and blocked videos belong to the connection there is | `DriveConnection` |
| Drive folders, settings (`service/drive_folders.go`, `settings.go`, `storage/google_drive.go`) | cached folder tree, root folder, target of a post | refresh, change the root, choose a folder, resolve it for an upload | folders move while they are listed; two refreshes; a refresh between check and write | the cache is a tree; what a post names was offered; the traversal ends | `DriveFolders` |
| Posts and review (`service/posts.go`, `repository/posts.go`) | `posts` | create, edit, review, resubmit, delete | checks on a row that has changed by the time of the write; clocks of overlapping transactions | reviews are signed by the entitled; authors resubmit only edited posts; deleted posts stay as they are | `PostReview` |
| Hashtags, attachments (`repository/posts.go`, `service/hashtags.go`) | `hashtags`, `post_hashtags`, `post_attachments` | write with a post; create, rename, delete a tag | row locks in the order of a request, rollbacks, ids found before a rename | links and files are those of the last committed write | `PostLinks` |
| Comments, reactions, publications, platforms (their `service/*.go`, `repository/*.go`) | their tables | comment, react, publish, change platforms, delete | targets that go between check and write; one counter, several devices | counts add up; nobody is told what is not so; nothing is written to what is gone | `Engagement` |
| Notifications, push (`service/notifications.go`, `push/sender.go`) | `notifications`, `web_push_subscriptions` | notify, read, subscribe, disable, prune | one recipient's failure, endpoints that change hands or come back, the 30 seconds | live subscriptions stay; devices get what is their owner's | `PushDelivery` (delivery), `PostReview` and `Engagement` (who is told what) |
| Feed, users, statistics (`service/posts.go`, `stats.go`, `repository/stats.go`) | none | pages, overview | count, rows and details are statements with a snapshot each | nothing skipped or repeated without a reason; totals agree | `Listings` |
| User administration and import (`service/users.go`, `user_imports.go`) | `users`; previews in the memory of a process | create, update, preview, commit, expiry | count, then write; a preview applied 15 minutes later, twice, after a restart | an administrator remains; a preview is applied once, by its previewer | `UserAdmin` |
| Authentication (`internal/auth`, `httpserver/authentication.go`) | none (signed tokens), `users.is_active` | login, refresh, principal of a request | rights are read once per request | the locked get no new request through | first step of a request in `PostReview` |
| Seeding (`cmd/seeddata`) | `users` | create an administrator | | | `UserAdmin` |
| Migrations, object storage, configuration, DTOs | `schema_migrations` | | | | not modelled, see below |

Requests and the worker meet in the database only, but for one call: saving a
post calls `QueueAttachments`, which inserts rows and puts a token into the
worker's channel. Services call the notification service after their commit, in
the request; it pushes before it goes on. The administrator's requests change
the rights that every later request reads, and connecting to Drive requeues
what the worker has given up.

How the modules share these interfaces: `DriveSync` composes requests that save
posts, the workers and the table between them, with what a call to Drive comes
to as a choice; `DriveConnection` says how that outcome comes about, with the
queue reduced to a status; `DriveFolders` says where the file goes. `PostReview`
and `PostLinks` look at the same transactions, one at the post's own row and its
review, the other at what hangs on it. `PostReview` and `Engagement` decide who is
notified, `PushDelivery` what becomes of it for any set of recipients.

## The modules

| Module | What it is |
|---|---|
| `DriveSync` | the Drive worker, its table and the requests that feed it |
| `UploadQueue`, `DriveSync_refinement` | what the Drive synchronisation promises, abstractly, and the refinement mapping to it |
| `DriveConnection` | the connection's row and the calls that use it |
| `DriveFolders` | root folder, folder cache, target of a post, folder of an upload |
| `Posting` | what the modules about posts have in common |
| `PostReview` | one post, its review and the notifications about it |
| `PostLinks` | attachments and hashtags of posts, with row locks |
| `Engagement` | comments, reactions, publications, platforms |
| `PushDelivery` | notifications on their way to recipients and devices |
| `Listings` | pages of the feed, of users and of members; the overview |
| `UserAdmin` | users, import previews, seeding |
| `MC...` | instances for TLC: rights, faults, jobs and workbooks to choose from, symmetry |
| `..._proofs` | theorems and their proofs; `Posts_proofs` has those of `PostReview` and of `Listings` |

A definition named "Mutated form of ..." stands before the definition it would
replace. No action uses it; it is a plausible mistake in the code that the
property it is paired with in `PROJECT.json` reveals.

**Requests.** In `PostReview`, `UserAdmin`, `PostLinks`, `Engagement` and
`DriveFolders` a request is a program counter over the statements of its
handler, with what it has read in variables of its own. Between any two
statements others run, and the request may fail, time out or die (`MayFail`);
what it has committed stays.

**Overtaken requests.** The code rarely keeps what it has checked: no lock and
no condition in the write ties it to the read. So most promises hold for a
request only if nobody changes its subject between its check and its write. The
modules record who was overtaken in a history variable (`stale`; `late` for
calls, traversals and targets; `raced`, `mixed`, `missed` for what overtaken requests left behind),
which no guard reads. A property named `Fresh...` is about the
requests outside of it, *in the midst of any others*; it is not a claim that only one
request runs. Properties without the exception hold whatever overlaps.

### DriveSync

One `pc` per server follows the worker goroutine: `select` is Start's select,
`claim` and `commit` are ClaimAttachmentDriveSyncBatch before its UPDATE and
before its COMMIT, `loop` is runBatch's for loop, `prepare`, `upload`, `mark`
and `fail` are the stations of processJob and failJob. Every SQL statement,
commit, Drive call and channel operation is a step. `batch` holds the rows that
a claim has locked and later the jobs not yet started; `Locked` are the rows of
open claims, which other claims skip (`SKIP LOCKED`) and which a DELETE or
requeue waits for. The claim joins `post_attachments` and its FOR UPDATE names no
table, so it also skips a video that an open UpdatePost has updated or deleted:
`locking` are these, taken one by one (`LockVideo`) and given up by the commit
(`SavePost`), by a rollback (`RollBack`) or a crash. Saves of one post wait for each
other (`SaveWaits`), since each begins with the row of the post.

`next_attempt_at` is kept as an order: `aheadOf[a]` are the due rows with an
earlier time than `a`, `cooling` the rows whose time has not come. That keeps all that
ORDER BY and `<= now()` can tell apart and leaves out the numbers. `attempts` is
`attempt_count` as far as it matters: past `Doublings` (28 for the default base of
a minute) `base * 2^(attempts - 1)` does not fit a `time.Duration`, and Go leaves open
what the conversion yields (`Conversions`). The greatest duration, as on arm64, is
capped by MaxDelay like any other. The least, as on amd64, is below MaxDelay and passes
the comparison: the row's time is 292 years ago, it is due at once and before all rows
that are not (`overdue`, `BecomeOverdue`). As nothing resets `attempt_count`, that
happens after every further failure, and `runBatch` goes on while batches are full:
`BatchSize` such rows starve the others, which TLC shows when `PassedBy` does not
name them.

Faults are a constant: `crash` (a process ends at any step; a commit or an
upload under way may still go through), `db` (a statement fails, or only the
acknowledgement of a commit is lost), `expire` (the 15 minutes of processJob, or
Close), `lostResponse` (Drive created the file, the worker got an error). A request
that is cancelled between its commit and QueueAttachments is a failed statement of it.
Requests save the post with any new and removed videos and then queue, row by
row, every video the post has; one request per server is in QueueAttachments at
a time. The flag `running` is left out: runBatch has a single caller.

`UploadQueue` has phases and owners only. A video is `running` while a worker
holds it and `stuck` when its row says uploading and nobody does. The code has
no way out of `stuck` but the deletion of the attachment, and the abstract module
says so: a recovery of such rows at a restart is the mutant that breaks the
refinement.

### DriveConnection

`row` is the token of the single row, named by the attempt to connect it came
from; `flow` follows such an attempt from the consent over the upsert to the
requeue. A call (a worker with a video, or a refresh of the folders) reads the
row, asks Google for an access token, notes the outcome in whichever row is
there by then, uses Drive, and marks its video: five steps between which the
connection may be replaced, removed or revoked. `retryDelay` is translated with
the conversion of a float64 that does not fit a `time.Duration` as a choice of
the two ends, which is what processors make of it. Nothing checks that the maximum is
at least the base (`config.go:97-98`), and nothing here assumes it. `MaxAttempts`
bounds claims.

### DriveFolders

`parent` is Drive itself; `MoveFolder` moves a folder while a traversal asks for
one folder's children after the other (`found` are the folders so far with their
paths, and of these the first `listed - 1` have been asked about, the rest is the
queue; there is no visited set). Drive has no cycles: `Forests`, what it may look
like at first, is assumed to be acyclic, and a folder is never moved below itself.
`Below` says so by sets that are closed under "what it is in" instead of by
recursion. A refresh replaces the cache in a transaction whose DELETE sees the rows
of its beginning, so two of them may both insert. A post chooses its target by
EnsurePostUploadTarget and its lookup, or writes back what it has read. `fell` is an upload
that could not read the setting and takes the environment's folder.

### PostReview

One post; a request is a program: authenticate (the rights are copied into the
request), read and check, begin (this fixes `now()`), write (after waiting for
the row), list reviewers, notify one by one. `clock` counts transactions'
begins, so `updatedAt` and `reviewedAt` are ordered as `now()` orders them and
not as the writes are. The text of the post is the request that wrote it;
`editRest` is an edit that gives no text and therefore writes back the one it
has read. `editedSince` is a history variable: the post was written by an edit
since its last review.

### PostLinks

`name`, `links`, `files` and `life` are the committed tables; what a transaction
has written and holds is in `rowWrite`, `cut`, `add` and `newFiles`, and
`WaitsFor` says whom its next statement waits for: the holder of a row, of a
link, or of a name in the unique index. `Victim` is the database's deadlock
detector, which fails one request of a cycle. `Reused` is
`popReusableAttachment`: the n-th file of a key takes the n-th row of that key.

### Engagement

One request per operation of the four services. `answer` is what the caller is
told, `wrote` whether its statement went through, `log` the reactions in the
order of their upserts. `Reacted` is what the entries of a log add up to, and what
the counting upsert is compared with.
`MaxCount` stands for the width of the column `count`: an upsert past it fails,
and a sum past it makes the summary of the answer fail. Foreign keys (a comment
needs its post, a publication its platform) are part of the statements;
reactions have none, as in the migration.

What a failure comes to depends on the statement: most errors are the answer
(`Fail`); `targetExists` takes any error for a missing target, before the upsert of a
reaction and again for the summaries of its answer, and the answer is "not found"
(`TargetUnseen`, noted in the history variable `unseen`); notifying only logs its errors,
and the request goes on (`TellingFails`); a request that dies with its process answers
nothing (`Die`). A statement that fails is taken not to have happened.

### PushDelivery

`fan` is a request that stores a notification for one recipient, lists that
recipient's endpoints, sends to each, prunes those that answer 404 or 410, and
takes the next. `TimeUp` is the end of its context; when the reviewers cannot be
listed the request is over before it has told any of them (`StartFails`). `cut` says
which of the two ended it early, if one did. `dead` are endpoints that
their push service has forgotten. A text is the widths of its characters, since
`truncate` cuts bytes and the database refuses half a character.

### Listings

A reader that goes through the pages of the feed, the users or the members'
activity until the total is reached, with a step per statement, while a writer
creates, deletes, reviews, tags and publishes posts. `Orders` are all orders that
the ORDER BY allows, so that equal keys are a choice made anew for every page.
`Overview` is the statistics, `Fits` the WHERE of the feed. Its specification is
called `PagesSpec`, so that one proof module can extend `PostReview` too.

### UserAdmin

Requests again; `plan` and `sessions` are the previews, `tally` what a commit
has counted. A workbook maps emails to cells that are blank, true or false;
`Prepared` fills the blanks from the table at preview time, as the code does,
and the commit writes these values whatever has happened since. `applied` counts
how often a preview took effect. `SeedAdmin` is `cmd/seeddata`.

## The runs

| Run | Instance | Shows |
|---|---|---|
| `DriveSync_faults` | 1 video, 2 servers, all faults, 1 lost answer | copies need lost answers; refinement of `UploadQueue` |
| `DriveSync_overlaps` | 2 videos of one post, 2 servers, batches of 2, lost answers | exclusive jobs, stable rows, recorded files, no forgotten video |
| `DriveSync_live` | 2 videos, 1 server, batches of 1, no faults, overflow from the 2nd attempt on | what can starve a video: its own open saves, overflown rows; no other lost wake-up than a rolled-back save's |
| `DriveConnection_calls` | 2 attempts to connect, 1 video, 2 calls, 3 claims, 4-bit durations | errors and blocked videos belong to the connection, but for overtaken calls and failed requeues; every delay explained by base, maximum and overflow |
| `DriveFolders_moves` | 3 folders in 3 shapes, 2 roots, any two of 10 jobs, 1 move | the cache is a tree, traversals end and are complete, targets were offered, uploads follow settings |
| `PostReview_races` | 2 users whose rights change, 3 concurrent requests, failures | signed reviews, explained notifications, and the checks of requests that none overtakes |
| `PostLinks_mixes` | 3 posts, 3 names, 7 ids, any three of 13 jobs, failures | links and files of the last write, who can deadlock whom, every request ends |
| `Engagement_mixes` | 1 post, 3 users, 2 platforms, any three of 26 jobs, failures, counts to 3 | counts add up, due notifications, refusals after a write explained, writes that hit what is there |
| `PushDelivery_fanouts` | 3 users, 2 endpoints, 1 request, 2 texts | live subscriptions stay, owners only, lost notifications explained |
| `Listings_pages` | 4 posts, 4 users, limits that clamp to 1 and 2, 2 writes | what pages skip and repeat, and why; the statistics agree |
| `UserAdmin_races` | 2 users, 4 workbooks, 3 concurrent requests, failures, restarts | imports that create happen once, who can take the last administrator away |
| `UserAdmin_last_admins` | 2 users, 2 workbooks, 2 concurrent requests | the disagreement below (a violation) |

**Bounds.** Two servers are enough for every conflict over a row, since each rule
of the code is about one worker and "some other". Two videos with batches of one
are the smallest case of starvation, behind one overflown row, which takes two attempts
when one doubling fits; with batches of two, the smallest in which a
worker holds one job while another waits. One lost answer per video makes the
second copy; more repeat it. In `DriveConnection` an overtaken call needs a
connection before and one after, a second call the row that the first has
marked; three claims take the delay over its maximum and over the width. In
`DriveFolders` a chain, a fork and a folder beside the root are what three folders can
be, one move makes a folder listed twice or missed, and two refreshes
mix. In `PostReview` an inversion needs an edit, a review and one request that
has read before both. Users are an author and one other, since the code only
asks "is it the author" and "may it review". In `PostLinks` two posts with two
tags in opposite orders and a rename are three requests, and so are three posts
with three tags whose orders go round in a circle; the seven ids are never used up
by them before their end. In `Engagement` three requests are an
operation, one that removes its subject and one more that sees the rest; a count of three overflows by two
reactions. In `PushDelivery` two endpoints are one to send to and one that
changes hands meanwhile, three users a recipient before, in and after the
failure. In `Listings` a page of one or two of at most four items has
a page before and one after the write, and two writes are an arrival and a
departure. In `UserAdmin` two users are the two last administrators; a preview,
a change in between and a commit are three requests. The theorems do away with
these bounds for the properties they are about.

**Deadlock** is checked in the Drive worker's and the connection's runs, in `PostReview_races`,
`PushDelivery_fanouts` and `UserAdmin_races`, where something can always happen. In the other
runs the jobs of the bound are done in the end, and the configurations say so;
there `EveryRequestEnds` and `TraversalsEnd` say that nobody stops before. Row-lock
deadlocks exist in the code and are in `PostLinks`.

**Fairness.** Every fairness assumption is weak. For a worker, and for a request
that has begun: a goroutine that can run does, and its statements return, with a
result or an error; no fairness says that anything succeeds. Retry delays elapse
(`ClockFairness`). The ticker's fairness is a premise of the two properties that
need it (`TickerFires`): rows that become due after a delay or by a requeue wait
for the ticker, because Requeue signals nobody. It is weak because a worker in
Start's select whose ticker has fired wakes up, by it or by the trigger. In
`PostLinks` the database's deadlock detector is weakly fair, which is
PostgreSQL's `deadlock_timeout`; a request that has not begun need never begin.
In `DriveFolders` only a traversal goes on. Nothing assumes that users, administrators,
crashes, moves or failures come.

**Symmetry** is used in safety runs only, where requests, servers and videos are
interchangeable. `PostLinks`, `Engagement` and `DriveFolders` get the same from
their `Mixes`, which name the jobs in one order.

## What the runs say of the code

One property is violated: the code says that it "must keep at least one active
admin" (`service/users.go:366`), and two requests that each count two
administrators each remove one (`KeepsAnAdmin`, run `UserAdmin_last_admins`).
`OnlyStaleLeavesNoAdmin` shows that this overlap is the only way.

The other overlaps have no line in the repository that promises otherwise, so
they are stated as the exceptions of properties that hold, and not as
disagreements. A resubmission that was overtaken erases a newer approval; an edit
overtaken by the rejection is not recognised; an edit without a text
undoes another; a worker that found no connection blocks its video
after the administrator has connected; two refreshes mix the cache; an overtaken deletion removes a
renamed hashtag; a reaction is stored and answered "not found", by an overlap or by a
failed query alone; a device that
changes hands gets a notification of its former owner's; a page after an arrival
repeats an item and one after a departure skips one; `BatchSize` videos that have failed
some thirty times keep an amd64 server from ever trying another one; a save that is
rolled back hides its videos from a claim that nobody repeats before the ticker.

Observations without a run of their own: the administrator that `cmd/seeddata`
creates is not active (`SeedAdmin`); a notification's text cut inside a character
is lost every time (`LostNotesAreExplained` counts it among its causes); a post that
is committed while `QueueAttachments` or the reading of its answer fails gives its
caller an error, and nobody is notified (`Fail` in `PostReview`).

## What is proved

For all values of the constants that satisfy the modules' named assumptions:
null values outside of their sets, rows that exist at first well formed, no two
requests that create the same thing, finite sets where cardinalities are taken,
an order of names in which no two are equal, no cycles in Drive at first. One assumption is a fact that the prover's arithmetic lacks: `2^n > 0` for the
exponents used in `DriveConnection`.

* **DriveSync** - `IInv` is inductive, and with it `TypeOK`, `ExclusiveJobs`,
  `HeldRowIsStable`, `RecordedFileIsLast` and `CopiesNeedLostResponses` hold for
  any number of servers and videos, any batch size and all faults. The four do
  not carry themselves: exclusiveness needs that a held row is out of reach of a
  claim (`HeldRowByPc`, which tells an open claim from a committed one, and
  `LocksAreExclusive`, by which no save deletes what an open claim has), this
  needs to know where a worker may hold anything at all (`JobsWherePcSays`), and
  counting copies needs what is true before an upload: a row that may be claimed
  has no files but those reported as failures (`CopiesBeforeUpload`), and a
  worker at `mark` has the last file (`ResultIsLast`).
  On top of it `DriveSync` implements `UploadQueue` (`QueueIsImplemented`): one
  lemma per action says which abstract step it is, or that it is none
  (`StepsRefine`). From the mapped steps alone it follows that a row which is cut off
  from its worker stays so until its video is deleted (`CutOffRowsStay`).
  `NoForgottenVideo` is proved for faults without crashes and database failures,
  which is also where it is stated: a second invariant (`Awaited`) follows a video
  from the save of its post to its row through the queues of all requests of that post.
* **DriveConnection** - what a call knows of the connection (`CallsKnow`), that
  the token of an attempt that is not through is not yet good (`TokensAreNew`: a refusal
  stays true), and that a video has one worker (`VideosAreHeld`). From
  these follow `ErrorIsOfTheConnection`, `BlockedForThisConnection`,
  `FreshCallsUseTheConnection`. `DelaysAreExplained` (theorem `EveryDelayIsExplained`)
  holds for any base, maximum and width, the overflow included.
* **DriveFolders** - where each kind of request can be (`IsSound`), what it is about
  to write or to send as long as nobody overtakes it (`PostIsChosen`,
  `UploadIsChosen`), and for a traversal that every found folder lies below a listed
  one and is found under one path once (`IsFoundOnce`), truly so while nothing moves
  (`IsTrue`). That a finished traversal has the whole tree takes the least depth
  at which a folder would be missing. `IsApart` says what two refreshes in their
  transactions have to do with each other: neither touches a folder that the
  other holds, and one that is alone leaves no row. Hence all six safety properties of
  the run, for any number of folders, any depth and any number of moves.
* **PostReview** - `RequestsAreEntitled` carries the outcome of a check from the
  read to the write and on to the notifications, although rights and post change
  in between; `CreatedOnce` makes the creating request find no post. Hence
  `ReviewIsSigned`, `NewerMeansEdited`, `NotesAreExplained`, `DeletedPostIsFrozen`,
  and, for requests outside `stale`, the three `Fresh...` properties
  (`FreshRequestsKeepTheirChecks`).
* **PostLinks** - what a transaction has written agrees with what it holds
  (`PostWritesIts`, `TagWritesIts`), and what it holds is its own
  (`LocksAreExclusive`), so a commit replaces exactly the links of its post and a
  deletion takes the last link with its row. A fresh id is known to nobody
  else (`Unseen`, `RowsAreKnown`). Hence `LinksFollowLastWrite` and
  `FreshDeletionIsOfItsName`, for any number of concurrent transactions.
  `DeadlocksNeedCircularOrders` needs more (`OrderInv`): no name is claimed by two
  rows, not even uncommitted ones; what a request holds comes before what it has
  still to take; of two deletions of a hashtag one has all its links. Of
  requests that are stuck some wait for a name, since deletions alone go on; whoever
  holds that name waits for another one, which comes later in its own order; so the names
  that are waited for are a circle.
  For `KeptFilesKeepTheirRow` (`FilesInv`) the rows of a post are numbered without
  a repetition, so that their ranks in a key have no gaps; what a transaction is about
  to write keeps all old rows of a key or adds none.
* **Engagement** - the order of a request's steps, what a request that nobody
  overtakes has checked (`CheckHolds`) and whom it may delete or tell
  (`RightHolds`, which uses that ids are never given twice), whichever statements
  fail. Hence `NotesAreDue`, `AnswersAreTrue`, `FreshWritesHitWhatIsThere`, `OnlyEntitledDelete`.
  `ReactionsAddUp` is proved from one upsert to the next: an entry with the emoji of
  the last one makes the run that is summed longer by one, any other begins a new
  one, and a sum over a finite set grows by the element that is added.
* **PushDelivery** - an endpoint that is to be pruned was forgotten by its push
  service or registered anew since (`touched`), and recipients have their turn one after the other
  (`TurnsAreKept`), or none has one because they could not be listed. Hence `LiveSubscriptionsStay`, `FreshPushesReachTheOwner` and
  `LostNotesAreExplained`.
* **Listings** - an item's place in a list is the number of items ahead of it, so
  offsets are cardinalities. What was shown stands in front of the next offset
  unless something came (`ShownStandsInFront`); what was there at first and was not
  shown stands behind it unless something left (`MissingIsToCome`); a post of the
  page that nobody wrote to looks as it is (`FreshItemsAreTrue`). Hence
  `NothingSkipped`, `NothingTwice`, `FreshItemsFitTheRequest`, and `StatisticsAgree`
  by counting disjoint sets, for any number of posts and users, any page size and any
  number of writes.
* **UserAdmin** - a commit past its check works on a complete preview of its own
  user, and what an applied preview was to create exists, so that applying it
  again conflicts: `CreationsHappenOnce`, `OwnPreviewsOnly`. What a request has
  counted is still the count when it writes, unless it was overtaken
  (`FreshCountsHold`): `OnlyStaleLeavesNoAdmin`, with arithmetic on the
  cardinalities of the administrators a workbook adds and removes.

`TypeOK` is part of every inductive invariant. It is proved as such; only the runs of
`DriveFolders` and `Listings` check it too. Proved only, besides
the invariants themselves, are `NewerMeansEdited`, `DeletedPostIsFrozen`,
`OwnPreviewsOnly`, `OnlyEntitledDelete`, `FreshCallsUseTheConnection`,
`NamesAreUnique` and `CutOffRowsStay`: steps
on the way to what the runs check, close to a single condition in the code, or
consequences of the refinement.

The provers do no induction over data. Where an argument is one (a tree by its
depth, a circle of waiting requests, the ranks of files), the proofs take a
least counterexample, which the library's theorems about natural numbers give, or a
closed set instead.

Only model-checked is liveness under fairness, which is beyond the prover:
`DueRowIsClaimed`, `SignalWakesWorker`, `EveryRequestEnds`, `TraversalsEnd`. Every
safety property of the passing runs is stated by a theorem.

## Not modelled

* **Migrations** (`database/migrate.go`): run by hand before a release; each file
  and its record are one transaction, and of two migrators that find the same file
  not applied one fails as a whole on the primary key. Nothing is left to interleave.
* **Object storage** (`storage/minio.go`): signs URLs and reads an external store.
* **Configuration, logging, connection pool, VAPID keys**: no behaviour over time.
* **DTOs** (`handlers/dto.go`) and the wire formats: shapes of requests and answers.
  The handlers' order of calls is in the modules, their JSON is not.
* **Tokens** (`internal/auth`): signing, expiry and refresh are functions of the
  token, the key and the clock; the server keeps no session. That rights are read
  once per request is in `PostReview`.
* **Profiles, avatars, passwords**: single statements on one row that nothing else
  looks at.
* **The search in texts** and the search for hashtags: further predicates of the
  same WHERE; `Listings` has the others.
* **Wording, labels, icons, file names**, but for the bytes of a notification.
* **Widths of columns** other than the reaction's count and `time.Duration`. Keys
  of platforms may have 64 characters and those of publications 32: publishing
  on a longer one always fails, in any order of events.

## What is left to do

1. Comments and reactions in the pages of `Listings`.
2. An abstract specification of the review of a post (states and who may move it)
   and of the delivery of a notification, with refinements that are proved as that of
   `UploadQueue` is.
3. The safety part of `EveryRequestEnds`: that a request which waits for nobody
   has a step to take. `ENABLED` is beyond the prover, but each action's guard
   can be stated by itself.
