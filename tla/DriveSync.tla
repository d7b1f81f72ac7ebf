------------------------------ MODULE DriveSync ------------------------------
(***************************************************************************)
(* The synchronisation of video attachments to Google Drive:               *)
(* internal/service/drive_sync.go over the table attachment_drive_uploads  *)
(* (internal/repository/attachment_drive_uploads.go).                      *)
(*                                                                         *)
(* Every server process runs one worker goroutine.  The worker sleeps in   *)
(* Start's select, wakes up by its ticker or by a token in triggerCh,      *)
(* claims a batch of rows in one transaction and processes the claimed     *)
(* jobs one by one outside of any transaction.  Request handlers of any    *)
(* server save posts and queue their videos; an administrator connects,    *)
(* disconnects and requeues.  The atomicity is the code's: one SQL         *)
(* statement or transaction, one call to Drive, one channel operation.     *)
(*                                                                         *)
(* Abstractions.  next_attempt_at is kept as the order in which rows       *)
(* became due (aheadOf) and the set of rows not yet due (cooling).  Of     *)
(* attempt_count it matters whether the doubled delay still fits a         *)
(* time.Duration: attempts counts that far and stops there.  Folders and   *)
(* file names are left out; a Drive file is its ordinal among the files    *)
(* created for the attachment.  The flag "running" never matters: runBatch *)
(* has one caller, the goroutine of Start.                                 *)
(***************************************************************************)
EXTENDS Naturals, FiniteSets

CONSTANTS
  Attachments,  \* ids of video attachments (other kinds are never queued)
  Posts,        \* ids of posts
  PostOf,       \* the post each attachment belongs to
  Servers,      \* server processes that share the database
  NoJob,        \* "no attachment"
  BatchSize,    \* GOOGLE_DRIVE_SYNC_BATCH_SIZE
  Doublings,    \* attempts whose delay fits an int64: 28 for a base of one minute
  Conversions,  \* what a float beyond the int64s is converted to: the "least" of
                \* them (amd64), the "greatest" (arm64); Go leaves it open
  MaxLost,      \* bound: how many answers of Drive get lost per attachment
  Faults        \* which faults happen: a subset of FaultKinds

FaultKinds == {"crash", "db", "expire", "lostResponse"}

ASSUME DriveSyncAssumption ==
  /\ PostOf \in [Attachments -> Posts]
  /\ NoJob \notin Attachments
  /\ BatchSize \in Nat \ {0}
  /\ Doublings \in Nat
  /\ Conversions \subseteq {"least", "greatest"} /\ Conversions # {}
  /\ MaxLost \in Nat
  /\ Faults \subseteq FaultKinds

VARIABLES
  life,      \* post_attachments: "fresh" (not inserted yet), "live", "deleted"
  status,    \* attachment_drive_uploads.status, "none" when there is no row
  fileId,    \* attachment_drive_uploads.drive_file_id, 0 for NULL
  attempts,  \* attachment_drive_uploads.attempt_count, up to Doublings + 1
  cooling,   \* rows whose next_attempt_at is in the future
  overdue,   \* failed rows whose next_attempt_at is some 292 years ago
  aheadOf,   \* for a due row, the due rows with an earlier next_attempt_at
  connected, \* a row of google_drive_oauth_connections exists
  trigger,   \* triggerCh of a server holds its token
  pc,        \* where the worker of a server is
  batch,     \* jobs that runBatch has not started; in a claim, the rows it locks
  full,      \* the last claim returned BatchSize jobs
  job,       \* the job in processJob
  ctxAlive,  \* processJob's context has not expired
  verdict,   \* what failJob decides for the error at hand
  result,    \* the file returned by UploadVideo
  locking,   \* post_attachments rows locked by the open UpdatePost of a server
  todo,      \* videos a QueueAttachments call still has to insert
  queueing,  \* a request of the server is inside QueueAttachments
  files,     \* files Drive holds for an attachment
  lost       \* files whose creation was reported to the worker as an error

rowVars    == <<status, fileId, attempts, cooling, overdue, aheadOf>>
workerVars == <<pc, batch, full, job, ctxAlive, verdict, result>>
queueVars  == <<locking, todo, queueing>>
driveVars  == <<files, lost>>
vars == <<life, rowVars, workerVars, queueVars, driveVars, connected, trigger>>

Statuses   == {"none", "pending", "uploading", "uploaded", "failed", "blocked"}
WorkerPCs  == {"down", "select", "claim", "commit", "loop", "prepare", "upload", "mark", "fail"}
InProcessJob == {"prepare", "upload", "mark", "fail"}

TypeOK ==
  /\ life \in [Attachments -> {"fresh", "live", "deleted"}]
  /\ status \in [Attachments -> Statuses]
  /\ fileId \in [Attachments -> Nat]
  /\ attempts \in [Attachments -> 0..(Doublings + 1)]
  /\ cooling \subseteq Attachments
  /\ overdue \subseteq Attachments
  /\ aheadOf \in [Attachments -> SUBSET Attachments]
  /\ connected \in BOOLEAN
  /\ trigger \in [Servers -> BOOLEAN]
  /\ pc \in [Servers -> WorkerPCs]
  /\ batch \in [Servers -> SUBSET Attachments]
  /\ full \in [Servers -> BOOLEAN]
  /\ job \in [Servers -> Attachments \cup {NoJob}]
  /\ ctxAlive \in [Servers -> BOOLEAN]
  /\ verdict \in [Servers -> {"none", "retry", "block"}]
  /\ result \in [Servers -> Nat]
  /\ locking \in [Servers -> SUBSET Attachments]
  /\ todo \in [Servers -> SUBSET Attachments]
  /\ queueing \in [Servers -> BOOLEAN]
  /\ files \in [Attachments -> Nat]
  /\ lost \in [Attachments -> Nat]

Init ==
  /\ life = [a \in Attachments |-> "fresh"]
  /\ status = [a \in Attachments |-> "none"]
  /\ fileId = [a \in Attachments |-> 0]
  /\ attempts = [a \in Attachments |-> 0]
  /\ cooling = {}
  /\ overdue = {}
  /\ aheadOf = [a \in Attachments |-> {}]
  /\ connected \in BOOLEAN
  /\ trigger = [s \in Servers |-> TRUE]
  /\ pc = [s \in Servers |-> "select"]
  /\ batch = [s \in Servers |-> {}]
  /\ full = [s \in Servers |-> FALSE]
  /\ job = [s \in Servers |-> NoJob]
  /\ ctxAlive = [s \in Servers |-> TRUE]
  /\ verdict = [s \in Servers |-> "none"]
  /\ result = [s \in Servers |-> 0]
  /\ locking = [s \in Servers |-> {}]
  /\ todo = [s \in Servers |-> {}]
  /\ queueing = [s \in Servers |-> FALSE]
  /\ files = [a \in Attachments |-> 0]
  /\ lost = [a \in Attachments |-> 0]

-----------------------------------------------------------------------------
(* The table: which rows a claim may pick, and in which order.             *)

\* Mutated form of Claimable: a claim also takes back rows left "uploading".
ClaimableTakesBack == {"pending", "failed", "uploading"}

Claimable == {"pending", "failed"}

Ready == {a \in Attachments : status[a] \in Claimable} \ cooling

\* Mutated form of Locked: the claim locks no rows (no FOR UPDATE).
LockedNone == {}

\* Rows locked by the claims whose transaction is open, here and in post_attachments.
Locked == UNION {batch[t] : t \in {u \in Servers : pc[u] = "commit"}}

\* Rows whose post_attachments row an UpdatePost has updated or deleted and not
\* committed yet.
SaveLocked == UNION {locking[t] : t \in Servers}

\* FOR UPDATE names no table, so a lock on either of the joined rows makes SKIP
\* LOCKED pass the pair by.
Skipped == Locked \cup SaveLocked

\* next_attempt_at becomes now: the rows of S queue up behind all due rows.
BecomeDue(S) ==
  /\ overdue' = overdue \ S
  /\ aheadOf' = [a \in Attachments |-> IF a \in S THEN Ready \ S ELSE aheadOf[a] \ S]

\* retryDelay is the least int64, which its comparison with MaxDelay lets through:
\* a is due at once, behind those only that are overdue already.  As nothing
\* resets attempt_count, this may happen again after every further failure.
BecomeOverdue(a) ==
  /\ overdue' = overdue \cup {a}
  /\ aheadOf' = [b \in Attachments |->
                   IF b = a THEN overdue
                   ELSE IF b \in Ready \ overdue THEN aheadOf[b] \cup {a} ELSE aheadOf[b]]

\* The rows of S are no longer due.
LeaveQueue(S) ==
  /\ overdue' = overdue \ S
  /\ aheadOf' = [a \in Attachments |-> IF a \in S THEN {} ELSE aheadOf[a] \ S]

\* The retry delay of a failed row has elapsed.
Elapse(a) ==
  /\ a \in cooling
  /\ cooling' = cooling \ {a}
  /\ BecomeDue({a})
  /\ UNCHANGED <<life, status, fileId, attempts, workerVars, queueVars,
                 driveVars, connected, trigger>>

-----------------------------------------------------------------------------
(* Requests: saving a post, then QueueAttachments.                         *)

Videos(p, state) == {a \in Attachments : PostOf[a] = p /\ life[a] = state}

\* Another save of p is open.  Every save first updates the row of the post, so
\* that the next one waits for its end.
SaveWaits(s, p) == \E t \in Servers \ {s} : locking[t] \cap Videos(p, "live") # {}

\* UpdatePost with attachments: one video of the post after the other is updated,
\* or deleted, which waits for a claim that has locked it.
LockVideo(s, a) ==
  /\ pc[s] # "down"
  /\ ~queueing[s]
  /\ life[a] = "live" /\ a \notin Locked \cup locking[s]
  /\ locking[s] \subseteq Videos(PostOf[a], "live")
  /\ ~SaveWaits(s, PostOf[a])
  /\ locking' = [locking EXCEPT ![s] = @ \cup {a}]
  /\ UNCHANGED <<life, rowVars, workerVars, todo, queueing, driveVars, connected, trigger>>

\* The request fails or is cancelled before its COMMIT.
RollBack(s) ==
  /\ locking[s] # {}
  /\ locking' = [locking EXCEPT ![s] = {}]
  /\ UNCHANGED <<life, rowVars, workerVars, todo, queueing, driveVars, connected, trigger>>

\* The COMMIT of CreatePost or UpdatePost: it has inserted the videos New and
\* deleted the videos Gone, whose rows go with them (ON DELETE CASCADE).  A save
\* that is given no attachments touches none, any other all the post has.
ReplaceVideos(s, p, New, Gone) ==
  /\ New \subseteq Videos(p, "fresh")
  /\ Gone \subseteq locking[s]
  /\ \/ locking[s] = Videos(p, "live")
     \/ locking[s] = {} /\ New = {}
  /\ ~SaveWaits(s, p)
  /\ locking' = [locking EXCEPT ![s] = {}]
  /\ life' = [a \in Attachments |-> IF a \in New THEN "live"
                                    ELSE IF a \in Gone THEN "deleted" ELSE life[a]]
  /\ status' = [a \in Attachments |-> IF a \in Gone THEN "none" ELSE status[a]]
  /\ fileId' = [a \in Attachments |-> IF a \in Gone THEN 0 ELSE fileId[a]]
  /\ attempts' = [a \in Attachments |-> IF a \in Gone THEN 0 ELSE attempts[a]]
  /\ cooling' = cooling \ Gone
  /\ LeaveQueue(Gone)

\* Mutated form of SavePost: only the videos that are new get queued.
SavePostQueuesNew(s, p, New, Gone) ==
  /\ pc[s] # "down"
  /\ ~queueing[s]
  /\ New \cup Gone # {}
  /\ ReplaceVideos(s, p, New, Gone)
  /\ todo' = [todo EXCEPT ![s] = New]
  /\ queueing' = [queueing EXCEPT ![s] = New # {}]
  /\ UNCHANGED <<workerVars, driveVars, connected, trigger>>

\* A request has created or edited post p.  After the COMMIT the service calls
\* QueueAttachments with every video the post now has.
SavePost(s, p, New, Gone) ==
  /\ pc[s] # "down"
  /\ ~queueing[s]
  /\ ReplaceVideos(s, p, New, Gone)
  /\ LET after == (Videos(p, "live") \ Gone) \cup New IN
       /\ after \cup Gone # {}
       /\ todo' = [todo EXCEPT ![s] = after]
       /\ queueing' = [queueing EXCEPT ![s] = after # {}]
  /\ UNCHANGED <<workerVars, driveVars, connected, trigger>>

\* One INSERT ... ON CONFLICT (attachment_id) DO NOTHING.
InsertRow(s, a) ==
  /\ a \in todo[s]
  /\ life[a] = "live"
  /\ todo' = [todo EXCEPT ![s] = @ \ {a}]
  /\ IF status[a] = "none"
       THEN /\ status' = [status EXCEPT ![a] = "pending"]
            /\ BecomeDue({a})
       ELSE UNCHANGED <<status, overdue, aheadOf>>
  /\ UNCHANGED <<life, fileId, attempts, cooling, workerVars, locking, queueing,
                 driveVars, connected, trigger>>

\* An INSERT fails, because the attachment is gone (foreign key) or the
\* database is: QueueAttachments returns at once and does not signal.
InsertRowFails(s, a) ==
  /\ a \in todo[s]
  /\ life[a] = "deleted" \/ "db" \in Faults
  /\ todo' = [todo EXCEPT ![s] = {}]
  /\ queueing' = [queueing EXCEPT ![s] = FALSE]
  /\ UNCHANGED <<life, rowVars, workerVars, locking, driveVars, connected, trigger>>

\* Mutated form of Signal: a busy worker is not signalled.
SignalIfIdle(s) ==
  /\ queueing[s]
  /\ todo[s] = {}
  /\ queueing' = [queueing EXCEPT ![s] = FALSE]
  /\ trigger' = [trigger EXCEPT ![s] = pc[s] = "select"]
  /\ UNCHANGED <<life, rowVars, workerVars, locking, todo, driveVars, connected>>

\* All inserts done: Signal puts a token in triggerCh unless it is full.
Signal(s) ==
  /\ queueing[s]
  /\ todo[s] = {}
  /\ queueing' = [queueing EXCEPT ![s] = FALSE]
  /\ trigger' = [trigger EXCEPT ![s] = TRUE]
  /\ UNCHANGED <<life, rowVars, workerVars, locking, todo, driveVars, connected>>

-----------------------------------------------------------------------------
(* The worker: Start, runBatch and the claim.                              *)

WakeByTicker(s) ==
  /\ pc[s] = "select"
  /\ pc' = [pc EXCEPT ![s] = "claim"]
  /\ UNCHANGED <<life, rowVars, batch, full, job, ctxAlive, verdict, result,
                 queueVars, driveVars, connected, trigger>>

WakeByTrigger(s) ==
  /\ pc[s] = "select"
  /\ trigger[s]
  /\ trigger' = [trigger EXCEPT ![s] = FALSE]
  /\ pc' = [pc EXCEPT ![s] = "claim"]
  /\ UNCHANGED <<life, rowVars, batch, full, job, ctxAlive, verdict, result,
                 queueVars, driveVars, connected>>

\* Mutated form of Earliest: ORDER BY next_attempt_at DESC.
EarliestLast(S) ==
  /\ S \subseteq Ready \ Skipped
  /\ Cardinality(S) <= BatchSize
  /\ Cardinality(S) = BatchSize \/ S = Ready \ Skipped
  /\ \A a \in S : {b \in Ready : a \in aheadOf[b]} \subseteq S \cup Skipped

\* ORDER BY next_attempt_at LIMIT BatchSize FOR UPDATE SKIP LOCKED.
Earliest(S) ==
  /\ S \subseteq Ready \ Skipped
  /\ Cardinality(S) <= BatchSize
  /\ Cardinality(S) = BatchSize \/ S = Ready \ Skipped
  /\ \A a \in S : aheadOf[a] \subseteq S \cup Skipped

\* ClaimAttachmentDriveSyncBatch up to its COMMIT.
ClaimRows(s) ==
  /\ pc[s] = "claim"
  /\ \E S \in SUBSET (Ready \ Skipped) :
       /\ Earliest(S)
       /\ batch' = [batch EXCEPT ![s] = S]
       /\ full' = [full EXCEPT ![s] = Cardinality(S) = BatchSize]
  /\ pc' = [pc EXCEPT ![s] = "commit"]
  /\ UNCHANGED <<life, rowVars, job, ctxAlive, verdict, result,
                 queueVars, driveVars, connected, trigger>>

MarkUploading(S) ==
  /\ status' = [a \in Attachments |-> IF a \in S THEN "uploading" ELSE status[a]]
  /\ attempts' = [a \in Attachments |-> IF a \in S /\ attempts[a] <= Doublings
                                        THEN attempts[a] + 1 ELSE attempts[a]]
  /\ LeaveQueue(S)

\* The COMMIT, and runBatch's "if len(jobs) == 0 return".
CommitClaim(s) ==
  /\ pc[s] = "commit"
  /\ MarkUploading(batch[s])
  /\ pc' = [pc EXCEPT ![s] = IF batch[s] = {} THEN "select" ELSE "loop"]
  /\ UNCHANGED <<life, fileId, cooling, batch, full, job, ctxAlive, verdict,
                 result, queueVars, driveVars, connected, trigger>>

\* The claim returns an error: nothing was committed, or the commit went
\* through and only its acknowledgement was lost.  runBatch gives up.
ClaimFails(s) ==
  /\ "db" \in Faults
  /\ \/ pc[s] \in {"claim", "commit"} /\ UNCHANGED <<status, attempts, overdue, aheadOf>>
     \/ pc[s] = "commit" /\ MarkUploading(batch[s])
  /\ batch' = [batch EXCEPT ![s] = {}]
  /\ full' = [full EXCEPT ![s] = FALSE]
  /\ pc' = [pc EXCEPT ![s] = "select"]
  /\ UNCHANGED <<life, fileId, cooling, job, ctxAlive, verdict,
                 result, queueVars, driveVars, connected, trigger>>

\* The for loop over the claimed jobs: RETURNING gives them in any order.
NextJob(s) ==
  /\ pc[s] = "loop"
  /\ \E a \in batch[s] :
       /\ job' = [job EXCEPT ![s] = a]
       /\ batch' = [batch EXCEPT ![s] = @ \ {a}]
  /\ pc' = [pc EXCEPT ![s] = "prepare"]
  /\ ctxAlive' = [ctxAlive EXCEPT ![s] = TRUE]
  /\ UNCHANGED <<life, rowVars, full, verdict, result,
                 queueVars, driveVars, connected, trigger>>

\* "if len(jobs) < s.BatchSize return", else claim again.
BatchDone(s) ==
  /\ pc[s] = "loop"
  /\ batch[s] = {}
  /\ pc' = [pc EXCEPT ![s] = IF full[s] THEN "claim" ELSE "select"]
  /\ full' = [full EXCEPT ![s] = FALSE]
  /\ UNCHANGED <<life, rowVars, batch, job, ctxAlive, verdict, result,
                 queueVars, driveVars, connected, trigger>>

-----------------------------------------------------------------------------
(* The worker: processJob and failJob.                                     *)

\* processJob hands an error to failJob.
Fails(s, why) ==
  /\ verdict' = [verdict EXCEPT ![s] = why]
  /\ pc' = [pc EXCEPT ![s] = "fail"]

\* The object is open, the folder resolved, the connection read and its
\* token refreshed.
Prepare(s) ==
  /\ pc[s] = "prepare"
  /\ ctxAlive[s]
  /\ connected
  /\ pc' = [pc EXCEPT ![s] = "upload"]
  /\ UNCHANGED <<life, rowVars, batch, full, job, ctxAlive, verdict, result,
                 queueVars, driveVars, connected, trigger>>

\* One of these steps fails.  Without a connection, or with a refused token
\* (invalid_grant), the failure is permanent.
PrepareFails(s) ==
  /\ pc[s] = "prepare"
  /\ \/ Fails(s, "retry")
     \/ ctxAlive[s] /\ Fails(s, "block")
  /\ UNCHANGED <<life, rowVars, batch, full, job, ctxAlive, result,
                 queueVars, driveVars, connected, trigger>>

\* Drive creates the file and the worker gets the answer.
Upload(s) ==
  /\ pc[s] = "upload"
  /\ ctxAlive[s]
  /\ files' = [files EXCEPT ![job[s]] = @ + 1]
  /\ result' = [result EXCEPT ![s] = files[job[s]] + 1]
  /\ pc' = [pc EXCEPT ![s] = "mark"]
  /\ UNCHANGED <<life, rowVars, batch, full, job, ctxAlive, verdict,
                 queueVars, lost, connected, trigger>>

\* The worker gets an error.  The file may exist all the same, when the answer
\* was lost or the context expired before it came.
UploadFails(s) ==
  /\ pc[s] = "upload"
  /\ \/ /\ Fails(s, "retry") \/ (ctxAlive[s] /\ Fails(s, "block"))
        /\ UNCHANGED driveVars
     \/ /\ ~ctxAlive[s] \/ ("lostResponse" \in Faults /\ lost[job[s]] < MaxLost)
        /\ Fails(s, "retry")
        /\ files' = [files EXCEPT ![job[s]] = @ + 1]
        /\ lost' = [lost EXCEPT ![job[s]] = @ + 1]
  /\ UNCHANGED <<life, rowVars, batch, full, job, ctxAlive, result,
                 queueVars, connected, trigger>>

\* The job is over: back to runBatch's for loop.
JobOver(s) ==
  /\ job' = [job EXCEPT ![s] = NoJob]
  /\ verdict' = [verdict EXCEPT ![s] = "none"]
  /\ result' = [result EXCEPT ![s] = 0]
  /\ ctxAlive' = [ctxAlive EXCEPT ![s] = TRUE]
  /\ pc' = [pc EXCEPT ![s] = "loop"]

HasRow(a) == status[a] # "none"

\* The base delay times 2^(attempt_count - 1) is beyond the int64s.
Overflows(a) == attempts[a] > Doublings

\* MarkAttachmentDriveSyncUploaded: no row to update is not an error.
MarkUploaded(s) ==
  /\ pc[s] = "mark"
  /\ ctxAlive[s]
  /\ IF HasRow(job[s])
       THEN /\ status' = [status EXCEPT ![job[s]] = "uploaded"]
            /\ fileId' = [fileId EXCEPT ![job[s]] = result[s]]
       ELSE UNCHANGED <<status, fileId>>
  /\ JobOver(s)
  /\ UNCHANGED <<life, attempts, cooling, overdue, aheadOf, batch, full,
                 queueVars, driveVars, connected, trigger>>

\* failJob with MarkAttachmentDriveSyncBlocked ...
MarkBlocked(s) ==
  /\ pc[s] = "fail"
  /\ ctxAlive[s]
  /\ verdict[s] = "block"
  /\ status' = [status EXCEPT ![job[s]] = IF HasRow(job[s]) THEN "blocked" ELSE @]
  /\ JobOver(s)
  /\ UNCHANGED <<life, fileId, attempts, cooling, overdue, aheadOf, batch, full,
                 queueVars, driveVars, connected, trigger>>

\* ... and with MarkAttachmentDriveSyncFailed, due after the retry delay, which
\* is over at once when the doubling has overflowed.
MarkFailed(s) ==
  /\ pc[s] = "fail"
  /\ ctxAlive[s]
  /\ verdict[s] = "retry"
  /\ \/ /\ ~HasRow(job[s])
        /\ UNCHANGED <<status, cooling, overdue, aheadOf>>
     \/ /\ HasRow(job[s])
        /\ status' = [status EXCEPT ![job[s]] = "failed"]
        /\ \/ /\ ~Overflows(job[s]) \/ "greatest" \in Conversions
              /\ cooling' = cooling \cup {job[s]}
              /\ UNCHANGED <<overdue, aheadOf>>
           \/ /\ Overflows(job[s]) /\ "least" \in Conversions
              /\ BecomeOverdue(job[s])
              /\ UNCHANGED cooling
  /\ JobOver(s)
  /\ UNCHANGED <<life, fileId, attempts, batch, full,
                 queueVars, driveVars, connected, trigger>>

\* Mutated form of MarkFails: a job that cannot be marked goes back to the queue.
MarkFailsRequeues(s) ==
  /\ pc[s] \in {"mark", "fail"}
  /\ ~ctxAlive[s] \/ "db" \in Faults
  /\ status' = [status EXCEPT ![job[s]] = IF HasRow(job[s]) THEN "pending" ELSE @]
  /\ BecomeDue({job[s]})
  /\ JobOver(s)
  /\ UNCHANGED <<life, fileId, attempts, cooling, batch, full, queueVars, driveVars,
                 connected, trigger>>

\* The UPDATE of any of the three fails, for want of a live context or of the
\* database.  The error is only logged: the row stays "uploading".
MarkFails(s) ==
  /\ pc[s] \in {"mark", "fail"}
  /\ ~ctxAlive[s] \/ "db" \in Faults
  /\ JobOver(s)
  /\ UNCHANGED <<life, rowVars, batch, full, queueVars, driveVars, connected, trigger>>

\* The 15 minutes of processJob are over, or Close has cancelled the parent.
Expire(s) ==
  /\ "expire" \in Faults
  /\ pc[s] \in InProcessJob
  /\ ctxAlive[s]
  /\ ctxAlive' = [ctxAlive EXCEPT ![s] = FALSE]
  /\ UNCHANGED <<life, rowVars, pc, batch, full, job, verdict, result,
                 queueVars, driveVars, connected, trigger>>

\* The process ends: main does not wait for the worker.  A commit or an upload
\* under way may still go through.
Crash(s) ==
  /\ "crash" \in Faults
  /\ pc[s] # "down"
  /\ pc' = [pc EXCEPT ![s] = "down"]
  /\ batch' = [batch EXCEPT ![s] = {}]
  /\ full' = [full EXCEPT ![s] = FALSE]
  /\ job' = [job EXCEPT ![s] = NoJob]
  /\ ctxAlive' = [ctxAlive EXCEPT ![s] = TRUE]
  /\ verdict' = [verdict EXCEPT ![s] = "none"]
  /\ result' = [result EXCEPT ![s] = 0]
  /\ locking' = [locking EXCEPT ![s] = {}]
  /\ todo' = [todo EXCEPT ![s] = {}]
  /\ queueing' = [queueing EXCEPT ![s] = FALSE]
  /\ trigger' = [trigger EXCEPT ![s] = FALSE]
  /\ \/ UNCHANGED <<status, attempts, overdue, aheadOf, files>>
     \/ /\ pc[s] = "commit"
        /\ MarkUploading(batch[s])
        /\ UNCHANGED files
     \/ /\ pc[s] = "upload"
        /\ files' = [files EXCEPT ![job[s]] = @ + 1]
        /\ UNCHANGED <<status, attempts, overdue, aheadOf>>
  /\ UNCHANGED <<life, fileId, cooling, lost, connected>>

\* Mutated form of Restart: a starting server requeues all "uploading" rows.
RestartRecovers(s) ==
  /\ pc[s] = "down"
  /\ pc' = [pc EXCEPT ![s] = "select"]
  /\ trigger' = [trigger EXCEPT ![s] = TRUE]
  /\ status' = [a \in Attachments |-> IF status[a] = "uploading" THEN "pending" ELSE status[a]]
  /\ BecomeDue({a \in Attachments : status[a] = "uploading"})
  /\ UNCHANGED <<life, fileId, attempts, cooling, batch, full, job, ctxAlive, verdict, result,
                 queueVars, driveVars, connected>>

\* app.New starts the worker, whose first act is Signal.
Restart(s) ==
  /\ pc[s] = "down"
  /\ pc' = [pc EXCEPT ![s] = "select"]
  /\ trigger' = [trigger EXCEPT ![s] = TRUE]
  /\ UNCHANGED <<life, rowVars, batch, full, job, ctxAlive, verdict, result,
                 queueVars, driveVars, connected>>

-----------------------------------------------------------------------------
(* The administrator.  HandleCallback and UpdateDriveSettings write their   *)
(* row and then requeue; the requeue is a statement of its own, its error   *)
(* is ignored and it signals no worker.  What UpdateDriveSettings writes is *)
(* not modelled, so a requeue may come at any time.                         *)

Connect ==
  /\ ~connected
  /\ connected' = TRUE
  /\ UNCHANGED <<life, rowVars, workerVars, queueVars, driveVars, trigger>>

Disconnect ==
  /\ connected
  /\ connected' = FALSE
  /\ UNCHANGED <<life, rowVars, workerVars, queueVars, driveVars, trigger>>

\* Mutated form of Requeued: everything that is not uploaded yet.
RequeuedAll == {a \in Attachments : status[a] \in {"blocked", "failed", "uploading"}}

Requeued == {a \in Attachments : status[a] \in {"blocked", "failed"}}

Requeue ==
  /\ Requeued # {}
  /\ Requeued \cap Locked = {}  \* the UPDATE waits for a claim's row locks
  /\ status' = [a \in Attachments |-> IF a \in Requeued THEN "pending" ELSE status[a]]
  /\ cooling' = cooling \ Requeued
  /\ BecomeDue(Requeued)
  /\ UNCHANGED <<life, fileId, attempts, workerVars, queueVars, driveVars,
                 connected, trigger>>

-----------------------------------------------------------------------------
RequestStep(s) ==
  \/ \E p \in Posts : \E New, Gone \in SUBSET Attachments : SavePost(s, p, New, Gone)
  \/ RollBack(s)
  \/ \E a \in Attachments : LockVideo(s, a) \/ InsertRow(s, a) \/ InsertRowFails(s, a)
  \/ Signal(s)

JobStep(s) ==
  \/ Prepare(s) \/ PrepareFails(s)
  \/ Upload(s)  \/ UploadFails(s)
  \/ MarkUploaded(s) \/ MarkBlocked(s) \/ MarkFailed(s) \/ MarkFails(s)

BatchStep(s) ==
  \/ ClaimRows(s) \/ CommitClaim(s) \/ ClaimFails(s)
  \/ NextJob(s) \/ BatchDone(s)

FaultStep(s) == Expire(s) \/ Crash(s) \/ Restart(s)

AdminStep == Connect \/ Disconnect \/ Requeue

Next ==
  \/ \E a \in Attachments : Elapse(a)
  \/ \E s \in Servers :
       \/ RequestStep(s)
       \/ WakeByTicker(s) \/ WakeByTrigger(s)
       \/ BatchStep(s) \/ JobStep(s)
       \/ FaultStep(s)
  \/ AdminStep

Spec == Init /\ [][Next]_vars

\* A handler that runs its statements and a goroutine that is runnable go on.
QueueFairness ==
  \A s \in Servers :
    /\ \A a \in Attachments : WF_vars(InsertRow(s, a) \/ InsertRowFails(s, a))
    /\ WF_vars(Signal(s))

WorkerFairness ==
  \A s \in Servers :
    /\ WF_vars(WakeByTrigger(s))
    /\ WF_vars(BatchStep(s))
    /\ WF_vars(JobStep(s))

ClockFairness == \A a \in Attachments : WF_vars(Elapse(a))

\* A handler and a goroutine that can go on do; whether the ticker fires is left
\* open, and users, administrators and faults are free.
FairSpec == Spec /\ QueueFairness /\ WorkerFairness /\ ClockFairness

\* The ticker fires every PollEvery.
TickerFires == \A s \in Servers : WF_vars(WakeByTicker(s))

-----------------------------------------------------------------------------
(* Properties.                                                             *)

\* The attachments a worker has claimed, or is about to.
Held(s) == batch[s] \cup ({job[s]} \ {NoJob})

\* No two workers, of the same or of different servers, ever work on the same
\* attachment: the claim's row locks and the status "uploading" hand every row
\* to one of them (ClaimAttachmentDriveSyncBatch).
ExclusiveJobs ==
  \A s, t \in Servers : s # t => Held(s) \cap Held(t) = {}

\* While a worker has a job, nobody moves its row away from "uploading":
\* neither a requeue by the administrator nor a post that is saved again does;
\* only the deletion of the attachment ends it.
HeldRowIsStable ==
  \A s \in Servers : \A a \in Held(s) :
    \/ pc[s] = "commit" /\ a \in Ready
    \/ status[a] = "uploading"
    \/ life[a] = "deleted"

\* The file recorded for an uploaded attachment is the last one that was
\* created for it: nobody uploads an attachment again once it is recorded.
RecordedFileIsLast ==
  \A a \in Attachments :
    status[a] = "uploaded" => fileId[a] = files[a] /\ files[a] > 0

\* Drive gets a second copy of a video only when a response of Drive was lost
\* and the worker took the upload for failed.  A crash, a failing database or
\* an expired context never makes anyone upload a video again.
CopiesNeedLostResponses ==
  \A a \in Attachments : files[a] <= lost[a] + 1

(* The inductive invariant behind the four properties above.               *)

\* Where a worker has jobs: batch outside of a claim is empty, and there is a
\* job exactly inside processJob.  Only live attachments have rows.
JobsWherePcSays ==
  /\ \A s \in Servers :
       /\ pc[s] \in {"down", "select", "claim"} => batch[s] = {}
       /\ job[s] # NoJob <=> pc[s] \in InProcessJob
       /\ job[s] \notin batch[s]
  /\ \A a \in Attachments : status[a] # "none" => life[a] = "live"

\* A claim and a save exclude each other: what one of them has locked the other
\* passes by or waits for.
LocksAreExclusive == Locked \cap SaveLocked = {}

\* HeldRowIsStable, and only a claim in progress holds rows that are due.
HeldRowByPc ==
  \A s \in Servers : \A a \in Held(s) :
    IF pc[s] = "commit" THEN a \in Ready
                        ELSE status[a] = "uploading" \/ life[a] = "deleted"

\* A worker about to record a file has the last one.
ResultIsLast ==
  \A s \in Servers :
    pc[s] = "mark" => result[s] = files[job[s]] /\ files[job[s]] > 0

\* The worker has a file that it has not recorded yet.
HasFile(s, a) == pc[s] = "mark" /\ a = job[s]

\* What may be uploaded again has no file but those reported as failures.
CopiesBeforeUpload ==
  /\ \A a \in Attachments :
       status[a] \notin {"uploading", "uploaded"} /\ life[a] # "deleted" => files[a] <= lost[a]
  /\ \A s \in Servers : \A a \in Held(s) : HasFile(s, a) \/ files[a] <= lost[a]

IInv ==
  /\ TypeOK
  /\ JobsWherePcSays
  /\ LocksAreExclusive
  /\ ExclusiveJobs
  /\ HeldRowByPc
  /\ ResultIsLast
  /\ RecordedFileIsLast
  /\ CopiesBeforeUpload
  /\ CopiesNeedLostResponses

\* Unless a process or the database fails, every video of a saved post has its
\* row or is about to get it, whatever the order in which overlapping requests
\* replace the attachments of the post (service.Update queues all of them).
NoForgottenVideo ==
  \A a \in Attachments :
    life[a] = "live" /\ status[a] = "none" => \E s \in Servers : a \in todo[s]

\* A claim may pass by row a: an open save has locked its attachment, or so many
\* other rows are overdue that they fill every batch.
PassedBy(a) == a \in SaveLocked \/ Cardinality(overdue \ {a}) >= BatchSize

\* While the ticker fires, a due row does not starve behind rows that fail, are
\* blocked or requeued and become due again: only open saves of its post, and
\* BatchSize rows whose retry delay has overflowed, keep it from being claimed.
DueRowIsClaimed ==
  TickerFires => \A a \in Attachments : a \in Ready ~> a \notin Ready \/ PassedBy(a)

\* A video that QueueAttachments has to insert is claimed even if the ticker
\* never fires: the one-token trigger channel loses no wake-up.  (Nobody signals
\* when a save that made the claim pass by the video is rolled back.)
SignalWakesWorker ==
  \A a \in Attachments :
    life[a] = "live" /\ status[a] = "none"
      ~> status[a] \notin {"none", "pending"} \/ life[a] = "deleted" \/ PassedBy(a)
=============================================================================
