--------------------------- MODULE DriveSync_proofs ---------------------------
(***************************************************************************)
(* Proofs about DriveSync, for any number of servers, posts, attachments   *)
(* and faults, and any batch size.                                         *)
(***************************************************************************)
EXTENDS DriveSync_refinement, TLAPS

-----------------------------------------------------------------------------
(* Type correctness.                                                       *)

LEMMA InitTypeOK == Init => TypeOK
  BY DriveSyncAssumption DEF Init, TypeOK, Statuses, WorkerPCs

\* What a committed claim makes of the rows.
LEMMA MarkUploadingTypes ==
  ASSUME TypeOK, NEW S, MarkUploading(S)
  PROVE  /\ status' \in [Attachments -> Statuses]
         /\ attempts' \in [Attachments -> 0..(Doublings + 1)]
         /\ overdue' \subseteq Attachments
         /\ aheadOf' \in [Attachments -> SUBSET Attachments]
<1>1. ASSUME NEW a \in Attachments
      PROVE  (IF a \in S /\ attempts[a] <= Doublings THEN attempts[a] + 1 ELSE attempts[a])
               \in 0..(Doublings + 1)
  <2>1. attempts[a] \in 0..(Doublings + 1) /\ Doublings \in Nat
    BY DriveSyncAssumption DEF TypeOK
  <2> QED
    BY <2>1
<1>2. attempts' \in [Attachments -> 0..(Doublings + 1)]
  BY <1>1 DEF MarkUploading
<1>3. status' \in [Attachments -> Statuses]
  BY DEF MarkUploading, TypeOK, Statuses
<1>4. overdue' \subseteq Attachments /\ aheadOf' \in [Attachments -> SUBSET Attachments]
  BY DEF MarkUploading, LeaveQueue, TypeOK
<1> QED
  BY <1>2, <1>3, <1>4

LEMMA RequestTypeOK ==
  ASSUME TypeOK, NEW s \in Servers, RequestStep(s)
  PROVE  TypeOK'
<1>1. ASSUME NEW p \in Posts, NEW New \in SUBSET Attachments,
             NEW Gone \in SUBSET Attachments, SavePost(s, p, New, Gone)
      PROVE  TypeOK'
  <2>1. status' \in [Attachments -> Statuses] /\ fileId' \in [Attachments -> Nat]
    BY <1>1 DEF TypeOK, SavePost, ReplaceVideos, Statuses
  <2>2. attempts' \in [Attachments -> 0..(Doublings + 1)]
    <3>1. 0 \in 0..(Doublings + 1)
      BY DriveSyncAssumption
    <3> QED
      BY <1>1, <3>1 DEF TypeOK, SavePost, ReplaceVideos
  <2>3. cooling' \subseteq Attachments /\ overdue' \subseteq Attachments
        /\ aheadOf' \in [Attachments -> SUBSET Attachments]
    BY <1>1 DEF TypeOK, SavePost, ReplaceVideos, LeaveQueue
  <2>4. /\ life' \in [Attachments -> {"fresh", "live", "deleted"}]
        /\ locking' \in [Servers -> SUBSET Attachments]
        /\ todo' \in [Servers -> SUBSET Attachments] /\ queueing' \in [Servers -> BOOLEAN]
    BY <1>1 DEF TypeOK, SavePost, ReplaceVideos, Videos
  <2> QED
    BY <1>1, <2>1, <2>2, <2>3, <2>4 DEF TypeOK, SavePost, workerVars, driveVars
<1>2. ASSUME NEW a \in Attachments, InsertRow(s, a)
      PROVE  TypeOK'
  BY <1>2 DEF TypeOK, InsertRow, BecomeDue, Ready, Statuses, workerVars, driveVars
<1>3. ASSUME NEW a \in Attachments, InsertRowFails(s, a)
      PROVE  TypeOK'
  BY <1>3 DEF TypeOK, InsertRowFails, rowVars, workerVars, driveVars
<1>4. CASE Signal(s)
  BY <1>4 DEF TypeOK, Signal, rowVars, workerVars, driveVars
<1>5. ASSUME NEW a \in Attachments, LockVideo(s, a) \/ RollBack(s)
      PROVE  TypeOK'
  BY <1>5 DEF TypeOK, LockVideo, RollBack, rowVars, workerVars, driveVars
<1>6. CASE RollBack(s)
  BY <1>6 DEF TypeOK, RollBack, rowVars, workerVars, driveVars
<1> QED
  BY <1>1, <1>2, <1>3, <1>4, <1>5, <1>6 DEF RequestStep

LEMMA BatchTypeOK ==
  ASSUME TypeOK, NEW s \in Servers, WakeByTicker(s) \/ WakeByTrigger(s) \/ BatchStep(s)
  PROVE  TypeOK'
<1> USE DEF TypeOK, WorkerPCs, rowVars, queueVars, driveVars
<1>1. CASE WakeByTicker(s)   BY <1>1 DEF WakeByTicker
<1>2. CASE WakeByTrigger(s)  BY <1>2 DEF WakeByTrigger
<1>3. CASE ClaimRows(s)      BY <1>3 DEF ClaimRows, Earliest, Ready
<1>4. CASE CommitClaim(s)    BY <1>4, MarkUploadingTypes DEF CommitClaim
<1>5. CASE ClaimFails(s)     BY <1>5, MarkUploadingTypes DEF ClaimFails
<1>6. CASE NextJob(s)        BY <1>6 DEF NextJob
<1>7. CASE BatchDone(s)      BY <1>7 DEF BatchDone
<1> QED
  BY <1>1, <1>2, <1>3, <1>4, <1>5, <1>6, <1>7 DEF BatchStep

LEMMA JobTypeOK ==
  ASSUME TypeOK, JobsWherePcSays, NEW s \in Servers, JobStep(s)
  PROVE  TypeOK'
<1> USE DEF TypeOK, WorkerPCs, rowVars, queueVars, driveVars, Fails, JobOver
<1>1. CASE Prepare(s)       BY <1>1 DEF Prepare
<1>2. CASE PrepareFails(s)  BY <1>2 DEF PrepareFails
<1>0. ASSUME pc[s] = "upload" PROVE job[s] \in Attachments
  BY <1>0 DEF JobsWherePcSays, InProcessJob
<1>3. CASE Upload(s)
  <2>1. files' \in [Attachments -> Nat] /\ result' \in [Servers -> Nat]
    BY <1>0, <1>3 DEF Upload
  <2> QED
    BY <1>3, <2>1 DEF Upload
<1>4. CASE UploadFails(s)
  <2>1. files' \in [Attachments -> Nat] /\ lost' \in [Attachments -> Nat]
    BY <1>0, <1>4 DEF UploadFails
  <2>2. verdict' \in [Servers -> {"none", "retry", "block"}] /\ pc' \in [Servers -> WorkerPCs]
    BY <1>4 DEF UploadFails
  <2>3. UNCHANGED <<life, rowVars, batch, full, job, ctxAlive, result,
                    queueVars, connected, trigger>>
    BY <1>4 DEF UploadFails
  <2> QED
    BY <2>1, <2>2, <2>3
<1>5. CASE MarkUploaded(s)
  <2>1. status' \in [Attachments -> Statuses] /\ fileId' \in [Attachments -> Nat]
    <3>1. status \in [Attachments -> Statuses] /\ fileId \in [Attachments -> Nat] /\ result[s] \in Nat
      OBVIOUS
    <3> QED
      BY ONLY <1>5, <3>1 DEF MarkUploaded, Statuses
  <2> QED
    BY <1>5, <2>1 DEF MarkUploaded
<1>6. CASE MarkBlocked(s)   BY <1>6 DEF MarkBlocked, Statuses
<1>7. CASE MarkFailed(s)
  BY <1>7 DEF MarkFailed, BecomeOverdue, Statuses, JobsWherePcSays, InProcessJob
<1>8. CASE MarkFails(s)     BY <1>8 DEF MarkFails
<1> QED
  BY <1>1, <1>2, <1>3, <1>4, <1>5, <1>6, <1>7, <1>8 DEF JobStep

LEMMA OtherTypeOK ==
  ASSUME TypeOK, JobsWherePcSays,
         \/ \E s \in Servers : FaultStep(s)
         \/ \E a \in Attachments : Elapse(a)
         \/ AdminStep
  PROVE  TypeOK'
<1> USE DEF TypeOK, WorkerPCs, Statuses, rowVars, workerVars, queueVars, driveVars
<1>1. ASSUME NEW s \in Servers, Expire(s) PROVE TypeOK'
  BY <1>1 DEF Expire
<1>2. ASSUME NEW s \in Servers, Crash(s) PROVE TypeOK'
  <2>1. /\ status' \in [Attachments -> Statuses]
        /\ attempts' \in [Attachments -> 0..(Doublings + 1)]
        /\ overdue' \subseteq Attachments
        /\ aheadOf' \in [Attachments -> SUBSET Attachments]
    BY <1>2, MarkUploadingTypes DEF Crash
  <2>2. files' \in [Attachments -> Nat]
    <3>1. files' = files \/ files' = [files EXCEPT ![job[s]] = @ + 1]
      BY <1>2 DEF Crash
    <3>2. files \in [Attachments -> Nat]
      OBVIOUS
    <3> QED
      BY ONLY <3>1, <3>2
  <2> QED
    BY <1>2, <2>1, <2>2 DEF Crash
<1>3. ASSUME NEW s \in Servers, Restart(s) PROVE TypeOK'
  BY <1>3 DEF Restart
<1>4. ASSUME NEW a \in Attachments, Elapse(a) PROVE TypeOK'
  BY <1>4 DEF Elapse, BecomeDue, Ready
<1>5. CASE Connect     BY <1>5 DEF Connect
<1>6. CASE Disconnect  BY <1>6 DEF Disconnect
<1>7. CASE Requeue     BY <1>7 DEF Requeue, BecomeDue, Ready
<1> QED
  BY <1>1, <1>2, <1>3, <1>4, <1>5, <1>6, <1>7 DEF FaultStep, AdminStep

LEMMA NextTypeOK == TypeOK /\ JobsWherePcSays /\ [Next]_vars => TypeOK'
<1> SUFFICES ASSUME TypeOK, JobsWherePcSays, [Next]_vars PROVE TypeOK'
  OBVIOUS
<1>1. CASE Next
  BY <1>1, RequestTypeOK, BatchTypeOK, JobTypeOK, OtherTypeOK DEF Next
<1>2. CASE UNCHANGED vars
  BY <1>2 DEF TypeOK, vars, rowVars, workerVars, queueVars, driveVars
<1> QED
  BY <1>1, <1>2

-----------------------------------------------------------------------------
(* Ownership: who holds which row.                                         *)

Ownership == JobsWherePcSays /\ ExclusiveJobs /\ HeldRowByPc

\* A step that gives nobody a new job keeps the jobs exclusive.
LEMMA HeldShrinks ==
  ASSUME ExclusiveJobs, \A t \in Servers : Held(t)' \subseteq Held(t)
  PROVE  ExclusiveJobs'
  BY DEF ExclusiveJobs

\* Ownership depends on six variables only.
LEMMA OwnershipUnchanged ==
  ASSUME Ownership, UNCHANGED <<life, status, cooling, pc, batch, job>>
  PROVE  Ownership'
<1>1. \A t \in Servers : Held(t)' = Held(t)
  BY DEF Held
<1> QED
  BY <1>1, HeldShrinks DEF Ownership, JobsWherePcSays, HeldRowByPc, Ready

LEMMA RequestOwnership ==
  ASSUME TypeOK, LocksAreExclusive, Ownership, NEW s \in Servers, RequestStep(s)
  PROVE  Ownership'
<1> USE DEF Ownership
<1>1. \A t \in Servers : Held(t)' = Held(t) /\ pc'[t] = pc[t]
  BY DEF RequestStep, SavePost, ReplaceVideos, LockVideo, RollBack, InsertRow, InsertRowFails, Signal,
         Held, workerVars
<1>2. ExclusiveJobs'
  BY <1>1, HeldShrinks
<1>3. ASSUME NEW p \in Posts, NEW New \in SUBSET Attachments,
             NEW Gone \in SUBSET Attachments, SavePost(s, p, New, Gone)
      PROVE  JobsWherePcSays' /\ HeldRowByPc'
  <2>1. JobsWherePcSays'
    BY <1>3 DEF TypeOK, SavePost, ReplaceVideos, Videos, JobsWherePcSays, workerVars
  <2>2. ASSUME NEW t \in Servers, NEW a \in Held(t), a \notin Gone
        PROVE  IF pc[t] = "commit" THEN a \in Ready' ELSE status'[a] = "uploading" \/ life'[a] = "deleted"
    <3>1. a \in Attachments
      BY DEF Held, TypeOK
    <3>2. status'[a] = status[a] /\ (a \in cooling' => a \in cooling)
      BY <1>3, <2>2, <3>1 DEF SavePost, ReplaceVideos
    <3>3. life[a] = "deleted" => life'[a] = "deleted"
      BY <1>3, <3>1 DEF SavePost, ReplaceVideos, Videos
    <3> QED
      BY <2>2, <3>1, <3>2, <3>3 DEF HeldRowByPc, Ready
  <2>3. ASSUME NEW t \in Servers, NEW a \in Held(t), a \in Gone
        PROVE  pc[t] # "commit" /\ life'[a] = "deleted"
    <3>1. a \in Attachments /\ a \notin Locked /\ a \notin New
      BY <1>3, <2>3 DEF SavePost, ReplaceVideos, Videos, LocksAreExclusive, SaveLocked
    <3>2. life'[a] = "deleted"
      BY <1>3, <2>3, <3>1 DEF SavePost, ReplaceVideos
    <3>3. CASE pc[t] = "commit"
      <4>1. job[t] = NoJob
        BY <3>3 DEF JobsWherePcSays, InProcessJob
      <4> QED
        BY <2>3, <3>1, <3>3, <4>1 DEF Held, Locked
    <3> QED
      BY <3>2, <3>3
  <2>4. HeldRowByPc'
    BY <1>1, <2>2, <2>3 DEF HeldRowByPc
  <2> QED
    BY <2>1, <2>4
<1>4. ASSUME NEW a \in Attachments, InsertRow(s, a)
      PROVE  JobsWherePcSays' /\ HeldRowByPc'
  <2>1. JobsWherePcSays'
    BY <1>4 DEF TypeOK, InsertRow, JobsWherePcSays, workerVars
  <2>2. \A b \in Attachments : status[b] # "none" => status'[b] = status[b]
    BY <1>4 DEF TypeOK, InsertRow
  <2>3. cooling' = cooling /\ life' = life
    BY <1>4 DEF InsertRow
  <2>4. ASSUME NEW t \in Servers, NEW b \in Held(t)
        PROVE  b \in Attachments
    BY DEF Held, TypeOK
  <2>5. ASSUME NEW t \in Servers, NEW b \in Held(t)
        PROVE  IF pc[t] = "commit" THEN b \in Ready'
                                   ELSE status'[b] = "uploading" \/ life[b] = "deleted"
    BY <2>2, <2>3, <2>4, <2>5 DEF HeldRowByPc, Ready, Claimable
  <2>6. HeldRowByPc'
    BY <1>1, <2>3, <2>5 DEF HeldRowByPc
  <2> QED
    BY <2>1, <2>6
<1>5. ASSUME NEW a \in Attachments, InsertRowFails(s, a)
      PROVE  Ownership'
  <2>1. UNCHANGED <<life, status, cooling, pc, batch, job>>
    BY <1>5 DEF InsertRowFails, rowVars, workerVars
  <2> QED
    BY <2>1, OwnershipUnchanged
<1>6. CASE Signal(s)
  <2>1. UNCHANGED <<life, status, cooling, pc, batch, job>>
    BY <1>6 DEF Signal, rowVars, workerVars
  <2> QED
    BY <2>1, OwnershipUnchanged
<1>7. ASSUME NEW a \in Attachments, LockVideo(s, a)
      PROVE  Ownership'
  <2>1. UNCHANGED <<life, status, cooling, pc, batch, job>>
    BY <1>7 DEF LockVideo, rowVars, workerVars
  <2> QED
    BY <2>1, OwnershipUnchanged
<1>8. CASE RollBack(s)
  <2>1. UNCHANGED <<life, status, cooling, pc, batch, job>>
    BY <1>8 DEF RollBack, rowVars, workerVars
  <2> QED
    BY <2>1, OwnershipUnchanged
<1> QED
  BY <1>2, <1>3, <1>4, <1>5, <1>6, <1>7, <1>8 DEF RequestStep

LEMMA BatchOwnership ==
  ASSUME TypeOK, Ownership, NEW s \in Servers,
         WakeByTicker(s) \/ WakeByTrigger(s) \/ BatchStep(s)
  PROVE  Ownership'
<1> USE DEF Ownership
<1>1. CASE WakeByTicker(s) \/ WakeByTrigger(s) \/ BatchDone(s)
  <2>1. \A t \in Servers : Held(t)' = Held(t)
    BY <1>1 DEF WakeByTicker, WakeByTrigger, BatchDone, Held
  <2>2. UNCHANGED <<life, status, cooling>>
    BY <1>1 DEF WakeByTicker, WakeByTrigger, BatchDone, rowVars
  <2>3. JobsWherePcSays'
    BY <1>1 DEF WakeByTicker, WakeByTrigger, BatchDone, rowVars, JobsWherePcSays, InProcessJob, TypeOK
  <2>4. \A t \in Servers : pc'[t] = "commit" <=> pc[t] = "commit"
    BY <1>1 DEF WakeByTicker, WakeByTrigger, BatchDone, TypeOK
  <2>5. HeldRowByPc'
    BY <2>1, <2>2, <2>4 DEF HeldRowByPc, Ready
  <2> QED
    BY <2>1, <2>3, <2>5, HeldShrinks
<1>2. CASE ClaimRows(s)
  <2>1. PICK S \in SUBSET (Ready \ Skipped) : batch' = [batch EXCEPT ![s] = S]
    BY <1>2 DEF ClaimRows
  <2>2. /\ pc[s] = "claim" /\ pc' = [pc EXCEPT ![s] = "commit"]
        /\ job[s] = NoJob
        /\ UNCHANGED <<life, status, cooling, job>>
    BY <1>2 DEF ClaimRows, rowVars, JobsWherePcSays, InProcessJob
  <2>3. Held(s)' = S /\ \A t \in Servers \ {s} : Held(t)' = Held(t)
    BY <2>1, <2>2 DEF Held, TypeOK
  <2>4. ASSUME NEW t \in Servers \ {s} PROVE Held(t) \cap S = {}
    <3>1. CASE pc[t] = "commit"
      <4>1. job[t] = NoJob /\ batch[t] \subseteq Locked
        BY <3>1 DEF JobsWherePcSays, InProcessJob, Locked
      <4> QED
        BY <2>1, <4>1 DEF Held, Skipped
    <3>2. CASE pc[t] # "commit"
      <4>1. \A a \in Held(t) : status[a] = "uploading" \/ life[a] = "deleted"
        BY <3>2 DEF HeldRowByPc
      <4>2. \A a \in S : status[a] \in Claimable /\ life[a] = "live"
        BY <2>1 DEF Ready, Claimable, JobsWherePcSays
      <4> QED
        BY <4>1, <4>2 DEF Claimable
    <3> QED
      BY <3>1, <3>2
  <2>5. ExclusiveJobs'
    BY <2>3, <2>4 DEF ExclusiveJobs
  <2>6. NoJob \notin S
    BY DriveSyncAssumption, <2>1 DEF Ready
  <2>7. JobsWherePcSays'
    BY <2>1, <2>2, <2>6 DEF JobsWherePcSays, InProcessJob, TypeOK
  <2>8. Ready' = Ready
    BY <2>2 DEF Ready
  <2>9. HeldRowByPc'
    BY <2>1, <2>2, <2>3, <2>8 DEF HeldRowByPc, TypeOK
  <2> QED
    BY <2>5, <2>7, <2>9
<1>3. CASE CommitClaim(s)
  <2>1. /\ pc[s] = "commit" /\ pc' = [pc EXCEPT ![s] = IF batch[s] = {} THEN "select" ELSE "loop"]
        /\ status' = [a \in Attachments |-> IF a \in batch[s] THEN "uploading" ELSE status[a]]
        /\ job[s] = NoJob
        /\ UNCHANGED <<life, cooling, batch, job>>
    BY <1>3 DEF CommitClaim, MarkUploading, JobsWherePcSays, InProcessJob
  <2>2. \A t \in Servers : Held(t)' = Held(t)
    BY <2>1 DEF Held
  <2>3. Held(s) = batch[s] /\ \A a \in batch[s] : a \in Attachments /\ life[a] = "live"
    BY <2>1 DEF Held, HeldRowByPc, Ready, Claimable, JobsWherePcSays, TypeOK
  <2>4. JobsWherePcSays'
    BY <2>1, <2>3 DEF JobsWherePcSays, InProcessJob, TypeOK
  <2>5. ASSUME NEW t \in Servers, NEW a \in Held(t)
        PROVE  IF pc'[t] = "commit" THEN a \in Ready'
                                    ELSE status'[a] = "uploading" \/ life'[a] = "deleted"
    <3>1. CASE t = s
      BY <2>1, <2>3, <2>5, <3>1 DEF TypeOK
    <3>2. CASE t # s
      <4>1. a \notin batch[s] /\ a \in Attachments
        BY <2>3, <2>5, <3>2 DEF ExclusiveJobs, Held, TypeOK
      <4>2. status'[a] = status[a] /\ pc'[t] = pc[t]
        BY <2>1, <3>2, <4>1 DEF TypeOK
      <4> QED
        BY <2>1, <2>5, <4>1, <4>2 DEF HeldRowByPc, Ready
    <3> QED
      BY <3>1, <3>2
  <2>6. HeldRowByPc'
    BY <2>2, <2>5 DEF HeldRowByPc
  <2> QED
    BY <2>2, <2>4, <2>6, HeldShrinks
<1>4. CASE ClaimFails(s)
  <2>1. /\ pc[s] \in {"claim", "commit"} /\ pc' = [pc EXCEPT ![s] = "select"]
        /\ batch' = [batch EXCEPT ![s] = {}]
        /\ job[s] = NoJob
        /\ UNCHANGED <<life, cooling, job>>
    BY <1>4 DEF ClaimFails, JobsWherePcSays, InProcessJob
  <2>2. \/ status' = status
        \/ /\ pc[s] = "commit"
           /\ status' = [a \in Attachments |-> IF a \in batch[s] THEN "uploading" ELSE status[a]]
    BY <1>4 DEF ClaimFails, MarkUploading
  <2>3. Held(s)' = {} /\ \A t \in Servers \ {s} : Held(t)' = Held(t)
    BY <2>1 DEF Held, TypeOK
  <2>4. pc[s] = "commit" => \A a \in batch[s] : life[a] = "live"
    BY DEF Held, HeldRowByPc, Ready, Claimable, JobsWherePcSays
  <2>5. JobsWherePcSays'
    BY <2>1, <2>2, <2>4 DEF JobsWherePcSays, InProcessJob, TypeOK
  <2>6. ASSUME NEW t \in Servers \ {s}, NEW a \in Held(t)
        PROVE  IF pc'[t] = "commit" THEN a \in Ready'
                                    ELSE status'[a] = "uploading" \/ life'[a] = "deleted"
    <3>1. a \notin batch[s] /\ a \in Attachments
      BY <2>6 DEF ExclusiveJobs, Held, TypeOK
    <3>2. status'[a] = status[a] /\ pc'[t] = pc[t]
      BY <2>1, <2>2, <3>1 DEF TypeOK
    <3> QED
      BY <2>1, <2>6, <3>1, <3>2 DEF HeldRowByPc, Ready
  <2>7. HeldRowByPc'
    BY <2>3, <2>6 DEF HeldRowByPc
  <2> QED
    BY <2>3, <2>5, <2>7, HeldShrinks
<1>5. CASE NextJob(s)
  <2>1. PICK a \in batch[s] : /\ job' = [job EXCEPT ![s] = a]
                             /\ batch' = [batch EXCEPT ![s] = @ \ {a}]
    BY <1>5 DEF NextJob
  <2>2. /\ pc[s] = "loop" /\ pc' = [pc EXCEPT ![s] = "prepare"]
        /\ UNCHANGED <<life, status, cooling>>
    BY <1>5 DEF NextJob, rowVars
  <2>3. \A t \in Servers : Held(t)' \subseteq Held(t)
    BY <2>1 DEF Held, TypeOK
  <2>4. a # NoJob
    BY DriveSyncAssumption, <2>1 DEF TypeOK
  <2>5. JobsWherePcSays'
    BY <2>1, <2>2, <2>4 DEF JobsWherePcSays, InProcessJob, TypeOK
  <2>6. HeldRowByPc'
    BY <2>2, <2>3 DEF HeldRowByPc, Ready, TypeOK
  <2> QED
    BY <2>3, <2>5, <2>6, HeldShrinks
<1> QED
  BY <1>1, <1>2, <1>3, <1>4, <1>5 DEF BatchStep
LEMMA JobOwnership ==
  ASSUME TypeOK, Ownership, NEW s \in Servers, JobStep(s)
  PROVE  Ownership'
<1> USE DEF Ownership
<1>1. CASE Prepare(s) \/ PrepareFails(s) \/ Upload(s) \/ UploadFails(s)
  <2>1. /\ pc[s] \in InProcessJob
        /\ \E next \in {"upload", "mark", "fail"} : pc' = [pc EXCEPT ![s] = next]
        /\ UNCHANGED <<life, status, cooling, batch, job>>
    BY <1>1 DEF Prepare, PrepareFails, Upload, UploadFails, Fails, InProcessJob, rowVars
  <2>2. \A t \in Servers : Held(t)' = Held(t) /\ (pc'[t] = "commit" <=> pc[t] = "commit")
    BY <2>1 DEF Held, TypeOK, InProcessJob
  <2>3. JobsWherePcSays'
    BY <2>1 DEF JobsWherePcSays, InProcessJob, TypeOK
  <2>4. HeldRowByPc'
    BY <2>1, <2>2 DEF HeldRowByPc, Ready
  <2> QED
    BY <2>2, <2>3, <2>4, HeldShrinks
<1>2. CASE MarkUploaded(s) \/ MarkBlocked(s) \/ MarkFailed(s) \/ MarkFails(s)
  <2>1. /\ pc[s] \in {"mark", "fail"}
        /\ job[s] \in Attachments
        /\ pc' = [pc EXCEPT ![s] = "loop"]
        /\ job' = [job EXCEPT ![s] = NoJob]
        /\ UNCHANGED <<life, batch>>
    BY <1>2 DEF MarkUploaded, MarkBlocked, MarkFailed, MarkFails, JobOver,
                JobsWherePcSays, InProcessJob, TypeOK
  <2>2. \E new \in Statuses :
          status' = [status EXCEPT ![job[s]] = IF HasRow(job[s]) THEN new ELSE @]
    BY <1>2, <2>1 DEF MarkUploaded, MarkBlocked, MarkFailed, MarkFails, HasRow,
                      rowVars, Statuses, TypeOK
  <2>3. cooling' \subseteq cooling \cup {job[s]}
    BY <1>2, <2>1 DEF MarkUploaded, MarkBlocked, MarkFailed, MarkFails, rowVars
  <2>4. Held(s)' = Held(s) \ {job[s]} /\ \A t \in Servers \ {s} : Held(t)' = Held(t)
    BY <2>1, DriveSyncAssumption DEF Held, TypeOK, JobsWherePcSays
  <2>5. JobsWherePcSays'
    BY <2>1, <2>2, DriveSyncAssumption DEF JobsWherePcSays, InProcessJob, HasRow, TypeOK
  <2>6. ASSUME NEW t \in Servers, NEW a \in Held(t)'
        PROVE  IF pc'[t] = "commit" THEN a \in Ready'
                                    ELSE status'[a] = "uploading" \/ life'[a] = "deleted"
    <3>1. a \in Held(t) /\ a \in Attachments
      <4>1. a \in Held(t)
        BY <2>4, <2>6
      <4> QED
        BY <4>1 DEF Held, TypeOK
    <3>2. a # job[s]
      <4>1. job[s] \in Held(s)
        BY <2>1, DriveSyncAssumption DEF Held
      <4> QED
        BY <2>4, <2>6, <4>1 DEF ExclusiveJobs
    <3>3. status'[a] = status[a] /\ (a \in cooling' => a \in cooling) /\ life' = life
      BY <2>1, <2>2, <2>3, <3>1, <3>2 DEF TypeOK
    <3>4. pc'[t] = "commit" <=> pc[t] = "commit"
      BY <2>1 DEF TypeOK
    <3> QED
      BY <3>1, <3>3, <3>4 DEF HeldRowByPc, Ready
  <2>7. HeldRowByPc'
    BY <2>6 DEF HeldRowByPc
  <2> QED
    BY <2>4, <2>5, <2>7, HeldShrinks
<1> QED
  BY <1>1, <1>2 DEF JobStep

LEMMA OtherOwnership ==
  ASSUME TypeOK, Ownership,
         \/ \E s \in Servers : FaultStep(s)
         \/ \E a \in Attachments : Elapse(a)
         \/ AdminStep
  PROVE  Ownership'
<1> USE DEF Ownership
<1>1. ASSUME NEW s \in Servers, Expire(s) \/ Restart(s)
      PROVE  Ownership'
  <2>1. /\ pc' = pc \/ (pc[s] = "down" /\ pc' = [pc EXCEPT ![s] = "select"])
        /\ UNCHANGED <<life, status, cooling, batch, job>>
    BY <1>1 DEF Expire, Restart, rowVars
  <2>2. \A t \in Servers : Held(t)' = Held(t) /\ (pc'[t] = "commit" <=> pc[t] = "commit")
    BY <2>1 DEF Held, TypeOK
  <2>3. JobsWherePcSays'
    BY <2>1 DEF JobsWherePcSays, InProcessJob, TypeOK
  <2>4. HeldRowByPc'
    BY <2>1, <2>2 DEF HeldRowByPc, Ready
  <2> QED
    BY <2>2, <2>3, <2>4, HeldShrinks
<1>2. ASSUME NEW s \in Servers, Crash(s)
      PROVE  Ownership'
  <2>1. /\ pc' = [pc EXCEPT ![s] = "down"]
        /\ batch' = [batch EXCEPT ![s] = {}]
        /\ job' = [job EXCEPT ![s] = NoJob]
        /\ UNCHANGED <<life, cooling>>
        /\ \/ status' = status
           \/ /\ pc[s] = "commit"
              /\ status' = [a \in Attachments |-> IF a \in batch[s] THEN "uploading" ELSE status[a]]
    BY <1>2 DEF Crash, MarkUploading
  <2>2. Held(s)' = {} /\ \A t \in Servers \ {s} : Held(t)' = Held(t)
    BY <2>1 DEF Held, TypeOK
  <2>3. pc[s] = "commit" => \A a \in batch[s] : life[a] = "live"
    BY DEF Held, HeldRowByPc, Ready, Claimable, JobsWherePcSays
  <2>4. JobsWherePcSays'
    BY <2>1, <2>3 DEF JobsWherePcSays, InProcessJob, TypeOK
  <2>5. ASSUME NEW t \in Servers \ {s}, NEW a \in Held(t)
        PROVE  IF pc'[t] = "commit" THEN a \in Ready'
                                    ELSE status'[a] = "uploading" \/ life'[a] = "deleted"
    <3>1. a \notin batch[s] /\ a \in Attachments
      BY <2>5 DEF ExclusiveJobs, Held, TypeOK
    <3>2. status'[a] = status[a] /\ pc'[t] = pc[t]
      BY <2>1, <3>1 DEF TypeOK
    <3> QED
      BY <2>1, <2>5, <3>1, <3>2 DEF HeldRowByPc, Ready
  <2>6. HeldRowByPc'
    BY <2>2, <2>5 DEF HeldRowByPc
  <2> QED
    BY <2>2, <2>4, <2>6, HeldShrinks
<1>3. ASSUME NEW a \in Attachments, Elapse(a)
      PROVE  Ownership'
  <2>1. UNCHANGED <<life, status, pc, batch, job>> /\ cooling' \subseteq cooling
    BY <1>3 DEF Elapse, workerVars
  <2>2. \A t \in Servers : Held(t)' = Held(t)
    BY <2>1 DEF Held
  <2> QED
    BY <2>1, <2>2, HeldShrinks DEF JobsWherePcSays, HeldRowByPc, Ready
<1>4. CASE Connect \/ Disconnect
  <2>1. UNCHANGED <<life, status, cooling, pc, batch, job>>
    BY <1>4 DEF Connect, Disconnect, rowVars, workerVars
  <2> QED
    BY <2>1, OwnershipUnchanged
<1>5. CASE Requeue
  <2>1. /\ UNCHANGED <<life, pc, batch, job>>
        /\ Requeued \cap Locked = {}
        /\ status' = [a \in Attachments |-> IF a \in Requeued THEN "pending" ELSE status[a]]
        /\ cooling' = cooling \ Requeued
    BY <1>5 DEF Requeue, workerVars
  <2>2. \A t \in Servers : Held(t)' = Held(t)
    BY <2>1 DEF Held
  <2>3. JobsWherePcSays'
    BY <2>1 DEF JobsWherePcSays, Requeued, TypeOK
  <2>4. ASSUME NEW t \in Servers, NEW a \in Held(t)
        PROVE  a \in Attachments /\ (a \notin Requeued \/ life[a] = "deleted")
    <3>1. CASE pc[t] = "commit"
      <4>1. job[t] = NoJob /\ batch[t] \subseteq Locked
        BY <3>1 DEF JobsWherePcSays, InProcessJob, Locked
      <4> QED
        BY <2>1, <2>4, <4>1 DEF Held, TypeOK
    <3>2. CASE pc[t] # "commit"
      BY <2>4, <3>2 DEF HeldRowByPc, Requeued, Held, TypeOK
    <3> QED
      BY <3>1, <3>2
  <2>5. HeldRowByPc'
    <3>1. ASSUME NEW t \in Servers, NEW a \in Held(t)
          PROVE  IF pc[t] = "commit" THEN a \in Ready'
                                     ELSE status'[a] = "uploading" \/ life[a] = "deleted"
      BY <2>1, <2>4, <3>1 DEF HeldRowByPc, Ready, JobsWherePcSays, Claimable
    <3> QED
      BY <2>1, <2>2, <3>1 DEF HeldRowByPc
  <2> QED
    BY <2>2, <2>3, <2>5, HeldShrinks
<1> QED
  BY <1>1, <1>2, <1>3, <1>4, <1>5 DEF FaultStep, AdminStep

\* Only a claim locks more rows, and it skips those of open saves; only a save
\* locks more attachments, and it waits for open claims.
LEMMA NextLocks == TypeOK /\ LocksAreExclusive /\ [Next]_vars => LocksAreExclusive'
<1> SUFFICES ASSUME TypeOK, LocksAreExclusive, [Next]_vars PROVE LocksAreExclusive'
  OBVIOUS
<1> USE DEF queueVars, workerVars
<1>1. ASSUME Locked' \subseteq Locked, SaveLocked' \subseteq SaveLocked
      PROVE  LocksAreExclusive'
  BY <1>1 DEF LocksAreExclusive
<1>2. ASSUME UNCHANGED locking
      PROVE  SaveLocked' = SaveLocked
  BY <1>2 DEF SaveLocked
<1>3. ASSUME NEW s \in Servers, NEW next, pc' = [pc EXCEPT ![s] = next], next # "commit",
             \A t \in Servers : batch'[t] \subseteq batch[t]
      PROVE  Locked' \subseteq Locked
  BY <1>3 DEF Locked, TypeOK
<1>4. ASSUME UNCHANGED <<pc, batch>>
      PROVE  Locked' = Locked
  BY <1>4 DEF Locked
<1>5. ASSUME NEW s \in Servers, RequestStep(s)
      PROVE  LocksAreExclusive'
  <2>1. Locked' = Locked
    BY <1>4, <1>5 DEF RequestStep, SavePost, LockVideo, RollBack, InsertRow, InsertRowFails, Signal
  <2>2. ASSUME NEW a \in Attachments, LockVideo(s, a)
        PROVE  LocksAreExclusive'
    <3>1. a \notin Locked /\ SaveLocked' \subseteq SaveLocked \cup {a}
      BY <2>2 DEF LockVideo, SaveLocked, TypeOK
    <3> QED
      BY <2>1, <3>1 DEF LocksAreExclusive
  <2>3. ASSUME NEW a \in Attachments, InsertRow(s, a) \/ InsertRowFails(s, a)
        PROVE  LocksAreExclusive'
    BY <1>1, <1>2, <2>1, <2>3 DEF InsertRow, InsertRowFails
  <2>4. CASE Signal(s)
    BY <1>1, <1>2, <2>1, <2>4 DEF Signal
  <2>5. ASSUME locking' = [locking EXCEPT ![s] = {}]
        PROVE  LocksAreExclusive'
    <3>1. SaveLocked' \subseteq SaveLocked
      BY <2>5 DEF SaveLocked, TypeOK
    <3> QED
      BY <1>1, <2>1, <3>1
  <2> QED
    BY <1>5, <2>2, <2>3, <2>4, <2>5 DEF RequestStep, RollBack, SavePost, ReplaceVideos
<1>6. ASSUME NEW s \in Servers, ClaimRows(s)
      PROVE  LocksAreExclusive'
  <2>1. PICK S \in SUBSET (Ready \ Skipped) : batch' = [batch EXCEPT ![s] = S]
    BY <1>6 DEF ClaimRows
  <2>2. Locked' \subseteq Locked \cup S
    BY <1>6, <2>1 DEF ClaimRows, Locked, TypeOK
  <2>3. SaveLocked' = SaveLocked
    BY <1>2, <1>6 DEF ClaimRows
  <2> QED
    BY <2>1, <2>2, <2>3 DEF LocksAreExclusive, Skipped
<1>7. ASSUME NEW s \in Servers, WakeByTicker(s) \/ WakeByTrigger(s) \/ (BatchStep(s) /\ ~ClaimRows(s))
      PROVE  LocksAreExclusive'
  <2>1. /\ \E next \in {"claim", "select", "loop", "prepare"} : pc' = [pc EXCEPT ![s] = next]
        /\ \A t \in Servers : batch'[t] \subseteq batch[t]
        /\ UNCHANGED locking
    BY <1>7 DEF WakeByTicker, WakeByTrigger, BatchStep, CommitClaim, ClaimFails, NextJob, BatchDone, TypeOK
  <2> QED
    BY <1>1, <1>2, <1>3, <2>1
<1>8. ASSUME NEW s \in Servers, JobStep(s)
      PROVE  LocksAreExclusive'
  <2>1. /\ \E next \in {"upload", "mark", "fail", "loop"} : pc' = [pc EXCEPT ![s] = next]
        /\ UNCHANGED <<batch, locking>>
    BY <1>8 DEF JobStep, Prepare, PrepareFails, Upload, UploadFails, Fails, MarkUploaded, MarkBlocked,
                MarkFailed, MarkFails, JobOver
  <2> QED
    BY <1>1, <1>2, <1>3, <2>1
<1>9. ASSUME NEW s \in Servers, FaultStep(s)
      PROVE  LocksAreExclusive'
  <2>1. CASE Expire(s)
    BY <1>1, <1>2, <1>4, <2>1 DEF Expire
  <2>2. CASE Crash(s)
    <3>1. SaveLocked' \subseteq SaveLocked
      BY <2>2 DEF Crash, SaveLocked, TypeOK
    <3>2. pc' = [pc EXCEPT ![s] = "down"] /\ \A t \in Servers : batch'[t] \subseteq batch[t]
      BY <2>2 DEF Crash, TypeOK
    <3> QED
      BY <1>1, <1>3, <3>1, <3>2
  <2>3. CASE Restart(s)
    BY <1>1, <1>2, <1>3, <2>3 DEF Restart
  <2> QED
    BY <1>9, <2>1, <2>2, <2>3 DEF FaultStep
<1>10. CASE AdminStep \/ (\E a \in Attachments : Elapse(a)) \/ UNCHANGED vars
  BY <1>1, <1>2, <1>4, <1>10 DEF AdminStep, Connect, Disconnect, Requeue, Elapse, vars
<1> QED
  BY <1>5, <1>6, <1>7, <1>8, <1>9, <1>10 DEF Next, BatchStep

LEMMA NextOwnership == TypeOK /\ LocksAreExclusive /\ Ownership /\ [Next]_vars => Ownership'
<1> SUFFICES ASSUME TypeOK, LocksAreExclusive, Ownership, [Next]_vars PROVE Ownership'
  OBVIOUS
<1>1. CASE Next
  BY <1>1, RequestOwnership, BatchOwnership, JobOwnership, OtherOwnership DEF Next
<1>2. CASE UNCHANGED vars
  <2>1. UNCHANGED <<life, status, cooling, pc, batch, job>>
    BY <1>2 DEF vars, rowVars, workerVars
  <2> QED
    BY <2>1, OwnershipUnchanged
<1> QED
  BY <1>1, <1>2
-----------------------------------------------------------------------------
(* Files: how many copies Drive holds, and which one is recorded.          *)

FilesInv ==
  ResultIsLast /\ RecordedFileIsLast /\ CopiesBeforeUpload /\ CopiesNeedLostResponses

\* The attachments that may be uploaded again.
Uploadable(a) == status[a] \notin {"uploading", "uploaded"} /\ life[a] # "deleted"

\* Steps that create no file, record none and make uploadable only what has no
\* unreported file preserve FilesInv.
LEMMA FilesStable ==
  ASSUME FilesInv, UNCHANGED driveVars,
         \A t \in Servers : pc'[t] = "mark" =>
           pc[t] = "mark" /\ result'[t] = result[t] /\ job'[t] = job[t],
         \A a \in Attachments : status'[a] = "uploaded" =>
           status[a] = "uploaded" /\ fileId'[a] = fileId[a],
         \A a \in Attachments : Uploadable(a)' => Uploadable(a) \/ files[a] <= lost[a],
         \A t \in Servers : \A a \in Held(t)' :
           \/ a \in Held(t) /\ (HasFile(t, a) => HasFile(t, a)')
           \/ files[a] <= lost[a]
  PROVE  FilesInv'
<1> USE DEF FilesInv, driveVars
<1>1. ResultIsLast'
  BY DEF ResultIsLast
<1>2. RecordedFileIsLast'
  BY DEF RecordedFileIsLast
<1>3. CopiesNeedLostResponses'
  BY DEF CopiesNeedLostResponses
<1>4. \A a \in Attachments : Uploadable(a)' => files'[a] <= lost'[a]
  BY DEF CopiesBeforeUpload, Uploadable
<1>5. \A t \in Servers : \A a \in Held(t)' : HasFile(t, a)' \/ files'[a] <= lost'[a]
  BY DEF CopiesBeforeUpload
<1> QED
  BY <1>1, <1>2, <1>3, <1>4, <1>5 DEF CopiesBeforeUpload, Uploadable

LEMMA FilesUnchanged ==
  ASSUME FilesInv,
         UNCHANGED <<driveVars, life, status, fileId, batch, job, result>>,
         \A t \in Servers : pc'[t] = "mark" <=> pc[t] = "mark"
  PROVE  FilesInv'
<1>1. \A t \in Servers : Held(t)' = Held(t) /\ \A a \in Held(t) : HasFile(t, a)' <=> HasFile(t, a)
  BY DEF Held, HasFile
<1>2. \A a \in Attachments : Uploadable(a)' <=> Uploadable(a)
  BY DEF Uploadable
<1> QED
  BY <1>1, <1>2, FilesStable

LEMMA RequestFiles ==
  ASSUME TypeOK, Ownership, FilesInv, NEW s \in Servers, RequestStep(s)
  PROVE  FilesInv'
<1>1. UNCHANGED <<driveVars, pc, batch, job, result>>
  BY DEF RequestStep, SavePost, ReplaceVideos, LockVideo, RollBack, InsertRow, InsertRowFails, Signal,
         workerVars
<1>2. \A t \in Servers : Held(t)' = Held(t) /\ \A a \in Held(t) : HasFile(t, a)' <=> HasFile(t, a)
  BY <1>1 DEF Held, HasFile
<1>3. ASSUME NEW p \in Posts, NEW New \in SUBSET Attachments,
             NEW Gone \in SUBSET Attachments, SavePost(s, p, New, Gone)
      PROVE  FilesInv'
  <2>1. \A a \in Attachments : Uploadable(a)' => Uploadable(a)
    BY <1>3 DEF SavePost, ReplaceVideos, Videos, Uploadable
  <2>2. \A a \in Attachments : status'[a] = "uploaded" =>
           status[a] = "uploaded" /\ fileId'[a] = fileId[a]
    BY <1>3 DEF SavePost, ReplaceVideos
  <2> QED
    BY <1>1, <1>2, <2>1, <2>2, FilesStable
<1>4. ASSUME NEW a \in Attachments, InsertRow(s, a)
      PROVE  FilesInv'
  <2>1. \A b \in Attachments : Uploadable(b)' => Uploadable(b)
    BY <1>4 DEF InsertRow, Uploadable, TypeOK
  <2>2. \A b \in Attachments : status'[b] = "uploaded" =>
           status[b] = "uploaded" /\ fileId'[b] = fileId[b]
    BY <1>4 DEF InsertRow, TypeOK
  <2> QED
    BY <1>1, <1>2, <2>1, <2>2, FilesStable
<1>5. ASSUME NEW a \in Attachments, InsertRowFails(s, a)
      PROVE  FilesInv'
  BY <1>1, <1>5, FilesUnchanged DEF InsertRowFails, rowVars
<1>6. CASE Signal(s)
  BY <1>1, <1>6, FilesUnchanged DEF Signal, rowVars
<1>7. ASSUME NEW a \in Attachments, LockVideo(s, a)
      PROVE  FilesInv'
  BY <1>1, <1>7, FilesUnchanged DEF LockVideo, rowVars
<1>8. CASE RollBack(s)
  BY <1>1, <1>8, FilesUnchanged DEF RollBack, rowVars
<1> QED
  BY <1>3, <1>4, <1>5, <1>6, <1>7, <1>8 DEF RequestStep

LEMMA BatchFiles ==
  ASSUME TypeOK, Ownership, FilesInv, NEW s \in Servers,
         WakeByTicker(s) \/ WakeByTrigger(s) \/ BatchStep(s)
  PROVE  FilesInv'
<1>1. CASE WakeByTicker(s) \/ WakeByTrigger(s) \/ BatchDone(s)
  <2>1. UNCHANGED <<driveVars, life, status, fileId, batch, job, result>>
    BY <1>1 DEF WakeByTicker, WakeByTrigger, BatchDone, rowVars
  <2>2. \A t \in Servers : pc'[t] = "mark" <=> pc[t] = "mark"
    BY <1>1 DEF WakeByTicker, WakeByTrigger, BatchDone, TypeOK
  <2> QED
    BY <2>1, <2>2, FilesUnchanged
<1>2. CASE ClaimRows(s)
  <2>1. /\ pc[s] = "claim" /\ pc' = [pc EXCEPT ![s] = "commit"]
        /\ \E S \in SUBSET (Ready \ Skipped) : batch' = [batch EXCEPT ![s] = S]
        /\ UNCHANGED <<driveVars, life, status, fileId, job, result>>
    BY <1>2 DEF ClaimRows, rowVars
  <2>2. \A a \in Ready : files[a] <= lost[a]
    BY DEF Ready, Claimable, FilesInv, CopiesBeforeUpload, Ownership, JobsWherePcSays
  <2>3. \A t \in Servers : pc'[t] = "mark" <=> pc[t] = "mark"
    BY <2>1 DEF TypeOK
  <2>4. \A t \in Servers : \A a \in Held(t)' : a \in Held(t) \/ a \in Ready
    BY <2>1 DEF Held, TypeOK
  <2>5. \A t \in Servers : \A a \in Held(t) : HasFile(t, a)' <=> HasFile(t, a)
    BY <2>1, <2>3 DEF HasFile
  <2>6. \A a \in Attachments : Uploadable(a)' <=> Uploadable(a)
    BY <2>1 DEF Uploadable
  <2> QED
    BY <2>1, <2>2, <2>3, <2>4, <2>5, <2>6, FilesStable
<1>3. CASE CommitClaim(s) \/ ClaimFails(s)
  <2>0. \A a \in Attachments : status'[a] \in {status[a], "uploading"}
    BY <1>3 DEF CommitClaim, ClaimFails, MarkUploading
  <2>1. /\ pc[s] \in {"claim", "commit"}
        /\ \E next \in {"select", "loop"} : pc' = [pc EXCEPT ![s] = next]
        /\ \A a \in Attachments : status'[a] \in {status[a], "uploading"}
        /\ \A t \in Servers : batch'[t] \subseteq batch[t]
        /\ UNCHANGED <<driveVars, life, fileId, job, result>>
    BY <1>3, <2>0 DEF CommitClaim, ClaimFails, TypeOK
  <2>2. \A t \in Servers : pc'[t] = "mark" <=> pc[t] = "mark"
    BY <2>1 DEF TypeOK
  <2>3. \A t \in Servers : \A a \in Held(t)' : a \in Held(t) /\ (HasFile(t, a)' <=> HasFile(t, a))
    BY <2>1, <2>2 DEF Held, HasFile
  <2>4. \A a \in Attachments : Uploadable(a)' => Uploadable(a)
    BY <2>1 DEF Uploadable
  <2> QED
    BY <2>1, <2>2, <2>3, <2>4, FilesStable
<1>4. CASE NextJob(s)
  <2>1. PICK a \in batch[s] : /\ job' = [job EXCEPT ![s] = a]
                             /\ batch' = [batch EXCEPT ![s] = @ \ {a}]
    BY <1>4 DEF NextJob
  <2>2. /\ pc[s] = "loop" /\ pc' = [pc EXCEPT ![s] = "prepare"]
        /\ UNCHANGED <<driveVars, life, status, fileId, result>>
    BY <1>4 DEF NextJob, rowVars
  <2>3. \A t \in Servers : pc'[t] = "mark" => pc[t] = "mark" /\ t # s
    BY <2>2 DEF TypeOK
  <2>4. \A t \in Servers : \A b \in Held(t)' : b \in Held(t) /\ (HasFile(t, b) => HasFile(t, b)')
    BY <2>1, <2>2 DEF Held, HasFile, TypeOK
  <2>5. \A b \in Attachments : Uploadable(b)' <=> Uploadable(b)
    BY <2>2 DEF Uploadable
  <2>6. \A t \in Servers \ {s} : job'[t] = job[t]
    BY <2>1 DEF TypeOK
  <2> QED
    BY <2>2, <2>3, <2>4, <2>5, <2>6, FilesStable
<1> QED
  BY <1>1, <1>2, <1>3, <1>4 DEF BatchStep
\* In processJob the job is held, and is nobody else's.
LEMMA JobIsHeld ==
  ASSUME TypeOK, Ownership, NEW s \in Servers, pc[s] \in InProcessJob
  PROVE  /\ job[s] \in Attachments /\ job[s] \in Held(s)
         /\ \A t \in Servers \ {s} : job[s] \notin Held(t) /\ job[t] # job[s]
         /\ status[job[s]] = "uploading" \/ life[job[s]] = "deleted"
<1>1. job[s] \in Attachments /\ job[s] # NoJob
  BY DriveSyncAssumption DEF Ownership, JobsWherePcSays, TypeOK
<1>2. job[s] \in Held(s)
  BY <1>1 DEF Held
<1>3. \A t \in Servers \ {s} : job[s] \notin Held(t) /\ job[t] # job[s]
  BY <1>1, <1>2 DEF Ownership, ExclusiveJobs, Held
<1>4. status[job[s]] = "uploading" \/ life[job[s]] = "deleted"
  BY <1>2 DEF Ownership, HeldRowByPc, InProcessJob
<1> QED
  BY <1>1, <1>2, <1>3, <1>4

\* A file is created for the job of a worker that had none for it.
LEMMA FileCreated ==
  ASSUME TypeOK, Ownership, FilesInv, NEW s \in Servers, pc[s] = "upload",
         files' = [files EXCEPT ![job[s]] = @ + 1],
         UNCHANGED <<life, status, fileId>>
  PROVE  /\ \A t \in Servers \ {s} : pc[t] = "mark" => files'[job[t]] = files[job[t]]
         /\ RecordedFileIsLast'
         /\ \A a \in Attachments : a # job[s] => files'[a] = files[a]
         /\ files'[job[s]] = files[job[s]] + 1
         /\ files[job[s]] <= lost[job[s]]
<1>1. pc[s] \in InProcessJob
  BY DEF InProcessJob
<1>2. /\ job[s] \in Attachments /\ job[s] \in Held(s)
      /\ \A t \in Servers \ {s} : job[s] \notin Held(t) /\ job[t] # job[s]
      /\ status[job[s]] = "uploading" \/ life[job[s]] = "deleted"
  BY <1>1, JobIsHeld
<1>3. status[job[s]] # "uploaded"
  BY <1>2 DEF Ownership, JobsWherePcSays
<1>4. /\ \A a \in Attachments : a # job[s] => files'[a] = files[a]
      /\ files'[job[s]] = files[job[s]] + 1
  BY <1>2 DEF TypeOK
<1>5. files[job[s]] <= lost[job[s]]
  BY <1>2 DEF FilesInv, CopiesBeforeUpload, HasFile
<1>6. RecordedFileIsLast'
  BY <1>3, <1>4 DEF FilesInv, RecordedFileIsLast
<1>7. ASSUME NEW t \in Servers \ {s}, pc[t] = "mark"
      PROVE  files'[job[t]] = files[job[t]]
  <2>1. pc[t] \in InProcessJob
    BY <1>7 DEF InProcessJob
  <2> QED
    BY <1>2, <1>4, <2>1, JobIsHeld
<1> QED
  BY <1>4, <1>5, <1>6, <1>7

LEMMA JobFiles ==
  ASSUME TypeOK, Ownership, FilesInv, NEW s \in Servers, JobStep(s)
  PROVE  FilesInv'
<1>1. CASE Prepare(s) \/ PrepareFails(s)
  <2>1. UNCHANGED <<driveVars, life, status, fileId, batch, job, result>>
    BY <1>1 DEF Prepare, PrepareFails, Fails, rowVars
  <2>2. \A t \in Servers : pc'[t] = "mark" <=> pc[t] = "mark"
    BY <1>1 DEF Prepare, PrepareFails, Fails, TypeOK
  <2> QED
    BY <2>1, <2>2, FilesUnchanged
<1>2. CASE Upload(s)
  <2>1. /\ pc[s] = "upload" /\ pc' = [pc EXCEPT ![s] = "mark"]
        /\ files' = [files EXCEPT ![job[s]] = @ + 1]
        /\ result' = [result EXCEPT ![s] = files[job[s]] + 1]
        /\ UNCHANGED <<lost, life, status, fileId, batch, job>>
    BY <1>2 DEF Upload, rowVars
  <2>2. /\ \A t \in Servers \ {s} : pc[t] = "mark" => files'[job[t]] = files[job[t]]
        /\ RecordedFileIsLast'
        /\ \A a \in Attachments : a # job[s] => files'[a] = files[a]
        /\ files'[job[s]] = files[job[s]] + 1
        /\ files[job[s]] <= lost[job[s]]
    BY <2>1, FileCreated
  <2>3. /\ job[s] \in Attachments
        /\ \A t \in Servers \ {s} : job[s] \notin Held(t)
        /\ status[job[s]] = "uploading" \/ life[job[s]] = "deleted"
    BY <2>1, JobIsHeld DEF InProcessJob
  <2>4. ResultIsLast'
    BY <2>1, <2>2, <2>3 DEF FilesInv, ResultIsLast, TypeOK
  <2>5. CopiesNeedLostResponses'
    BY <2>1, <2>2, <2>3 DEF FilesInv, CopiesNeedLostResponses, TypeOK
  <2>6. \A a \in Attachments : Uploadable(a)' => files'[a] <= lost'[a]
    BY <2>1, <2>2, <2>3 DEF FilesInv, CopiesBeforeUpload, Uploadable
  <2>7. ASSUME NEW t \in Servers, NEW a \in Held(t)
        PROVE  HasFile(t, a)' \/ files'[a] <= lost'[a]
    <3>1. a \in Attachments
      BY DEF Held, TypeOK
    <3>2. CASE a = job[s]
      BY <2>1, <2>3, <3>2 DEF HasFile, TypeOK
    <3>3. CASE a # job[s]
      BY <2>1, <2>2, <3>1, <3>3 DEF FilesInv, CopiesBeforeUpload, HasFile, TypeOK
    <3> QED
      BY <3>2, <3>3
  <2>8. \A t \in Servers : Held(t)' = Held(t)
    BY <2>1 DEF Held
  <2> QED
    BY <2>2, <2>4, <2>5, <2>6, <2>7, <2>8 DEF FilesInv, CopiesBeforeUpload, Uploadable
<1>3. CASE UploadFails(s) /\ UNCHANGED driveVars
  <2>1. UNCHANGED <<driveVars, life, status, fileId, batch, job, result>>
    BY <1>3 DEF UploadFails, rowVars
  <2>2. \A t \in Servers : pc'[t] = "mark" <=> pc[t] = "mark"
    BY <1>3 DEF UploadFails, Fails, TypeOK
  <2> QED
    BY <2>1, <2>2, FilesUnchanged
<1>4. CASE UploadFails(s) /\ ~UNCHANGED driveVars
  <2>1. /\ pc[s] = "upload" /\ pc' = [pc EXCEPT ![s] = "fail"]
        /\ files' = [files EXCEPT ![job[s]] = @ + 1]
        /\ lost' = [lost EXCEPT ![job[s]] = @ + 1]
        /\ UNCHANGED <<life, status, fileId, batch, job, result>>
    BY <1>4 DEF UploadFails, Fails, rowVars
  <2>2. /\ \A t \in Servers \ {s} : pc[t] = "mark" => files'[job[t]] = files[job[t]]
        /\ RecordedFileIsLast'
        /\ \A a \in Attachments : a # job[s] => files'[a] = files[a]
        /\ files'[job[s]] = files[job[s]] + 1
        /\ files[job[s]] <= lost[job[s]]
    BY <2>1, FileCreated
  <2>3. job[s] \in Attachments
    BY <2>1, JobIsHeld DEF InProcessJob
  <2>4. /\ \A a \in Attachments : a # job[s] => lost'[a] = lost[a]
        /\ lost'[job[s]] = lost[job[s]] + 1
    BY <2>1, <2>3 DEF TypeOK
  <2>5. \A a \in Attachments :
          (files[a] <= lost[a] => files'[a] <= lost'[a])
          /\ (files[a] <= lost[a] + 1 => files'[a] <= lost'[a] + 1)
    BY <2>2, <2>3, <2>4 DEF TypeOK
  <2>6. ResultIsLast'
    BY <2>1, <2>2 DEF FilesInv, ResultIsLast, TypeOK
  <2>7. CopiesNeedLostResponses'
    BY <2>5 DEF FilesInv, CopiesNeedLostResponses
  <2>8. \A a \in Attachments : Uploadable(a)' => files'[a] <= lost'[a]
    BY <2>1, <2>5 DEF FilesInv, CopiesBeforeUpload, Uploadable
  <2>9. \A t \in Servers : \A a \in Held(t) : HasFile(t, a)' \/ files'[a] <= lost'[a]
    BY <2>1, <2>5 DEF FilesInv, CopiesBeforeUpload, HasFile, Held, TypeOK
  <2>10. \A t \in Servers : Held(t)' = Held(t)
    BY <2>1 DEF Held
  <2> QED
    BY <2>2, <2>6, <2>7, <2>8, <2>9, <2>10 DEF FilesInv, CopiesBeforeUpload, Uploadable
<1>5. CASE MarkUploaded(s)
  <2>1. /\ pc[s] = "mark" /\ pc' = [pc EXCEPT ![s] = "loop"]
        /\ \/ /\ status' = [status EXCEPT ![job[s]] = "uploaded"]
              /\ fileId' = [fileId EXCEPT ![job[s]] = result[s]]
           \/ UNCHANGED <<status, fileId>>
        /\ job' = [job EXCEPT ![s] = NoJob]
        /\ \A t \in Servers \ {s} : result'[t] = result[t]
        /\ UNCHANGED <<driveVars, life, batch>>
    BY <1>5 DEF MarkUploaded, JobOver, TypeOK
  <2>2. job[s] \in Attachments
    BY <2>1, JobIsHeld DEF InProcessJob
  <2>3. ResultIsLast'
    BY <2>1 DEF FilesInv, ResultIsLast, TypeOK, driveVars
  <2>4. result[s] = files[job[s]] /\ files[job[s]] > 0
    BY <2>1 DEF FilesInv, ResultIsLast
  <2>5. RecordedFileIsLast'
    BY <2>1, <2>2, <2>4 DEF FilesInv, RecordedFileIsLast, TypeOK, driveVars
  <2>6. CopiesNeedLostResponses'
    BY <2>1 DEF FilesInv, CopiesNeedLostResponses, driveVars
  <2>7. \A a \in Attachments : Uploadable(a)' => Uploadable(a)
    BY <2>1, <2>2 DEF Uploadable, TypeOK
  <2>8. \A t \in Servers : Held(t)' \subseteq Held(t)
    BY <2>1 DEF Held, TypeOK
  <2>9. \A a \in Held(s)' : ~HasFile(s, a)
    BY <2>1, <2>2, DriveSyncAssumption DEF Held, HasFile, TypeOK, Ownership, JobsWherePcSays
  <2>10. \A t \in Servers \ {s} : \A a \in Held(t) : HasFile(t, a) => HasFile(t, a)'
    BY <2>1 DEF HasFile, TypeOK
  <2>11. \A t \in Servers : \A a \in Held(t)' : HasFile(t, a)' \/ files[a] <= lost[a]
    BY <2>8, <2>9, <2>10 DEF FilesInv, CopiesBeforeUpload
  <2> QED
    BY <2>1, <2>3, <2>5, <2>6, <2>7, <2>11 DEF FilesInv, CopiesBeforeUpload, Uploadable, driveVars
<1>6. CASE MarkBlocked(s) \/ MarkFailed(s) \/ MarkFails(s)
  <2>1. /\ pc[s] \in {"mark", "fail"} /\ pc' = [pc EXCEPT ![s] = "loop"]
        /\ \/ status' = status
           \/ /\ pc[s] = "fail"
              /\ \E new \in {"blocked", "failed"} :
                   status' = [status EXCEPT ![job[s]] = IF HasRow(job[s]) THEN new ELSE @]
        /\ job' = [job EXCEPT ![s] = NoJob]
        /\ \A t \in Servers \ {s} : result'[t] = result[t]
        /\ UNCHANGED <<driveVars, life, fileId, batch>>
    BY <1>6 DEF MarkBlocked, MarkFailed, MarkFails, JobOver, rowVars, HasRow, TypeOK
  <2>2. job[s] \in Attachments /\ job[s] \in Held(s)
    BY <2>1, JobIsHeld DEF InProcessJob
  <2>3. pc[s] = "fail" => files[job[s]] <= lost[job[s]]
    BY <2>2 DEF FilesInv, CopiesBeforeUpload, HasFile
  <2>4. \A t \in Servers : pc'[t] = "mark" => pc[t] = "mark" /\ t # s /\ job'[t] = job[t]
    BY <2>1 DEF TypeOK
  <2>5. \A a \in Attachments : status'[a] = "uploaded" => status[a] = "uploaded"
    BY <2>1, <2>2 DEF TypeOK
  <2>6. \A a \in Attachments : Uploadable(a)' => Uploadable(a) \/ files[a] <= lost[a]
    BY <2>1, <2>2, <2>3 DEF Uploadable, TypeOK
  <2>7. \A t \in Servers : Held(t)' \subseteq Held(t)
    BY <2>1 DEF Held, TypeOK
  <2>8. \A a \in Held(s)' : ~HasFile(s, a)
    BY <2>1, <2>2, DriveSyncAssumption DEF Held, HasFile, TypeOK, Ownership, JobsWherePcSays
  <2>9. \A t \in Servers \ {s} : \A a \in Held(t) : HasFile(t, a) => HasFile(t, a)'
    BY <2>1 DEF HasFile, TypeOK
  <2> QED
    BY <2>1, <2>4, <2>5, <2>6, <2>7, <2>8, <2>9, FilesStable
<1> QED
  BY <1>1, <1>2, <1>3, <1>4, <1>5, <1>6 DEF JobStep
LEMMA OtherFiles ==
  ASSUME TypeOK, Ownership, FilesInv,
         \/ \E s \in Servers : FaultStep(s)
         \/ \E a \in Attachments : Elapse(a)
         \/ AdminStep
  PROVE  FilesInv'
<1>1. ASSUME NEW s \in Servers, Expire(s) \/ Restart(s)
      PROVE  FilesInv'
  <2>1. UNCHANGED <<driveVars, life, status, fileId, batch, job, result>>
    BY <1>1 DEF Expire, Restart, rowVars
  <2>2. \A t \in Servers : pc'[t] = "mark" <=> pc[t] = "mark"
    BY <1>1 DEF Expire, Restart, TypeOK
  <2> QED
    BY <2>1, <2>2, FilesUnchanged
<1>2. ASSUME NEW s \in Servers, Crash(s)
      PROVE  FilesInv'
  <2>1. /\ pc' = [pc EXCEPT ![s] = "down"]
        /\ \A t \in Servers \ {s} : result'[t] = result[t] /\ job'[t] = job[t] /\ batch'[t] = batch[t]
        /\ job'[s] = NoJob /\ batch'[s] = {}
        /\ UNCHANGED <<life, fileId, lost>>
    BY <1>2 DEF Crash, TypeOK
  <2>2. \A a \in Attachments : status'[a] \in {status[a], "uploading"}
    BY <1>2 DEF Crash, MarkUploading, TypeOK
  <2>3. Held(s)' = {} /\ \A t \in Servers \ {s} : Held(t)' = Held(t)
    BY <2>1 DEF Held
  <2>4. \A t \in Servers : pc'[t] = "mark" => pc[t] = "mark" /\ t # s
    BY <2>1 DEF TypeOK
  <2>5. \A t \in Servers \ {s} : \A a \in Held(t) : HasFile(t, a)' <=> HasFile(t, a)
    BY <2>1 DEF HasFile, TypeOK
  <2>6. \A a \in Attachments : Uploadable(a)' => Uploadable(a)
    BY <2>1, <2>2 DEF Uploadable
  <2>7. CASE UNCHANGED files
    BY <2>1, <2>2, <2>3, <2>4, <2>5, <2>6, <2>7, FilesStable DEF driveVars
  <2>8. CASE ~UNCHANGED files
    <3>1. /\ pc[s] = "upload"
          /\ files' = [files EXCEPT ![job[s]] = @ + 1]
          /\ UNCHANGED <<life, status, fileId>>
      BY <1>2, <2>8 DEF Crash
    <3>2. /\ \A t \in Servers \ {s} : pc[t] = "mark" => files'[job[t]] = files[job[t]]
          /\ RecordedFileIsLast'
          /\ \A a \in Attachments : a # job[s] => files'[a] = files[a]
          /\ files'[job[s]] = files[job[s]] + 1
          /\ files[job[s]] <= lost[job[s]]
      BY <3>1, FileCreated
    <3>3. /\ job[s] \in Attachments
          /\ \A t \in Servers \ {s} : job[s] \notin Held(t)
          /\ status[job[s]] = "uploading" \/ life[job[s]] = "deleted"
      BY <3>1, JobIsHeld DEF InProcessJob
    <3>4. ResultIsLast'
      BY <2>1, <2>4, <3>2 DEF FilesInv, ResultIsLast
    <3>5. CopiesNeedLostResponses'
      BY <2>1, <3>2, <3>3 DEF FilesInv, CopiesNeedLostResponses, TypeOK
    <3>6. \A a \in Attachments : Uploadable(a)' => files'[a] <= lost'[a]
      BY <2>1, <3>1, <3>2, <3>3 DEF FilesInv, CopiesBeforeUpload, Uploadable
    <3>7. ASSUME NEW t \in Servers, NEW a \in Held(t)'
          PROVE  HasFile(t, a)' \/ files'[a] <= lost'[a]
      <4>1. t # s /\ a \in Held(t) /\ a # job[s]
        BY <2>3, <3>3, <3>7
      <4>2. a \in Attachments
        BY <4>1 DEF Held, TypeOK
      <4> QED
        BY <2>1, <2>5, <3>2, <4>1, <4>2 DEF FilesInv, CopiesBeforeUpload
    <3> QED
      BY <3>2, <3>4, <3>5, <3>6, <3>7 DEF FilesInv, CopiesBeforeUpload, Uploadable
  <2> QED
    BY <2>7, <2>8
<1>3. ASSUME NEW a \in Attachments, Elapse(a)
      PROVE  FilesInv'
  BY <1>3, FilesUnchanged DEF Elapse, workerVars
<1>4. CASE Connect \/ Disconnect
  BY <1>4, FilesUnchanged DEF Connect, Disconnect, workerVars, rowVars
<1>5. CASE Requeue
  <2>1. /\ \A a \in Attachments : status'[a] # status[a] => status[a] \in {"blocked", "failed"}
        /\ \A a \in Attachments : status'[a] = "uploaded" => status[a] = "uploaded"
        /\ UNCHANGED <<driveVars, life, fileId, pc, batch, job, result>>
    BY <1>5 DEF Requeue, Requeued, workerVars
  <2>2. \A t \in Servers : Held(t)' = Held(t) /\ \A a \in Held(t) : HasFile(t, a)' <=> HasFile(t, a)
    BY <2>1 DEF Held, HasFile
  <2>3. \A a \in Attachments : Uploadable(a)' => Uploadable(a)
    BY <2>1 DEF Uploadable
  <2> QED
    BY <2>1, <2>2, <2>3, FilesStable
<1> QED
  BY <1>1, <1>2, <1>3, <1>4, <1>5 DEF FaultStep, AdminStep

LEMMA NextFiles == TypeOK /\ Ownership /\ FilesInv /\ [Next]_vars => FilesInv'
<1> SUFFICES ASSUME TypeOK, Ownership, FilesInv, [Next]_vars PROVE FilesInv'
  OBVIOUS
<1>1. CASE Next
  BY <1>1, RequestFiles, BatchFiles, JobFiles, OtherFiles DEF Next
<1>2. CASE UNCHANGED vars
  BY <1>2, FilesUnchanged DEF vars, rowVars, workerVars
<1> QED
  BY <1>1, <1>2

-----------------------------------------------------------------------------
(* The refinement.  What UploadQueue sees of a row is its phase and owner.  *)

\* Only a row in "uploading" has an owner, and its phase is read off its status.
LEMMA PhasesByStatus ==
  ASSUME NEW a
  PROVE  /\ status[a] = "none" => PhaseOf(a) = "absent" /\ OwnerOf(a) = NoJob
         /\ status[a] \in Claimable => PhaseOf(a) = "queued" /\ OwnerOf(a) = NoJob
         /\ status[a] = "uploaded" => PhaseOf(a) = "done" /\ OwnerOf(a) = NoJob
         /\ status[a] = "blocked" => PhaseOf(a) = "parked" /\ OwnerOf(a) = NoJob
         /\ status[a] = "uploading" /\ Holders(a) = {} => PhaseOf(a) = "stuck" /\ OwnerOf(a) = NoJob
  BY DEF PhaseOf, OwnerOf, Claimable

LEMMA PhasesByStatusNext ==
  ASSUME NEW a
  PROVE  /\ status'[a] = "none" => PhaseOf(a)' = "absent" /\ OwnerOf(a)' = NoJob
         /\ status'[a] \in Claimable => PhaseOf(a)' = "queued" /\ OwnerOf(a)' = NoJob
         /\ status'[a] = "uploaded" => PhaseOf(a)' = "done" /\ OwnerOf(a)' = NoJob
         /\ status'[a] = "blocked" => PhaseOf(a)' = "parked" /\ OwnerOf(a)' = NoJob
         /\ status'[a] = "uploading" /\ Holders(a)' = {} => PhaseOf(a)' = "stuck" /\ OwnerOf(a)' = NoJob
  BY DEF PhaseOf, OwnerOf, Claimable

\* The worker that holds a row in "uploading" is its owner: there is no other.
LEMMA HolderOwns ==
  ASSUME ExclusiveJobs, NEW s \in Servers, NEW a \in Held(s),
         pc[s] # "commit", status[a] = "uploading"
  PROVE  PhaseOf(a) = "running" /\ OwnerOf(a) = s
<1>1. Holders(a) = {s}
  BY DEF Holders, ExclusiveJobs
<1>2. PhaseOf(a) = "running"
  BY <1>1 DEF PhaseOf, Claimable
<1> QED
  BY <1>1, <1>2 DEF OwnerOf

LEMMA HolderOwnsNext ==
  ASSUME ExclusiveJobs', NEW s \in Servers, NEW a \in Held(s)',
         pc'[s] # "commit", status'[a] = "uploading"
  PROVE  PhaseOf(a)' = "running" /\ OwnerOf(a)' = s
<1>1. Holders(a)' = {s}
  BY DEF Holders, ExclusiveJobs
<1>2. PhaseOf(a)' = "running"
  BY <1>1 DEF PhaseOf, Claimable
<1> QED
  BY <1>1, <1>2 DEF OwnerOf

\* A row whose status and holders stay is where it was.
LEMMA Unmoved ==
  ASSUME TypeOK, NEW a \in Attachments, status'[a] = status[a],
         status[a] = "uploading" => Holders(a)' = Holders(a)
  PROVE  PhaseOf(a)' = PhaseOf(a) /\ OwnerOf(a)' = OwnerOf(a)
<1>1. PhaseOf(a)' = PhaseOf(a)
  BY DEF PhaseOf
<1>2. CASE status[a] = "uploading"
  BY <1>1, <1>2 DEF OwnerOf
<1>3. CASE status[a] # "uploading"
  <2>1. PhaseOf(a) # "running"
    BY <1>3 DEF PhaseOf, TypeOK, Statuses, Claimable
  <2> QED
    BY <1>1, <2>1 DEF OwnerOf
<1> QED
  BY <1>2, <1>3

LEMMA AllUnmoved ==
  ASSUME \A a \in Attachments : PhaseOf(a)' = PhaseOf(a) /\ OwnerOf(a)' = OwnerOf(a)
  PROVE  UNCHANGED Queue!vars
  BY DEF Queue!vars

\* A step that moves the rows of S and no other is a Move of the queue.
LEMMA Moved ==
  ASSUME NEW S \in SUBSET Attachments, S # {}, NEW from, NEW to, NEW w,
         \A a \in S : PhaseOf(a) \in from /\ PhaseOf(a)' = to /\ OwnerOf(a)' = w,
         \A a \in Attachments \ S : PhaseOf(a)' = PhaseOf(a) /\ OwnerOf(a)' = OwnerOf(a)
  PROVE  Queue!Move(S, from, to, w)
  BY DEF Queue!Move
-----------------------------------------------------------------------------
(* Steps the queue does not see.                                           *)

QueueStep == Queue!Next \/ UNCHANGED Queue!vars

LEMMA HoldersKept ==
  ASSUME NEW a, \A t \in Servers : a \in Held(t)' /\ pc'[t] # "commit" <=> a \in Held(t) /\ pc[t] # "commit"
  PROVE  Holders(a)' = Holders(a)
  BY DEF Holders

LEMMA QuietStep ==
  ASSUME TypeOK, UNCHANGED status,
         \A t \in Servers : Held(t)' = Held(t) /\ (pc'[t] = "commit" <=> pc[t] = "commit")
  PROVE  QueueStep
<1>1. \A a \in Attachments : Holders(a)' = Holders(a)
  BY HoldersKept
<1>2. \A a \in Attachments : PhaseOf(a)' = PhaseOf(a) /\ OwnerOf(a)' = OwnerOf(a)
  BY <1>1, Unmoved
<1> QED
  BY <1>2, AllUnmoved DEF QueueStep

LEMMA QuietSteps ==
  ASSUME TypeOK, Ownership, NEW s \in Servers,
         \/ \E a \in Attachments : LockVideo(s, a) \/ InsertRowFails(s, a) \/ Elapse(a)
         \/ RollBack(s) \/ Signal(s) \/ WakeByTicker(s) \/ WakeByTrigger(s)
         \/ NextJob(s) \/ BatchDone(s)
         \/ Prepare(s) \/ PrepareFails(s) \/ Upload(s) \/ UploadFails(s)
         \/ Expire(s) \/ Restart(s) \/ Connect \/ Disconnect
  PROVE  QueueStep
<1> USE DEF rowVars, workerVars
<1>1. CASE NextJob(s)
  <2>1. PICK a \in batch[s] : /\ job' = [job EXCEPT ![s] = a]
                              /\ batch' = [batch EXCEPT ![s] = @ \ {a}]
    BY <1>1 DEF NextJob
  <2>2. job[s] = NoJob /\ a \in Attachments /\ a # NoJob
    <3>1. job[s] = NoJob
      BY <1>1 DEF NextJob, Ownership, JobsWherePcSays, InProcessJob
    <3>2. a \in Attachments
      BY DEF TypeOK
    <3> QED
      BY <3>1, <3>2, DriveSyncAssumption
  <2>3. \A t \in Servers : Held(t)' = Held(t)
    BY <2>1, <2>2 DEF Held, TypeOK
  <2> QED
    BY <1>1, <2>3, QuietStep DEF NextJob, TypeOK
<1>2. CASE ~NextJob(s)
  <2>1. UNCHANGED <<status, batch, job>>
    BY <1>2 DEF LockVideo, RollBack, InsertRowFails, Elapse, Signal, WakeByTicker, WakeByTrigger,
                BatchDone, Prepare, PrepareFails, Upload, UploadFails, Expire, Restart, Connect, Disconnect
  <2>2. \A t \in Servers : pc'[t] = "commit" <=> pc[t] = "commit"
    BY <1>2 DEF LockVideo, RollBack, InsertRowFails, Elapse, Signal, WakeByTicker, WakeByTrigger,
                BatchDone, Prepare, Fails, PrepareFails, Upload, UploadFails, Expire, Restart, Connect, Disconnect, TypeOK
  <2> QED
    BY <2>1, <2>2, QuietStep DEF Held
<1> QED
  BY <1>1, <1>2

-----------------------------------------------------------------------------
(* Steps of requests and of the administrator.                             *)

LEMMA SavePostQueue ==
  ASSUME TypeOK, Ownership, NEW s \in Servers, NEW p \in Posts,
         NEW New \in SUBSET Attachments, NEW Gone \in SUBSET Attachments, SavePost(s, p, New, Gone)
  PROVE  QueueStep
<1> DEFINE S == {a \in Gone : status[a] # "none"}
<1>1. \A a \in Attachments : Holders(a)' = Holders(a)
  BY HoldersKept DEF SavePost, Held, workerVars
<1>2. \A a \in Attachments \ S : PhaseOf(a)' = PhaseOf(a) /\ OwnerOf(a)' = OwnerOf(a)
  BY <1>1, Unmoved DEF SavePost, ReplaceVideos
<1>3. \A a \in S : PhaseOf(a)' = "absent" /\ OwnerOf(a)' = NoJob
  BY PhasesByStatusNext DEF SavePost, ReplaceVideos
<1>4. \A a \in S : PhaseOf(a) \in Queue!Phases \ {"absent"}
  BY DEF PhaseOf, TypeOK, Statuses, Claimable, Queue!Phases
<1>5. CASE S = {}
  BY <1>2, <1>5, AllUnmoved DEF QueueStep
<1>6. CASE S # {}
  <2>1. Queue!Remove(S)
    BY <1>2, <1>3, <1>4, <1>6, Moved DEF Queue!Remove
  <2> QED
    BY <2>1 DEF QueueStep, Queue!Next
<1> QED
  BY <1>5, <1>6

LEMMA InsertRowQueue ==
  ASSUME TypeOK, Ownership, NEW s \in Servers, NEW i \in Attachments, InsertRow(s, i)
  PROVE  QueueStep
<1>1. \A a \in Attachments : Holders(a)' = Holders(a)
  BY HoldersKept DEF InsertRow, Held, workerVars
<1>2. \A a \in Attachments : a # i \/ status[i] # "none" => PhaseOf(a)' = PhaseOf(a) /\ OwnerOf(a)' = OwnerOf(a)
  BY <1>1, Unmoved DEF InsertRow, TypeOK
<1>3. CASE status[i] # "none"
  BY <1>2, <1>3, AllUnmoved DEF QueueStep
<1>4. CASE status[i] = "none"
  <2>1. PhaseOf(i) = "absent"
    BY <1>4, PhasesByStatus
  <2>2. PhaseOf(i)' = "queued" /\ OwnerOf(i)' = NoJob
    BY <1>4, PhasesByStatusNext DEF InsertRow, TypeOK, Claimable
  <2>3. Queue!Enqueue(i)
    BY <1>2, <2>1, <2>2, Moved DEF Queue!Enqueue
  <2> QED
    BY <2>3 DEF QueueStep, Queue!Next
<1> QED
  BY <1>3, <1>4

LEMMA RequeueQueue ==
  ASSUME TypeOK, Ownership, Requeue
  PROVE  QueueStep
<1> DEFINE S == {a \in Attachments : PhaseOf(a) = "parked"}
<1>1. \A a \in Attachments : a \in S <=> status[a] = "blocked"
  BY DEF PhaseOf, TypeOK, Statuses, Claimable
<1>2. \A a \in Attachments : Holders(a)' = Holders(a)
  BY HoldersKept DEF Requeue, Held, workerVars
<1>3. \A a \in Requeued : PhaseOf(a)' = "queued" /\ OwnerOf(a)' = NoJob
  BY PhasesByStatusNext DEF Requeue, Requeued, Claimable
<1>4. \A a \in Attachments \ S : PhaseOf(a)' = PhaseOf(a) /\ OwnerOf(a)' = OwnerOf(a)
  <2> SUFFICES ASSUME NEW a \in Attachments \ S PROVE PhaseOf(a)' = PhaseOf(a) /\ OwnerOf(a)' = OwnerOf(a)
    OBVIOUS
  <2>1. CASE a \in Requeued
    BY <1>1, <1>3, <2>1, PhasesByStatus DEF Requeued, Claimable
  <2>2. CASE a \notin Requeued
    BY <1>2, <2>2, Unmoved DEF Requeue
  <2> QED
    BY <2>1, <2>2
<1>5. CASE S = {}
  BY <1>4, <1>5, AllUnmoved DEF QueueStep
<1>6. CASE S # {}
  <2>1. Queue!Release
    BY <1>1, <1>3, <1>4, <1>6, Moved DEF Queue!Release, Requeued
  <2> QED
    BY <2>1 DEF QueueStep, Queue!Next
<1> QED
  BY <1>5, <1>6
-----------------------------------------------------------------------------
(* Steps of the worker.                                                    *)

\* Nobody else's rows are affected by what worker s does with its own.
LEMMA OthersHold ==
  ASSUME NEW s \in Servers, NEW a,
         \A t \in Servers \ {s} : Held(t)' = Held(t) /\ pc'[t] = pc[t],
         a \in Held(s)' /\ pc'[s] # "commit" <=> a \in Held(s) /\ pc[s] # "commit"
  PROVE  Holders(a)' = Holders(a)
<1>1. \A t \in Servers : a \in Held(t)' /\ pc'[t] # "commit" <=> a \in Held(t) /\ pc[t] # "commit"
  OBVIOUS
<1> QED
  BY <1>1, HoldersKept

\* At the commit a worker has no job, and the rows of its batch are queued.
LEMMA AtCommit ==
  ASSUME TypeOK, Ownership, NEW s \in Servers, pc[s] \in {"claim", "commit"}
  PROVE  /\ job[s] = NoJob /\ Held(s) = batch[s] /\ batch[s] \subseteq Attachments
         /\ pc[s] = "commit" => \A a \in batch[s] : status[a] # "uploading" /\ PhaseOf(a) = "queued"
         /\ pc[s] = "claim" => batch[s] = {}
<1>1. job[s] = NoJob /\ batch[s] \subseteq Attachments /\ (pc[s] = "claim" => batch[s] = {})
  BY DEF Ownership, JobsWherePcSays, InProcessJob, TypeOK
<1>2. Held(s) = batch[s]
  BY <1>1 DEF Held
<1>3. pc[s] = "commit" => \A a \in batch[s] : status[a] \in Claimable
  BY <1>2 DEF Ownership, HeldRowByPc, Ready
<1> QED
  BY <1>1, <1>2, <1>3, PhasesByStatus DEF Claimable

LEMMA ClaimRowsQueue ==
  ASSUME TypeOK, Ownership, NEW s \in Servers, ClaimRows(s)
  PROVE  QueueStep
<1>1. Held(s) = {}
  BY AtCommit DEF ClaimRows
<1>2. \A t \in Servers \ {s} : Held(t)' = Held(t) /\ pc'[t] = pc[t]
  BY DEF ClaimRows, Held, TypeOK
<1>3. pc'[s] = "commit"
  BY DEF ClaimRows, TypeOK
<1>4. \A a \in Attachments : Holders(a)' = Holders(a)
  BY <1>1, <1>2, <1>3, OthersHold
<1>5. \A a \in Attachments : PhaseOf(a)' = PhaseOf(a) /\ OwnerOf(a)' = OwnerOf(a)
  BY <1>4, Unmoved DEF ClaimRows, rowVars
<1> QED
  BY <1>5, AllUnmoved DEF QueueStep

\* The rows of a batch become "uploading" and their worker never learns of it.
LEMMA LostCommit ==
  ASSUME TypeOK, Ownership, NEW s \in Servers, pc[s] \in {"claim", "commit"},
         pc'[s] \in {"select", "down"}, job'[s] = NoJob, batch'[s] = {},
         \A t \in Servers \ {s} : Held(t)' = Held(t) /\ pc'[t] = pc[t],
         UNCHANGED status \/ (pc[s] = "commit" /\ MarkUploading(batch[s]))
  PROVE  QueueStep
<1>1. Held(s)' = {}
  BY DEF Held
<1>2. \A a \in Attachments : Holders(a)' = Holders(a)
  BY <1>1, AtCommit, OthersHold
<1>3. CASE UNCHANGED status \/ batch[s] = {}
  <2>1. \A a \in Attachments : status'[a] = status[a]
    BY <1>3 DEF MarkUploading
  <2>2. \A a \in Attachments : PhaseOf(a)' = PhaseOf(a) /\ OwnerOf(a)' = OwnerOf(a)
    BY <1>2, <2>1, Unmoved
  <2> QED
    BY <2>2, AllUnmoved DEF QueueStep
<1>4. CASE batch[s] # {} /\ pc[s] = "commit" /\ MarkUploading(batch[s])
  <2>1. \A a \in Attachments \ batch[s] : PhaseOf(a)' = PhaseOf(a) /\ OwnerOf(a)' = OwnerOf(a)
    BY <1>2, <1>4, Unmoved DEF MarkUploading
  <2>2. ASSUME NEW a \in batch[s]
        PROVE  PhaseOf(a) = "queued" /\ PhaseOf(a)' = "stuck" /\ OwnerOf(a)' = NoJob
    <3>1. PhaseOf(a) = "queued" /\ a \in Attachments
      BY <1>4, AtCommit
    <3>2. status'[a] = "uploading"
      BY <1>4, <3>1 DEF MarkUploading
    <3>3. ASSUME NEW t \in Servers, a \in Held(t)', pc'[t] # "commit"
          PROVE  FALSE
      <4>1. t # s /\ a \in Held(t)
        BY <1>1, <3>3
      <4>2. a \in Held(s)
        BY <1>4, AtCommit
      <4> QED
        BY <4>1, <4>2 DEF Ownership, ExclusiveJobs
    <3>4. Holders(a)' = {}
      BY <3>3 DEF Holders
    <3> QED
      BY <3>1, <3>2, <3>4, PhasesByStatusNext
  <2>3. Queue!Misplace(batch[s])
    BY <1>4, <2>1, <2>2, AtCommit, Moved DEF Queue!Misplace
  <2> QED
    BY <2>3, AtCommit, <1>4 DEF QueueStep, Queue!Next
<1> QED
  BY <1>3, <1>4

LEMMA ClaimFailsQueue ==
  ASSUME TypeOK, Ownership, NEW s \in Servers, ClaimFails(s)
  PROVE  QueueStep
<1>1. \A t \in Servers \ {s} : Held(t)' = Held(t) /\ pc'[t] = pc[t]
  BY DEF ClaimFails, Held, TypeOK
<1>2. pc[s] \in {"claim", "commit"}
  BY DEF ClaimFails
<1>3. pc'[s] = "select" /\ batch'[s] = {}
  BY DEF ClaimFails, TypeOK
<1>4. job'[s] = NoJob
  BY <1>2, AtCommit DEF ClaimFails
<1>5. UNCHANGED status \/ (pc[s] = "commit" /\ MarkUploading(batch[s]))
  BY DEF ClaimFails
<1> QED
  BY <1>1, <1>2, <1>3, <1>4, <1>5, LostCommit

LEMMA CommitClaimQueue ==
  ASSUME TypeOK, Ownership, ExclusiveJobs', NEW s \in Servers, CommitClaim(s)
  PROVE  QueueStep
<1>1. pc[s] = "commit" /\ job'[s] = NoJob /\ batch'[s] = batch[s]
  BY AtCommit DEF CommitClaim
<1>2. Held(s)' = batch[s]
  BY <1>1 DEF Held
<1>3. \A t \in Servers \ {s} : Held(t)' = Held(t) /\ pc'[t] = pc[t]
  BY DEF CommitClaim, Held, TypeOK
<1>4. ASSUME NEW a \in Attachments \ batch[s]
      PROVE  PhaseOf(a)' = PhaseOf(a) /\ OwnerOf(a)' = OwnerOf(a)
  <2>1. Holders(a)' = Holders(a)
    BY <1>1, <1>2, <1>3, OthersHold
  <2> QED
    BY <2>1, Unmoved DEF CommitClaim, MarkUploading
<1>5. CASE batch[s] = {}
  BY <1>4, <1>5, AllUnmoved DEF QueueStep
<1>6. CASE batch[s] # {}
  <2>1. pc'[s] = "loop"
    BY <1>6 DEF CommitClaim, TypeOK
  <2>2. batch[s] \subseteq Attachments /\ \A a \in batch[s] : PhaseOf(a) = "queued"
    BY <1>1, AtCommit
  <2>3. \A a \in batch[s] : PhaseOf(a)' = "running" /\ OwnerOf(a)' = s
    BY <1>2, <2>1, <2>2, HolderOwnsNext DEF CommitClaim, MarkUploading
  <2>4. Queue!Take(s, batch[s])
    BY <1>4, <1>6, <2>2, <2>3, Moved DEF Queue!Take
  <2> QED
    BY <2>2, <2>4 DEF QueueStep, Queue!Next
<1> QED
  BY <1>5, <1>6

\* In processJob the worker holds its job, whose row is "uploading" if there is one.
LEMMA JobRuns ==
  ASSUME TypeOK, Ownership, NEW s \in Servers, pc[s] \in InProcessJob
  PROVE  /\ job[s] \in Attachments /\ job[s] \in Held(s) /\ pc[s] # "commit" /\ job[s] \notin batch[s]
         /\ HasRow(job[s]) =>
              status[job[s]] = "uploading" /\ PhaseOf(job[s]) = "running" /\ OwnerOf(job[s]) = s
<1>1. job[s] \in Attachments /\ job[s] \in Held(s) /\ pc[s] # "commit" /\ job[s] \notin batch[s]
  BY DEF Ownership, JobsWherePcSays, InProcessJob, TypeOK, Held
<1>2. HasRow(job[s]) => status[job[s]] = "uploading"
  BY <1>1 DEF Ownership, HeldRowByPc, JobsWherePcSays, HasRow
<1> QED
  BY <1>1, <1>2, HolderOwns DEF Ownership

\* The end of a job, as all its outcomes have it.
LEMMA JobEnds ==
  ASSUME TypeOK, Ownership, NEW s \in Servers, pc[s] \in InProcessJob, JobOver(s),
         UNCHANGED batch, status' \in [Attachments -> Statuses],
         NEW j \in Attachments, j = job[s],
         \A a \in Attachments \ {j} : status'[a] = status[a]
  PROVE  /\ Holders(j)' = {}
         /\ \A a \in Attachments \ {j} : PhaseOf(a)' = PhaseOf(a) /\ OwnerOf(a)' = OwnerOf(a)
         /\ ~HasRow(j) /\ status'[j] = status[j] => QueueStep
<1>1. j \in Held(s) /\ pc[s] # "commit"
  BY JobRuns
<1>2. Held(s)' = Held(s) \ {j}
  BY JobRuns, DriveSyncAssumption DEF JobOver, TypeOK, Held
<1>3. pc'[s] = "loop" /\ \A t \in Servers \ {s} : Held(t)' = Held(t) /\ pc'[t] = pc[t]
  BY DEF JobOver, TypeOK, Held
<1>4. Holders(j)' = {}
  BY <1>1, <1>2, <1>3 DEF Holders, Ownership, ExclusiveJobs
<1>5. ASSUME NEW a \in Attachments \ {j}
      PROVE  PhaseOf(a)' = PhaseOf(a) /\ OwnerOf(a)' = OwnerOf(a)
  <2>1. Holders(a)' = Holders(a)
    BY <1>1, <1>2, <1>3, OthersHold
  <2> QED
    BY <2>1, Unmoved
<1>6. ASSUME ~HasRow(j), status'[j] = status[j]
      PROVE  QueueStep
  <2>1. PhaseOf(j)' = PhaseOf(j) /\ OwnerOf(j)' = OwnerOf(j)
    BY <1>1, <1>6, Unmoved DEF HasRow
  <2> QED
    BY <1>5, <2>1, AllUnmoved DEF QueueStep
<1> QED
  BY <1>4, <1>5, <1>6

LEMMA MarkQueue ==
  ASSUME TypeOK, Ownership, NEW s \in Servers, MarkUploaded(s) \/ MarkBlocked(s) \/ MarkFailed(s)
  PROVE  QueueStep
<1>1. pc[s] \in InProcessJob /\ JobOver(s) /\ UNCHANGED batch
  BY DEF MarkUploaded, MarkBlocked, MarkFailed, InProcessJob
<1>2. PICK j \in Attachments : j = job[s]
  BY <1>1, JobRuns
<1>3. /\ status' \in [Attachments -> Statuses]
      /\ \A a \in Attachments \ {j} : status'[a] = status[a]
      /\ ~HasRow(j) => status'[j] = status[j]
      /\ HasRow(j) => status'[j] \in {"uploaded", "blocked", "failed"}
  BY <1>2 DEF MarkUploaded, MarkBlocked, MarkFailed, TypeOK, Statuses
<1>4. CASE ~HasRow(j)
  BY <1>1, <1>2, <1>3, <1>4, JobEnds
<1>5. CASE HasRow(j)
  <2>1. PhaseOf(j) = "running" /\ OwnerOf(j) = s
    BY <1>1, <1>2, <1>5, JobRuns
  <2>2. PICK outcome \in {"done", "queued", "parked"} : PhaseOf(j)' = outcome /\ OwnerOf(j)' = NoJob
    BY <1>2, <1>3, <1>5, PhasesByStatusNext DEF Claimable
  <2>3. j \in Queue!Owned(s)
    BY <1>2, <2>1 DEF Queue!Owned
  <2>4. Queue!Move({j}, {"running"}, outcome, NoJob)
    BY <1>1, <1>2, <1>3, <2>1, <2>2, JobEnds, Moved
  <2>5. Queue!Settle(s, j)
    BY <2>3, <2>4 DEF Queue!Settle
  <2> QED
    BY <1>2, <2>5 DEF QueueStep, Queue!Next
<1> QED
  BY <1>4, <1>5

LEMMA MarkFailsQueue ==
  ASSUME TypeOK, Ownership, NEW s \in Servers, MarkFails(s)
  PROVE  QueueStep
<1>1. pc[s] \in InProcessJob /\ JobOver(s) /\ UNCHANGED <<status, batch>>
  BY DEF MarkFails, InProcessJob, rowVars
<1>2. PICK j \in Attachments : j = job[s]
  BY <1>1, JobRuns
<1>3. CASE ~HasRow(j)
  BY <1>1, <1>2, <1>3, JobEnds DEF TypeOK
<1>4. CASE HasRow(j)
  <2>1. status[j] = "uploading" /\ PhaseOf(j) = "running" /\ OwnerOf(j) = s
    BY <1>1, <1>2, <1>4, JobRuns
  <2>2. PhaseOf(j)' = "stuck" /\ OwnerOf(j)' = NoJob
    BY <1>1, <1>2, <2>1, JobEnds, PhasesByStatusNext DEF TypeOK
  <2>3. {j} \subseteq Queue!Owned(s)
    BY <1>2, <2>1 DEF Queue!Owned
  <2>4. Queue!Move({j}, {"running"}, "stuck", NoJob)
    BY <1>1, <1>2, <2>1, <2>2, JobEnds, Moved DEF TypeOK
  <2>5. Queue!Abandon(s, {j})
    BY <2>3, <2>4 DEF Queue!Abandon
  <2> QED
    BY <1>2, <2>5 DEF QueueStep, Queue!Next
<1> QED
  BY <1>3, <1>4

\* A crash at the commit may misplace the batch; any other cuts the worker off
\* from all rows it owns.
LEMMA CrashQueue ==
  ASSUME TypeOK, Ownership, NEW s \in Servers, Crash(s)
  PROVE  QueueStep
<1>1. \A t \in Servers \ {s} : Held(t)' = Held(t) /\ pc'[t] = pc[t]
  BY DEF Crash, Held, TypeOK
<1>2. pc'[s] = "down" /\ job'[s] = NoJob /\ batch'[s] = {}
  BY DEF Crash, TypeOK
<1>3. CASE pc[s] \in {"claim", "commit"}
  <2>1. UNCHANGED status \/ (pc[s] = "commit" /\ MarkUploading(batch[s]))
    BY DEF Crash
  <2> QED
    BY <1>1, <1>2, <1>3, <2>1, LostCommit
<1>4. CASE pc[s] \notin {"claim", "commit"}
  <2> DEFINE S == {a \in Held(s) : status[a] = "uploading"}
  <2>1. UNCHANGED status /\ Held(s)' = {}
    BY <1>2, <1>4 DEF Crash, Held
  <2>2. \A a \in S : PhaseOf(a) = "running" /\ OwnerOf(a) = s
    BY <1>4, HolderOwns DEF Ownership
  <2>3. ASSUME NEW a \in Attachments, a \notin Held(s)
        PROVE  Holders(a)' = Holders(a)
    BY <1>1, <2>1, <2>3, OthersHold
  <2>4. \A a \in Attachments \ S : PhaseOf(a)' = PhaseOf(a) /\ OwnerOf(a)' = OwnerOf(a)
    BY <2>1, <2>3, Unmoved
  <2>5. \A a \in S : Holders(a)' = {}
    BY <1>1, <2>1 DEF Holders, Ownership, ExclusiveJobs
  <2>6. S \subseteq Attachments
    BY DEF Held, TypeOK
  <2>7. \A a \in S : PhaseOf(a)' = "stuck" /\ OwnerOf(a)' = NoJob
    BY <2>1, <2>5, PhasesByStatusNext
  <2>8. CASE S = {}
    BY <2>4, <2>8, AllUnmoved DEF QueueStep
  <2>9. CASE S # {}
    <3>1. S \subseteq Queue!Owned(s)
      BY <2>2, <2>6 DEF Queue!Owned
    <3>2. Queue!Move(S, {"running"}, "stuck", NoJob)
      BY <2>2, <2>4, <2>6, <2>7, <2>9, Moved
    <3>3. Queue!Abandon(s, S)
      BY <3>1, <3>2 DEF Queue!Abandon
    <3> QED
      BY <2>6, <3>3 DEF QueueStep, Queue!Next
  <2> QED
    BY <2>8, <2>9
<1> QED
  BY <1>3, <1>4

\* Every step of DriveSync is a step of the queue or leaves it alone.
LEMMA StepsRefine ==
  ASSUME TypeOK, Ownership, Ownership', Next
  PROVE  QueueStep
<1>1. ASSUME NEW s \in Servers, RequestStep(s) PROVE QueueStep
  BY <1>1, SavePostQueue, InsertRowQueue, QuietSteps DEF RequestStep
<1>2. ASSUME NEW s \in Servers, BatchStep(s) PROVE QueueStep
  BY <1>2, ClaimRowsQueue, CommitClaimQueue, ClaimFailsQueue, QuietSteps DEF BatchStep, Ownership
<1>3. ASSUME NEW s \in Servers, JobStep(s) PROVE QueueStep
  BY <1>3, MarkQueue, MarkFailsQueue, QuietSteps DEF JobStep
<1>4. ASSUME NEW s \in Servers, FaultStep(s) PROVE QueueStep
  BY <1>4, CrashQueue, QuietSteps DEF FaultStep
<1>5. ASSUME NEW a \in Attachments, Elapse(a) PROVE QueueStep
  BY <1>5, QuietStep DEF Elapse, workerVars, Held
<1>6. CASE AdminStep
  BY <1>6, RequeueQueue, QuietStep DEF AdminStep, Connect, Disconnect, rowVars, workerVars, Held
<1> QED
  BY <1>1, <1>2, <1>3, <1>4, <1>5, <1>6, QuietSteps DEF Next

-----------------------------------------------------------------------------
(* No video is forgotten.  A request whose INSERT fails gives up on all its *)
(* videos; it fails because one of them was deleted by a later save of the  *)
(* same post, and that save queues every video the post still has.         *)

\* The videos a request still has to insert are of one post.
QueuesArePerPost ==
  \A s \in Servers :
    /\ ~queueing[s] => todo[s] = {}
    /\ \A a, b \in todo[s] : PostOf[a] = PostOf[b]

\* A live video without a row is in the hands of a request that cannot fail:
\* none of its videos has been deleted.
VideosAreAwaited ==
  \A a \in Attachments :
    life[a] = "live" /\ status[a] = "none" =>
      \E s \in Servers : a \in todo[s] /\ \A b \in todo[s] : life[b] = "live"

Awaited == QueuesArePerPost /\ VideosAreAwaited

\* Steps that neither delete a row nor touch the requests.
LEMMA AwaitedUnchanged ==
  ASSUME TypeOK, Awaited, UNCHANGED <<life, todo, queueing>>,
         \A a \in Attachments : status'[a] = "none" => status[a] = "none"
  PROVE  Awaited'
  BY DEF Awaited, QueuesArePerPost, VideosAreAwaited

LEMMA SavePostAwaits ==
  ASSUME TypeOK, Awaited, NEW s \in Servers, NEW p \in Posts,
         NEW New \in SUBSET Attachments, NEW Gone \in SUBSET Attachments, SavePost(s, p, New, Gone)
  PROVE  Awaited'
<1> DEFINE after == (Videos(p, "live") \ Gone) \cup New
<1>1. /\ todo'[s] = after /\ (queueing'[s] <=> after # {}) /\ todo[s] = {}
      /\ \A t \in Servers \ {s} : todo'[t] = todo[t] /\ queueing'[t] = queueing[t]
  BY DEF SavePost, TypeOK, Awaited, QueuesArePerPost
<1>2. /\ New \subseteq Videos(p, "fresh") /\ Gone \subseteq Videos(p, "live")
      /\ \A a \in Attachments :
           /\ life'[a] = IF a \in New THEN "live" ELSE IF a \in Gone THEN "deleted" ELSE life[a]
           /\ status'[a] = IF a \in Gone THEN "none" ELSE status[a]
  BY DEF SavePost, ReplaceVideos
<1>3. after \subseteq Attachments /\ \A a \in after : PostOf[a] = p /\ life'[a] = "live"
  BY <1>2 DEF Videos
<1>4. QueuesArePerPost'
  BY <1>1, <1>3 DEF Awaited, QueuesArePerPost
<1>5. ASSUME NEW a \in Attachments, life'[a] = "live", status'[a] = "none"
      PROVE  \E t \in Servers : a \in todo'[t] /\ \A b \in todo'[t] : life'[b] = "live"
  <2>1. CASE PostOf[a] = p
    <3>1. a \in after
      BY <1>2, <1>5, <2>1 DEF Videos
    <3> QED
      BY <1>1, <1>3, <3>1
  <2>2. CASE PostOf[a] # p
    <3>1. life[a] = "live" /\ status[a] = "none"
      BY <1>2, <1>5, <2>2 DEF Videos
    <3>2. PICK t \in Servers : a \in todo[t] /\ \A b \in todo[t] : life[b] = "live"
      BY <3>1 DEF Awaited, VideosAreAwaited
    <3>3. t # s /\ todo'[t] = todo[t] /\ todo[t] \subseteq Attachments
      BY <1>1, <3>2 DEF TypeOK
    <3>4. \A b \in todo[t] : PostOf[b] # p
      BY <2>2, <3>2 DEF Awaited, QueuesArePerPost
    <3>5. \A b \in todo[t] : life'[b] = "live"
      BY <1>2, <3>2, <3>3, <3>4 DEF Videos
    <3> QED
      BY <3>2, <3>3, <3>5
  <2> QED
    BY <2>1, <2>2
<1> QED
  BY <1>4, <1>5 DEF Awaited, VideosAreAwaited

LEMMA RequestAwaits ==
  ASSUME "db" \notin Faults, TypeOK, Awaited, NEW s \in Servers, RequestStep(s)
  PROVE  Awaited'
<1>1. ASSUME NEW a \in Attachments, InsertRow(s, a) PROVE Awaited'
  <2>1. /\ todo'[s] = todo[s] \ {a} /\ \A t \in Servers \ {s} : todo'[t] = todo[t]
        /\ queueing' = queueing /\ life' = life
        /\ status'[a] # "none" /\ \A b \in Attachments \ {a} : status'[b] = status[b]
    BY <1>1 DEF InsertRow, TypeOK
  <2>2. QueuesArePerPost'
    BY <2>1 DEF Awaited, QueuesArePerPost
  <2>3. ASSUME NEW b \in Attachments, life'[b] = "live", status'[b] = "none"
        PROVE  \E t \in Servers : b \in todo'[t] /\ \A c \in todo'[t] : life'[c] = "live"
    <3>1. PICK t \in Servers : b \in todo[t] /\ \A c \in todo[t] : life[c] = "live"
      BY <2>1, <2>3 DEF Awaited, VideosAreAwaited
    <3>2. b \in todo'[t] /\ todo'[t] \subseteq todo[t]
      BY <2>1, <2>3, <3>1
    <3> QED
      BY <2>1, <3>1, <3>2
  <2> QED
    BY <2>2, <2>3 DEF Awaited, VideosAreAwaited
<1>2. ASSUME NEW a \in Attachments, InsertRowFails(s, a) PROVE Awaited'
  <2>1. /\ todo'[s] = {} /\ \A t \in Servers \ {s} : todo'[t] = todo[t] /\ queueing'[t] = queueing[t]
        /\ life' = life /\ status' = status /\ a \in todo[s] /\ life[a] # "live"
    BY <1>2 DEF InsertRowFails, TypeOK, rowVars
  <2>2. QueuesArePerPost'
    BY <2>1 DEF Awaited, QueuesArePerPost
  <2>3. VideosAreAwaited'
    BY <2>1 DEF Awaited, VideosAreAwaited
  <2> QED
    BY <2>2, <2>3 DEF Awaited
<1>3. CASE Signal(s)
  <2>1. /\ todo' = todo /\ todo[s] = {} /\ \A t \in Servers \ {s} : queueing'[t] = queueing[t]
        /\ life' = life /\ status' = status
    BY <1>3 DEF Signal, TypeOK, rowVars
  <2> QED
    BY <2>1 DEF Awaited, QueuesArePerPost, VideosAreAwaited
<1>4. ASSUME NEW a \in Attachments, LockVideo(s, a) PROVE Awaited'
  BY <1>4, AwaitedUnchanged DEF LockVideo, rowVars
<1>5. CASE RollBack(s)
  BY <1>5, AwaitedUnchanged DEF RollBack, rowVars
<1> QED
  BY <1>1, <1>2, <1>3, <1>4, <1>5, SavePostAwaits DEF RequestStep

\* What the workers, the clock and the administrator do leaves the requests alone.
LEMMA OthersAwait ==
  ASSUME {"crash", "db"} \cap Faults = {}, TypeOK, JobsWherePcSays, Awaited,
         \/ \E a \in Attachments : Elapse(a)
         \/ \E s \in Servers : \/ WakeByTicker(s) \/ WakeByTrigger(s)
                               \/ BatchStep(s) \/ JobStep(s) \/ FaultStep(s)
         \/ AdminStep
  PROVE  Awaited'
<1> USE DEF rowVars, workerVars, queueVars, TypeOK, Statuses
<1>1. ASSUME NEW a \in Attachments, Elapse(a) PROVE Awaited'
  BY <1>1, AwaitedUnchanged DEF Elapse
<1>2. ASSUME NEW s \in Servers, WakeByTicker(s) \/ WakeByTrigger(s) PROVE Awaited'
  BY <1>2, AwaitedUnchanged DEF WakeByTicker, WakeByTrigger
<1>3. ASSUME NEW s \in Servers, BatchStep(s) PROVE Awaited'
  <2>1. UNCHANGED <<life, queueVars>>
    BY <1>3 DEF BatchStep, ClaimRows, CommitClaim, ClaimFails, NextJob, BatchDone
  <2>2. \A a \in Attachments : status'[a] = "none" => status[a] = "none"
    BY <1>3 DEF BatchStep, ClaimRows, CommitClaim, ClaimFails, NextJob, BatchDone, MarkUploading
  <2> QED
    BY <2>1, <2>2, AwaitedUnchanged
<1>4. ASSUME NEW s \in Servers, JobStep(s) PROVE Awaited'
  <2>1. UNCHANGED <<life, queueVars>>
    BY <1>4 DEF JobStep, Prepare, PrepareFails, Upload, UploadFails, MarkUploaded, MarkBlocked,
                MarkFailed, MarkFails
  <2>2. \A a \in Attachments : status'[a] = "none" => status[a] = "none"
    BY <1>4 DEF JobStep, Prepare, PrepareFails, Upload, UploadFails, MarkUploaded, MarkBlocked,
                MarkFailed, MarkFails
  <2> QED
    BY <2>1, <2>2, AwaitedUnchanged
<1>5. ASSUME NEW s \in Servers, FaultStep(s) PROVE Awaited'
  BY <1>5, AwaitedUnchanged DEF FaultStep, Expire, Crash, Restart
<1>6. CASE AdminStep
  BY <1>6, AwaitedUnchanged DEF AdminStep, Connect, Disconnect, Requeue
<1> QED
  BY <1>1, <1>2, <1>3, <1>4, <1>5, <1>6

-----------------------------------------------------------------------------
(* The theorems.                                                           *)

\* The inductive invariant holds in every reachable state, whatever the faults.
THEOREM InvariantHolds == Spec => []IInv
<1>1. Init => IInv
  <2> SUFFICES ASSUME Init PROVE IInv
    OBVIOUS
  <2>1. LocksAreExclusive /\ \A s \in Servers : Held(s) = {}
    BY DEF Init, Held, LocksAreExclusive, SaveLocked
  <2>2. TypeOK
    BY InitTypeOK
  <2>3. JobsWherePcSays /\ ResultIsLast /\ RecordedFileIsLast
    BY DEF Init, JobsWherePcSays, ResultIsLast, RecordedFileIsLast, InProcessJob
  <2>4. ExclusiveJobs /\ HeldRowByPc
    BY <2>1 DEF ExclusiveJobs, HeldRowByPc
  <2>5. CopiesBeforeUpload /\ CopiesNeedLostResponses
    BY <2>1 DEF Init, CopiesBeforeUpload, CopiesNeedLostResponses
  <2> QED
    BY <2>1, <2>2, <2>3, <2>4, <2>5 DEF IInv
<1>2. IInv /\ [Next]_vars => IInv'
  BY NextTypeOK, NextLocks, NextOwnership, NextFiles DEF IInv, Ownership, FilesInv
<1> QED
  BY <1>1, <1>2, PTL DEF Spec

\* Every variable keeps its type.
THEOREM TypeCorrect == Spec => []TypeOK
<1>1. IInv => TypeOK
  BY DEF IInv
<1> QED
  BY <1>1, InvariantHolds, PTL

\* No two workers ever hold the same attachment.
THEOREM JobsAreExclusive == Spec => []ExclusiveJobs
<1>1. IInv => ExclusiveJobs
  BY DEF IInv
<1> QED
  BY <1>1, InvariantHolds, PTL

\* Nobody but its worker moves a row that is being worked on.
THEOREM HeldRowsAreStable == Spec => []HeldRowIsStable
<1>1. IInv => HeldRowIsStable
  <2> SUFFICES ASSUME IInv, NEW s \in Servers, NEW a \in Held(s)
               PROVE  \/ pc[s] = "commit" /\ a \in Ready
                      \/ status[a] = "uploading"
                      \/ life[a] = "deleted"
    BY DEF HeldRowIsStable
  <2> QED
    BY DEF IInv, HeldRowByPc
<1> QED
  BY <1>1, InvariantHolds, PTL

\* A recorded file is the last one created for its attachment.
THEOREM RecordedFilesAreLast == Spec => []RecordedFileIsLast
<1>1. IInv => RecordedFileIsLast
  BY DEF IInv
<1> QED
  BY <1>1, InvariantHolds, PTL

\* Second copies in Drive come from lost responses only.
THEOREM CopiesAreExplained == Spec => []CopiesNeedLostResponses
<1>1. IInv => CopiesNeedLostResponses
  BY DEF IInv
<1> QED
  BY <1>1, InvariantHolds, PTL

\* DriveSync implements UploadQueue: whatever the interleaving of requests,
\* workers, the administrator and faults, what happens to the rows is what the
\* abstract queue allows.
THEOREM QueueIsImplemented == Spec => ImplementsUploadQueue
<1>1. Init => Queue!Init
  <2> SUFFICES ASSUME Init PROVE Queue!Init
    OBVIOUS
  <2>1. \A a \in Attachments : PhaseOf(a) = "absent" /\ OwnerOf(a) = NoJob
    BY PhasesByStatus DEF Init
  <2> QED
    BY <2>1 DEF Queue!Init
<1>2. IInv /\ IInv' /\ [Next]_vars => [Queue!Next]_(Queue!vars)
  <2> SUFFICES ASSUME IInv, IInv', [Next]_vars PROVE QueueStep
    BY DEF QueueStep
  <2>1. CASE Next
    BY <2>1, StepsRefine DEF IInv, Ownership
  <2>2. CASE UNCHANGED vars
    BY <2>2, QuietStep DEF vars, rowVars, workerVars, Held, IInv
  <2> QED
    BY <2>1, <2>2
<1> QED
  BY <1>1, <1>2, InvariantHolds, PTL DEF Spec, ImplementsUploadQueue, Queue!Spec

\* Once a row is cut off from its worker (its claim's answer, its process or its
\* last UPDATE is lost) nothing but the deletion of the video moves it: no claim,
\* no requeue by the administrator, no new save of the post.
CutOffRowsStay ==
  [][\A a \in Attachments : PhaseOf(a) = "stuck" => PhaseOf(a)' \in {"stuck", "absent"}]_vars

THEOREM CutOffRowsAreLost == Spec => CutOffRowsStay
<1>1. IInv /\ IInv' /\ [Next]_vars =>
        [\A a \in Attachments : PhaseOf(a) = "stuck" => PhaseOf(a)' \in {"stuck", "absent"}]_vars
  <2> SUFFICES ASSUME IInv, IInv', Next, NEW a \in Attachments, PhaseOf(a) = "stuck"
               PROVE  PhaseOf(a)' \in {"stuck", "absent"}
    OBVIOUS
  <2>1. QueueStep
    BY StepsRefine DEF IInv, Ownership
  <2>2. ASSUME NEW S \in SUBSET Attachments, NEW from, NEW to, NEW w, Queue!Move(S, from, to, w),
               "stuck" \notin from \/ to = "absent"
        PROVE  PhaseOf(a)' \in {"stuck", "absent"}
    BY <2>2 DEF Queue!Move
  <2>3. CASE UNCHANGED Queue!vars
    BY <2>3 DEF Queue!vars
  <2>4. CASE Queue!Next
    BY <2>2, <2>4 DEF Queue!Next, Queue!Enqueue, Queue!Settle, Queue!Take, Queue!Abandon,
                      Queue!Misplace, Queue!Remove, Queue!Release
  <2> QED
    BY <2>1, <2>3, <2>4 DEF QueueStep
<1> QED
  BY <1>1, InvariantHolds, PTL DEF Spec, CutOffRowsStay

\* Unless a process or the database fails, every live video has a row or is about
\* to get one, however the requests that replace a post's videos overlap.
THEOREM NoVideoIsForgotten ==
  ASSUME {"crash", "db"} \cap Faults = {}
  PROVE  Spec => []NoForgottenVideo
<1>1. Init => Awaited
  BY DEF Init, Awaited, QueuesArePerPost, VideosAreAwaited
<1>2. IInv /\ Awaited /\ [Next]_vars => Awaited'
  <2> SUFFICES ASSUME IInv, Awaited, [Next]_vars PROVE Awaited'
    OBVIOUS
  <2>1. TypeOK /\ JobsWherePcSays
    BY DEF IInv
  <2>2. CASE Next
    BY <2>1, <2>2, RequestAwaits, OthersAwait DEF Next
  <2>3. CASE UNCHANGED vars
    BY <2>1, <2>3, AwaitedUnchanged DEF vars, rowVars, queueVars
  <2> QED
    BY <2>2, <2>3
<1>3. Awaited => NoForgottenVideo
  BY DEF Awaited, VideosAreAwaited, NoForgottenVideo
<1> QED
  BY <1>1, <1>2, <1>3, InvariantHolds, PTL DEF Spec
=============================================================================
