------------------------- MODULE DriveSync_refinement -------------------------
(***************************************************************************)
(* DriveSync implements UploadQueue.  A row is "running" while a worker    *)
(* holds its job and "stuck" when its status is uploading and nobody does. *)
(***************************************************************************)
EXTENDS DriveSync

\* The workers that have claimed attachment a and committed the claim.
Holders(a) == {s \in Servers : pc[s] # "commit" /\ a \in Held(s)}

PhaseOf(a) ==
  CASE status[a] = "none"      -> "absent"
    [] status[a] \in Claimable -> "queued"
    [] status[a] = "uploaded"  -> "done"
    [] status[a] = "blocked"   -> "parked"
    [] status[a] = "uploading" -> IF Holders(a) # {} THEN "running" ELSE "stuck"

OwnerOf(a) ==
  IF PhaseOf(a) = "running" THEN CHOOSE s \in Servers : s \in Holders(a) ELSE NoJob

Queue == INSTANCE UploadQueue WITH
  Items <- Attachments, Workers <- Servers, Nobody <- NoJob,
  phase <- [a \in Attachments |-> PhaseOf(a)],
  owner <- [a \in Attachments |-> OwnerOf(a)]

\* Every step of the table, the workers, the requests and the faults is a step
\* of the abstract queue or leaves it alone: a video has one worker at a time,
\* an uploaded video stays so, a blocked one waits for the administrator, and
\* a row its worker was cut off from is never touched again but by deletion.
ImplementsUploadQueue == Queue!Spec
=============================================================================
