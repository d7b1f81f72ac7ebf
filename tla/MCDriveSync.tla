---------------------------- MODULE MCDriveSync ----------------------------
(* Instances of DriveSync for TLC. *)
EXTENDS DriveSync_refinement, TLC

CONSTANTS p1

\* All attachments belong to one post: saves of the post overlap.
OnePost == [a \in Attachments |-> p1]

AllFaults    == FaultKinds
LostResponse == {"lostResponse"}
NoFaults     == {}

Both     == {"least", "greatest"}
Greatest == {"greatest"}

SafetySymmetry == Permutations(Servers) \cup Permutations(Attachments)
=============================================================================
