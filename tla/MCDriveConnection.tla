-------------------------- MODULE MCDriveConnection --------------------------
(* Instances of DriveConnection for TLC. *)
EXTENDS DriveConnection, TLC
=============================================================================
