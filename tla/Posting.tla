-------------------------------- MODULE Posting --------------------------------
(* What the modules about posts and their users have in common.               *)

CONSTANT Users   \* ids of users

\* approval_status.
Statuses == {"pending", "approved", "rejected"}
=============================================================================
