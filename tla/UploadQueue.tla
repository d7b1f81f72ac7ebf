----------------------------- MODULE UploadQueue -----------------------------
(***************************************************************************)
(* What the Drive synchronisation promises to its users: a queue that      *)
(* hands every video to at most one worker at a time, never takes back a   *)
(* finished one, parks what needs an administrator - and never looks again *)
(* at a video whose worker was cut off.  DriveSync implements it.          *)
(***************************************************************************)
EXTENDS FiniteSets

CONSTANTS
  Items,    \* what can be queued
  Workers,  \* who can take it
  Nobody    \* "no worker"

VARIABLES
  phase,  \* where an item is
  owner   \* the worker that has a running item

vars == <<phase, owner>>

Phases == {"absent", "queued", "running", "done", "parked", "stuck"}

Init ==
  /\ phase = [i \in Items |-> "absent"]
  /\ owner = [i \in Items |-> Nobody]

Owned(w) == {i \in Items : owner[i] = w}

\* All items of S move from a phase to another, and to an owner.
Move(S, from, to, w) ==
  /\ S # {}
  /\ \A i \in S : phase[i] \in from
  /\ phase' = [i \in Items |-> IF i \in S THEN to ELSE phase[i]]
  /\ owner' = [i \in Items |-> IF i \in S THEN w ELSE owner[i]]

Enqueue(i) == Move({i}, {"absent"}, "queued", Nobody)

Take(w, S) == Move(S, {"queued"}, "running", w)

\* A worker is done with an item, whatever the outcome.
Settle(w, i) ==
  /\ i \in Owned(w)
  /\ \E outcome \in {"done", "queued", "parked"} : Move({i}, {"running"}, outcome, Nobody)

\* A worker is cut off from some or all of its items.
Abandon(w, S) == S \subseteq Owned(w) /\ Move(S, {"running"}, "stuck", Nobody)

\* Items are taken, but the worker never learns of it.
Misplace(S) == Move(S, {"queued"}, "stuck", Nobody)

\* An administrator lets all parked items go again.
Release == Move({i \in Items : phase[i] = "parked"}, {"parked"}, "queued", Nobody)

Remove(S) == Move(S, Phases \ {"absent"}, "absent", Nobody)

Next ==
  \/ \E i \in Items : Enqueue(i) \/ (\E w \in Workers : Settle(w, i))
  \/ \E S \in SUBSET Items :
       \/ \E w \in Workers : Take(w, S) \/ Abandon(w, S)
       \/ Misplace(S)
       \/ Remove(S)
  \/ Release

Spec == Init /\ [][Next]_vars
=============================================================================
