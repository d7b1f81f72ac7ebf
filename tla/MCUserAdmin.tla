----------------------------- MODULE MCUserAdmin -----------------------------
(* Instances of UserAdmin for TLC. *)
EXTENDS UserAdmin, TLC

CONSTANTS root, other

Row(a, b) == [admin |-> a, active |-> b]

\* Workbooks of one and of two rows that appoint, dismiss, lock, create and
\* rename users.
SomeFiles == {
  [u \in {root}        |-> Row("false", "blank")],
  [u \in {other}       |-> Row("true", "blank")],
  [u \in {root, other} |-> IF u = root THEN Row("blank", "false") ELSE Row("true", "true")],
  [u \in {root, other} |-> Row("blank", "blank")] }

\* Root is dismissed, or replaced by the other user.
Dismissals == {
  [u \in {root}        |-> Row("false", "blank")],
  [u \in {root, other} |-> IF u = root THEN Row("blank", "false") ELSE Row("true", "true")] }

SafetySymmetry == Permutations(Requests)
=============================================================================
