------------------------------ MODULE UserAdmin ------------------------------
(***************************************************************************)
(* The administration of users: creating and changing them one by one      *)
(* (internal/service/users.go) and by importing a workbook in two          *)
(* requests, a preview and a commit (internal/service/user_imports.go),    *)
(* over the table users (internal/repository/users.go); and the seeding of *)
(* the first administrator (cmd/seeddata).                                 *)
(*                                                                         *)
(* Requests run concurrently.  They look before they write, each look and  *)
(* each write is an SQL statement or transaction of its own, and nothing   *)
(* holds between them.  The previews wait in the memory of one process for *)
(* their commit.                                                           *)
(*                                                                         *)
(* Abstractions.  A user is its email.  Of a user's columns only is_admin  *)
(* and is_active are kept; names, passwords and the two other rights only  *)
(* matter in that a workbook row may change them and nothing else.         *)
(* Requests of somebody who is no active administrator are refused at once *)
(* and left out.  A request is executed once: Requests bounds their number.*)
(***************************************************************************)
EXTENDS Integers, FiniteSets

CONSTANTS
  Users,       \* emails
  Root,        \* an administrator who is there from the start, if anybody is
  Files,       \* bound: the workbooks that get uploaded
  NoUser,      \* "no user"
  Requests,    \* bound: the requests that are ever made
  NoRequest,   \* "no request"
  Concurrency, \* bound: how many requests run at the same time
  MayFail      \* requests and the process can fail

\* An optional cell of a workbook row.
Cells == {"blank", "true", "false"}
Sheet == UNION {[S -> [admin : Cells, active : Cells]] : S \in SUBSET Users}

ASSUME UserAdminAssumption ==
  /\ IsFiniteSet(Users)
  /\ IsFiniteSet(Requests)
  /\ Root \in Users
  /\ NoUser \notin Users
  /\ NoRequest \notin Requests
  /\ Files \subseteq Sheet
  /\ Concurrency \in Nat \ {0}
  /\ MayFail \in BOOLEAN

VARIABLES
  users,    \* the rows of users
  admins,   \* those with is_admin
  active,   \* those with is_active
  sessions, \* importSessions: the previews that wait for their commit
  pc,       \* where a request is
  op,       \* what it wants
  actor,    \* its user
  target,   \* the user it creates or updates
  want,     \* the flags it asks for
  file,     \* the workbook it previews
  preview,  \* the preview it commits
  plan,     \* of a preview: the operations of its session, by email
  errors,   \* of a preview: its session has rows in error
  tally,    \* of a commit: the active administrators it has counted
  applied,  \* history: how often the operations of a preview were applied
  stale     \* history: the requests that another has overtaken, see Overtake

tableVars   == <<users, admins, active>>
formVars    == <<op, actor, target, want, file, preview>>
vars == <<tableVars, sessions, pc, formVars, plan, errors, tally, applied, stale>>

Flags == [admin : BOOLEAN, active : BOOLEAN]

\* new: ExistingUserID is nil;  was: the user was an active administrator.
Operation == [new : BOOLEAN, was : BOOLEAN, admin : BOOLEAN, active : BOOLEAN]
Plans == UNION {[S -> Operation] : S \in SUBSET Users}
NoPlan == [u \in {} |-> {}]

Ops == {"none", "update", "create", "preview", "commit"}
RequestPCs == {"new", "read", "count", "validate", "write", "drop", "done"}

TypeOK ==
  /\ users \subseteq Users /\ admins \subseteq users /\ active \subseteq users
  /\ sessions \subseteq Requests
  /\ pc \in [Requests -> RequestPCs]
  /\ op \in [Requests -> Ops]
  /\ actor \in [Requests -> Users \cup {NoUser}]
  /\ target \in [Requests -> Users \cup {NoUser}]
  /\ want \in [Requests -> Flags]
  /\ file \in [Requests -> Sheet]
  /\ preview \in [Requests -> Requests \cup {NoRequest}]
  /\ plan \in [Requests -> Plans]
  /\ errors \in [Requests -> BOOLEAN]
  /\ tally \in [Requests -> Nat]
  /\ applied \in [Requests -> Nat]
  /\ stale \subseteq Requests

\* The table is empty, or it has an active administrator.
Init ==
  /\ users \in {{}, {Root}}
  /\ admins = users
  /\ active = users
  /\ sessions = {}
  /\ pc = [r \in Requests |-> "new"]
  /\ op = [r \in Requests |-> "none"]
  /\ actor = [r \in Requests |-> NoUser]
  /\ target = [r \in Requests |-> NoUser]
  /\ want = [r \in Requests |-> [admin |-> FALSE, active |-> FALSE]]
  /\ file = [r \in Requests |-> NoPlan]
  /\ preview = [r \in Requests |-> NoRequest]
  /\ plan = [r \in Requests |-> NoPlan]
  /\ errors = [r \in Requests |-> FALSE]
  /\ tally = [r \in Requests |-> 0]
  /\ applied = [r \in Requests |-> 0]
  /\ stale = {}

ActiveAdmins == admins \cap active

CountActiveAdmins == Cardinality(ActiveAdmins)

-----------------------------------------------------------------------------
(* Requests arrive.                                                        *)

InFlight == {r \in Requests : pc[r] \notin {"new", "done"}}

Goto(r, where) == pc' = [pc EXCEPT ![r] = where]

\* The principal is read for every request; it must be an active administrator.
Start(r, u, o) ==
  /\ pc[r] = "new"
  /\ Cardinality(InFlight) < Concurrency
  /\ u \in ActiveAdmins
  /\ op' = [op EXCEPT ![r] = o]
  /\ actor' = [actor EXCEPT ![r] = u]
  /\ Goto(r, "read")
  /\ UNCHANGED <<tableVars, sessions, plan, errors, tally, applied, stale>>

StartUser(r, u, o, t, w) ==
  /\ o \in {"update", "create"}
  /\ Start(r, u, o)
  /\ target' = [target EXCEPT ![r] = t]
  /\ want' = [want EXCEPT ![r] = w]
  /\ UNCHANGED <<file, preview>>

StartPreview(r, u, f) ==
  /\ Start(r, u, "preview")
  /\ file' = [file EXCEPT ![r] = f]
  /\ UNCHANGED <<target, want, preview>>

StartCommit(r, u, p) ==
  /\ op[p] = "preview"
  /\ Start(r, u, "commit")
  /\ preview' = [preview EXCEPT ![r] = p]
  /\ UNCHANGED <<target, want, file>>

-----------------------------------------------------------------------------
(* UpdateUser and CreateUser.                                              *)

\* Mutated form of RemovesActiveAdmin: only the loss of is_admin is looked at.
RemovesAdminFlag(t, w) == t \in ActiveAdmins /\ ~w.admin

\* removesActiveAdmin := existing.IsAdmin && existing.IsActive && (...)
RemovesActiveAdmin(t, w) == t \in ActiveAdmins /\ ~(w.admin /\ w.active)

\* UpdateUser reads the user.
ReadUser(r) ==
  /\ op[r] = "update" /\ pc[r] = "read"
  /\ Goto(r, IF target[r] \notin users THEN "done"
             ELSE IF RemovesActiveAdmin(target[r], want[r]) THEN "count" ELSE "write")
  /\ UNCHANGED <<tableVars, sessions, formVars, plan, errors, tally, applied, stale>>

\* "must keep at least one active admin"
CountForUpdate(r) ==
  /\ op[r] = "update" /\ pc[r] = "count"
  /\ Goto(r, IF CountActiveAdmins <= 1 THEN "done" ELSE "write")
  /\ UNCHANGED <<tableVars, sessions, formVars, plan, errors, tally, applied, stale>>

\* The flags of the users of S become those that flags gives them.
SetFlags(S, flags) ==
  /\ users' = users \cup S
  /\ admins' = (admins \ S) \cup {u \in S : flags[u].admin}
  /\ active' = (active \ S) \cup {u \in S : flags[u].active}

\* What the requests about to write have counted is out of date now.
Overtake(r) ==
  stale' = stale \cup {q \in Requests \ {r} : pc[q] \in {"validate", "write"}}

\* UpdateUserWithProfile.
UpdateUser(r) ==
  /\ op[r] = "update" /\ pc[r] = "write"
  /\ SetFlags({target[r]}, [u \in {target[r]} |-> want[r]])
  /\ Overtake(r)
  /\ Goto(r, "done")
  /\ UNCHANGED <<sessions, formVars, plan, errors, tally, applied>>

\* CreateUser looks for the email ...
LookupEmail(r) ==
  /\ op[r] = "create" /\ pc[r] = "read"
  /\ Goto(r, IF target[r] \in users THEN "done" ELSE "write")
  /\ UNCHANGED <<tableVars, sessions, formVars, plan, errors, tally, applied, stale>>

\* ... and inserts it, unless somebody else has meanwhile (users.email is unique).
InsertUser(r) ==
  /\ op[r] = "create" /\ pc[r] = "write"
  /\ IF target[r] \in users
       THEN UNCHANGED <<tableVars, stale>>
       ELSE SetFlags({target[r]}, [u \in {target[r]} |-> want[r]]) /\ Overtake(r)
  /\ Goto(r, "done")
  /\ UNCHANGED <<sessions, formVars, plan, errors, tally, applied>>

-----------------------------------------------------------------------------
(* PreviewUserImport and CommitUserImport.                                 *)

\* The value of a cell that may be blank.
Resolve(cell, default) == cell = "true" \/ (cell = "blank" /\ default)

\* prepareUserImportRow: a blank cell takes the value of the moment.
Prepared(u, row) ==
  [new    |-> u \notin users,
   was    |-> u \in ActiveAdmins,
   admin  |-> Resolve(row.admin, u \in admins),
   active |-> Resolve(row.active, u \in active \/ u \notin users)]

\* Rows that change neither flag are skipped unless they change something else.
MustApply(f) ==
  {u \in DOMAIN f : LET o == Prepared(u, f[u]) IN
                      o.new \/ o.admin # (u \in admins) \/ o.active # (u \in active)}

\* The rows are matched with ListUsersByEmails.
MatchRows(r) ==
  /\ op[r] = "preview" /\ pc[r] = "read"
  /\ \E S \in SUBSET DOMAIN file[r] :
       /\ MustApply(file[r]) \subseteq S
       /\ plan' = [plan EXCEPT ![r] = [u \in S |-> Prepared(u, file[r][u])]]
  /\ Goto(r, "count")
  /\ UNCHANGED <<tableVars, sessions, formVars, errors, tally, applied, stale>>

\* Users that a plan makes, or makes no longer, active administrators, before
\* being the set of those who are.
Gains(p, before)  == {u \in DOMAIN p : u \notin before /\ p[u].admin /\ p[u].active}
Losses(p, before) == {u \in DOMAIN p : u \in before /\ ~(p[u].admin /\ p[u].active)}

\* activeAdminDelta, the sum of boolDelta over the operations.
Delta(p, before) == Cardinality(Gains(p, before)) - Cardinality(Losses(p, before))

\* The second half of the preview: CountActiveAdmins, and the session is stored.
StoreSession(r) ==
  /\ op[r] = "preview" /\ pc[r] = "count"
  /\ LET before == {u \in DOMAIN plan[r] : plan[r][u].was} IN
       \E wrong \in BOOLEAN :  \* other errors of the rows
         errors' = [errors EXCEPT ![r] =
           wrong \/ /\ CountActiveAdmins + Delta(plan[r], before) < 1
                    /\ Losses(plan[r], before) # {}]
  /\ sessions' = sessions \cup {r}
  /\ Goto(r, "done")
  /\ UNCHANGED <<tableVars, formVars, plan, tally, applied, stale>>

\* loadUserImportSession, and the session must be without errors.
LoadSession(r) ==
  /\ op[r] = "commit" /\ pc[r] = "read"
  /\ LET p == preview[r] IN
       Goto(r, IF p \notin sessions \/ actor[p] # actor[r] \/ errors[p] THEN "done"
               ELSE IF DOMAIN plan[p] = {} THEN "write" ELSE "count")
  /\ UNCHANGED <<tableVars, sessions, formVars, plan, errors, tally, applied, stale>>

\* validateImportOperations counts ...
CountForCommit(r) ==
  /\ op[r] = "commit" /\ pc[r] = "count"
  /\ tally' = [tally EXCEPT ![r] = CountActiveAdmins]
  /\ Goto(r, "validate")
  /\ UNCHANGED <<tableVars, sessions, formVars, plan, errors, applied, stale>>

\* The active administrators among the users that a plan updates.
Before(p) == {u \in DOMAIN p : ~p[u].new} \cap ActiveAdmins

\* ... and compares with the users as they are now.
Validate(r) ==
  /\ op[r] = "commit" /\ pc[r] = "validate"
  /\ LET p == plan[preview[r]] IN
       Goto(r, IF tally[r] + Delta(p, Before(p)) < 1 THEN "done" ELSE "write")
  /\ UNCHANGED <<tableVars, sessions, formVars, plan, errors, tally, applied, stale>>

\* Mutated form of Conflict: ON CONFLICT (email) DO UPDATE.
NoConflict(p) == FALSE

\* One of the emails to insert exists.
Conflict(p) == \E u \in DOMAIN p : p[u].new /\ u \in users

\* ImportUsers, one transaction: all operations or none.
Import(r) ==
  /\ op[r] = "commit" /\ pc[r] = "write"
  /\ LET p == plan[preview[r]] IN
       IF Conflict(p)
         THEN /\ Goto(r, "done")
              /\ UNCHANGED <<tableVars, applied, stale>>
         ELSE /\ SetFlags(DOMAIN p, p)
              /\ Overtake(r)
              /\ applied' = [applied EXCEPT ![preview[r]] = @ + 1]
              /\ Goto(r, "drop")
  /\ UNCHANGED <<sessions, formVars, plan, errors, tally>>

\* deleteUserImportSession.
DropSession(r) ==
  /\ op[r] = "commit" /\ pc[r] = "drop"
  /\ sessions' = sessions \ {preview[r]}
  /\ Goto(r, "done")
  /\ UNCHANGED <<tableVars, formVars, plan, errors, tally, applied, stale>>

\* The 15 minutes of a session are over.
ExpireSession(p) ==
  /\ p \in sessions
  /\ sessions' = sessions \ {p}
  /\ UNCHANGED <<tableVars, pc, formVars, plan, errors, tally, applied, stale>>

-----------------------------------------------------------------------------
\* The request fails.  An import may have been applied all the same.
Fail(r) ==
  /\ MayFail
  /\ r \in InFlight
  /\ Goto(r, "done")
  /\ UNCHANGED <<tableVars, sessions, formVars, plan, errors, tally, applied, stale>>

\* The process ends and with it its requests and all sessions.
Restart ==
  /\ MayFail
  /\ sessions # {} \/ InFlight # {}
  /\ sessions' = {}
  /\ pc' = [r \in Requests |-> IF r \in InFlight THEN "done" ELSE pc[r]]
  /\ UNCHANGED <<tableVars, formVars, plan, errors, tally, applied, stale>>

\* cmd/seeddata: CreateUserParams without IsActive, unless the email exists.
SeedAdmin ==
  /\ Root \notin users
  /\ users' = users \cup {Root}
  /\ admins' = admins \cup {Root}
  /\ UNCHANGED <<active, sessions, pc, formVars, plan, errors, tally, applied, stale>>

UserStep(r) ==
  \/ ReadUser(r) \/ CountForUpdate(r) \/ UpdateUser(r)
  \/ LookupEmail(r) \/ InsertUser(r)

ImportStep(r) ==
  \/ MatchRows(r) \/ StoreSession(r)
  \/ LoadSession(r) \/ CountForCommit(r) \/ Validate(r) \/ Import(r) \/ DropSession(r)

Arrive(r) ==
  \E u \in Users :
    \/ \E o \in {"update", "create"}, t \in Users, w \in Flags : StartUser(r, u, o, t, w)
    \/ \E f \in Files : StartPreview(r, u, f)
    \/ \E p \in Requests : StartCommit(r, u, p)

Next ==
  \/ \E r \in Requests : Arrive(r) \/ UserStep(r) \/ ImportStep(r) \/ ExpireSession(r) \/ Fail(r)
  \/ Restart
  \/ SeedAdmin

Spec == Init /\ [][Next]_vars

-----------------------------------------------------------------------------
(* Properties.                                                             *)

\* An import that creates users takes effect at most once, however often its
\* preview is committed, at the same time or after answers that got lost: the
\* second time its insert fails, and with it the whole import.
CreationsHappenOnce ==
  \A p \in Requests : (\E u \in DOMAIN plan[p] : plan[p][u].new) => applied[p] <= 1

\* Only the administrator who has seen a preview commits it, and never one
\* with errors.
OwnPreviewsOnly ==
  \A r \in Requests :
    op[r] = "commit" /\ pc[r] \in {"count", "validate", "write", "drop"}
      => actor[preview[r]] = actor[r] /\ ~errors[preview[r]]

(* The inductive invariant.                                                *)

\* Forms are filled in; a stored preview, or an applied one, is complete.
RequestsAreFilledIn ==
  /\ \A r \in Requests :
       /\ pc[r] = "new" => op[r] = "none"
       /\ op[r] \in {"update", "create"} => target[r] \in Users
       /\ op[r] = "commit" => preview[r] \in Requests
  /\ \A p \in Requests : p \in sessions \/ applied[p] > 0 => op[p] = "preview" /\ pc[p] = "done"

\* A commit works on a complete preview of its own user.
CommitsOwnPreview ==
  \A r \in Requests :
    op[r] = "commit" /\ pc[r] \in {"count", "validate", "write", "drop"}
      => /\ op[preview[r]] = "preview" /\ pc[preview[r]] = "done"
         /\ actor[preview[r]] = actor[r] /\ ~errors[preview[r]]

\* The users that an import was to create exist once it was applied.
AppliedMeansCreated ==
  \A p \in Requests : applied[p] > 0 => ~\E u \in DOMAIN plan[p] : plan[p][u].new /\ u \notin users

\* What a request has counted is still so when it writes, unless it is stale.
FreshCountsHold ==
  \A r \in Requests \ stale :
    /\ op[r] = "update" /\ pc[r] = "write" /\ RemovesActiveAdmin(target[r], want[r])
         => CountActiveAdmins > 1
    /\ op[r] = "commit" /\ pc[r] = "validate" => tally[r] = CountActiveAdmins
    /\ op[r] = "commit" /\ pc[r] = "write" =>
         LET p == plan[preview[r]] IN
           DOMAIN p = {} \/ CountActiveAdmins + Delta(p, Before(p)) >= 1

IInv ==
  /\ TypeOK
  /\ RequestsAreFilledIn
  /\ CommitsOwnPreview
  /\ AppliedMeansCreated
  /\ CreationsHappenOnce
  /\ FreshCountsHold

\* The last active administrator is only taken away by an update or an import
\* that was overtaken by another one between its count and its write; never
\* by one that was not, however long ago its preview was made.
OnlyStaleLeavesNoAdmin ==
  [][ActiveAdmins # {} /\ ActiveAdmins' = {}
       => \E r \in stale : UpdateUser(r) \/ Import(r)]_vars

\* "must keep at least one active admin", for every request.
KeepsAnAdmin == [][ActiveAdmins # {} => ActiveAdmins' # {}]_vars
=============================================================================
