--------------------------- MODULE UserAdmin_proofs ---------------------------
(***************************************************************************)
(* UserAdmin for any number of users, workbooks and requests, however many *)
(* of them run at a time.                                                  *)
(***************************************************************************)
EXTENDS UserAdmin, FiniteSetTheorems, TLAPS

\* The initial states satisfy the invariant.
LEMMA InitInv == Init => IInv
  <1> SUFFICES ASSUME Init PROVE IInv
    OBVIOUS
  <1> USE UserAdminAssumption DEF Init
  <1>1. NoPlan \in Plans /\ NoPlan \in Sheet /\ DOMAIN NoPlan = {}
    <2>1. NoPlan \in [{} -> Operation] /\ NoPlan \in [{} -> [admin : Cells, active : Cells]]
      BY DEF NoPlan
    <2> QED
      BY <2>1 DEF Plans, Sheet, NoPlan
  <1>2. TypeOK
    BY <1>1 DEF TypeOK, Flags, Ops, RequestPCs
  <1> QED
    BY <1>1, <1>2 DEF IInv, RequestsAreFilledIn, CommitsOwnPreview, AppliedMeansCreated,
                      CreationsHappenOnce, FreshCountsHold

\* The domain of a plan is a set of users.
LEMMA PlanDomain ==
  ASSUME NEW p \in Plans
  PROVE  DOMAIN p \subseteq Users /\ \A u \in DOMAIN p : p[u] \in Operation
  BY DEF Plans

\* What matching prepares is a plan.
LEMMA PreparedPlan ==
  ASSUME NEW f \in Sheet, NEW S \in SUBSET DOMAIN f
  PROVE  [u \in S |-> Prepared(u, f[u])] \in Plans
  <1>1. S \subseteq Users
    BY DEF Sheet
  <1>2. \A u \in S : Prepared(u, f[u]) \in Operation
    <2> TAKE u \in S
    <2>1. \A a, b, c, d \in BOOLEAN : [new |-> a, was |-> b, admin |-> c, active |-> d] \in Operation
      BY DEF Operation
    <2>2. /\ (u \notin users) \in BOOLEAN
          /\ (u \in ActiveAdmins) \in BOOLEAN
      OBVIOUS
    <2>3. /\ Resolve(f[u].admin, u \in admins) \in BOOLEAN
          /\ Resolve(f[u].active, u \in active \/ u \notin users) \in BOOLEAN
      BY DEF Resolve
    <2> QED
      BY <2>1, <2>2, <2>3, Zenon DEF Prepared
  <1>3. [u \in S |-> Prepared(u, f[u])] \in [S -> Operation]
    BY <1>2
  <1> QED
    BY <1>1, <1>3 DEF Plans

\* The table keeps its shape when flags are set.
LEMMA SetFlagsType ==
  ASSUME TypeOK, NEW S \in SUBSET Users, NEW flags, SetFlags(S, flags)
  PROVE  users' \subseteq Users /\ admins' \subseteq users' /\ active' \subseteq users'
  BY DEF SetFlags, TypeOK

-----------------------------------------------------------------------------

\* Every step keeps the types.
LEMMA TypeStep == ASSUME IInv, [Next]_vars PROVE TypeOK'
  <1> USE UserAdminAssumption DEF IInv, TypeOK, vars, tableVars, formVars, Goto, RequestPCs,
          Overtake
  <1>1. CASE UNCHANGED vars
    BY <1>1
  <1>2. CASE Restart \/ SeedAdmin
    BY <1>2 DEF Restart, SeedAdmin
  <1> SUFFICES ASSUME NEW r \in Requests,
                      Arrive(r) \/ UserStep(r) \/ ImportStep(r) \/ ExpireSession(r) \/ Fail(r)
               PROVE  TypeOK'
    BY <1>1, <1>2 DEF Next
  <1>3. ASSUME NEW u \in Users, NEW o \in {"update", "create"}, NEW t \in Users,
               NEW w \in Flags, StartUser(r, u, o, t, w)
        PROVE  TypeOK'
    BY <1>3 DEF StartUser, Start, Ops
  <1>4. ASSUME NEW u \in Users, NEW f \in Files, StartPreview(r, u, f) PROVE TypeOK'
    BY <1>4 DEF StartPreview, Start, Ops
  <1>5. ASSUME NEW u \in Users, NEW p \in Requests, StartCommit(r, u, p) PROVE TypeOK'
    BY <1>5 DEF StartCommit, Start, Ops
  <1>6. CASE ReadUser(r) \/ CountForUpdate(r) \/ LookupEmail(r)
    BY <1>6 DEF ReadUser, CountForUpdate, LookupEmail
  <1>7. CASE UpdateUser(r) \/ InsertUser(r)
    <2>1. {target[r]} \in SUBSET Users
      BY <1>7 DEF UpdateUser, InsertUser, RequestsAreFilledIn
    <2>2. UNCHANGED tableVars \/ SetFlags({target[r]}, [u \in {target[r]} |-> want[r]])
      BY <1>7 DEF UpdateUser, InsertUser
    <2>3. users' \subseteq Users /\ admins' \subseteq users' /\ active' \subseteq users'
      BY <2>1, <2>2, SetFlagsType
    <2> QED
      BY <1>7, <2>3 DEF UpdateUser, InsertUser
  <1>8. CASE MatchRows(r)
    <2>1. PICK S \in SUBSET DOMAIN file[r] :
            plan' = [plan EXCEPT ![r] = [u \in S |-> Prepared(u, file[r][u])]]
      BY <1>8 DEF MatchRows
    <2>2. [u \in S |-> Prepared(u, file[r][u])] \in Plans
      BY PreparedPlan
    <2> QED
      BY <1>8, <2>1, <2>2 DEF MatchRows
  <1>9. CASE StoreSession(r)
    <2>1. errors' \in [Requests -> BOOLEAN]
      BY <1>9 DEF StoreSession
    <2> QED
      BY <1>9, <2>1 DEF StoreSession
  <1>10. CASE CountForCommit(r)
    <2>1. CountActiveAdmins \in Nat
      BY FS_CardinalityType, FS_Subset DEF CountActiveAdmins, ActiveAdmins
    <2> QED
      BY <1>10, <2>1 DEF CountForCommit
  <1>11. CASE LoadSession(r) \/ Validate(r) \/ DropSession(r)
    BY <1>11 DEF LoadSession, Validate, DropSession
  <1>12. CASE Import(r)
    <2> DEFINE p == plan[preview[r]]
    <2>1. preview[r] \in Requests
      BY <1>12 DEF Import, RequestsAreFilledIn
    <2>2. DOMAIN p \in SUBSET Users
      BY <2>1, PlanDomain
    <2>3. UNCHANGED tableVars \/ SetFlags(DOMAIN p, p)
      BY <1>12 DEF Import
    <2> HIDE DEF p
    <2>4. users' \subseteq Users /\ admins' \subseteq users' /\ active' \subseteq users'
      BY <2>2, <2>3, SetFlagsType
    <2> QED
      BY <1>12, <2>1, <2>4 DEF Import
  <1>13. CASE ExpireSession(r) \/ Fail(r)
    BY <1>13 DEF ExpireSession, Fail
  <1> QED
    BY <1>3, <1>4, <1>5, <1>6, <1>7, <1>8, <1>9, <1>10, <1>11, <1>12, <1>13
       DEF Arrive, UserStep, ImportStep

\* The parts of the invariant about previews and their commits.
LEMMA PreviewStep ==
  ASSUME IInv, [Next]_vars
  PROVE  RequestsAreFilledIn' /\ CommitsOwnPreview'
  <1> DEFINE Goal == RequestsAreFilledIn /\ CommitsOwnPreview
  <1> USE UserAdminAssumption DEF IInv, TypeOK, RequestsAreFilledIn, CommitsOwnPreview, vars,
          tableVars, formVars, Goto
  <1>1. CASE UNCHANGED vars
    BY <1>1
  <1>2. CASE Restart \/ SeedAdmin
    BY <1>2 DEF Restart, SeedAdmin, InFlight
  <1> SUFFICES ASSUME NEW r \in Requests,
                      Arrive(r) \/ UserStep(r) \/ ImportStep(r) \/ ExpireSession(r) \/ Fail(r)
               PROVE  Goal'
    BY <1>1, <1>2 DEF Next
  <1>3. ASSUME NEW u \in Users, NEW o \in {"update", "create"}, NEW t \in Users,
               NEW w \in Flags, StartUser(r, u, o, t, w)
        PROVE  Goal'
    BY <1>3 DEF StartUser, Start
  <1>4. ASSUME NEW u \in Users, NEW f \in Files, StartPreview(r, u, f) PROVE Goal'
    BY <1>4 DEF StartPreview, Start
  <1>5. ASSUME NEW u \in Users, NEW p \in Requests, StartCommit(r, u, p) PROVE Goal'
    BY <1>5 DEF StartCommit, Start
  <1>6. CASE UserStep(r)
    BY <1>6 DEF UserStep, ReadUser, CountForUpdate, LookupEmail, UpdateUser, InsertUser
  <1>7. CASE MatchRows(r)
    BY <1>7 DEF MatchRows
  <1>8. CASE StoreSession(r)
    BY <1>8 DEF StoreSession
  <1>9. CASE LoadSession(r)
    BY <1>9 DEF LoadSession
  <1>10. CASE CountForCommit(r) \/ Validate(r) \/ DropSession(r)
    BY <1>10 DEF CountForCommit, Validate, DropSession
  <1>11. CASE Import(r)
    BY <1>11 DEF Import
  <1>12. CASE ExpireSession(r) \/ Fail(r)
    BY <1>12 DEF ExpireSession, Fail, InFlight
  <1> QED
    BY <1>3, <1>4, <1>5, <1>6, <1>7, <1>8, <1>9, <1>10, <1>11, <1>12
       DEF Arrive, ImportStep

\* An import that creates users finds them when it is applied once more.
LEMMA AppliedStep ==
  ASSUME IInv, [Next]_vars
  PROVE  AppliedMeansCreated' /\ CreationsHappenOnce'
  <1> DEFINE Goal == AppliedMeansCreated /\ CreationsHappenOnce
  <1> USE UserAdminAssumption DEF IInv, TypeOK, vars, tableVars, formVars, Goto
  <1>0. ASSUME UNCHANGED <<plan, applied>>, users \subseteq users' PROVE Goal'
    BY <1>0 DEF AppliedMeansCreated, CreationsHappenOnce
  <1>1. CASE UNCHANGED vars \/ Restart \/ SeedAdmin
    BY <1>0, <1>1 DEF Restart, SeedAdmin
  <1> SUFFICES ASSUME NEW r \in Requests,
                      Arrive(r) \/ UserStep(r) \/ ImportStep(r) \/ ExpireSession(r) \/ Fail(r)
               PROVE  Goal'
    BY <1>1 DEF Next
  <1>2. CASE Arrive(r)
    BY <1>0, <1>2 DEF Arrive, StartUser, StartPreview, StartCommit, Start
  <1>3. CASE UserStep(r)
    BY <1>0, <1>3 DEF UserStep, ReadUser, CountForUpdate, LookupEmail, UpdateUser, InsertUser,
                      SetFlags
  <1>4. CASE MatchRows(r)
    <2>1. applied[r] = 0
      BY <1>4 DEF MatchRows, RequestsAreFilledIn
    <2>2. PICK new : plan' = [plan EXCEPT ![r] = new]
      BY <1>4 DEF MatchRows
    <2>3. \A q \in Requests : q # r => plan'[q] = plan[q]
      BY <2>2
    <2>4. UNCHANGED <<users, applied>>
      BY <1>4 DEF MatchRows
    <2> QED
      BY <2>1, <2>3, <2>4 DEF AppliedMeansCreated, CreationsHappenOnce
  <1>5. CASE StoreSession(r) \/ LoadSession(r) \/ CountForCommit(r) \/ Validate(r) \/ DropSession(r)
    BY <1>0, <1>5 DEF StoreSession, LoadSession, CountForCommit, Validate, DropSession
  <1>6. CASE Import(r)
    <2> DEFINE p == preview[r]
    <2>1. p \in Requests
      BY <1>6 DEF Import, RequestsAreFilledIn
    <2>2. CASE Conflict(plan[p])
      BY <1>0, <1>6, <2>2 DEF Import
    <2>3. CASE ~Conflict(plan[p])
      <3>1. /\ users' = users \cup DOMAIN plan[p]
            /\ plan' = plan
            /\ applied' = [applied EXCEPT ![p] = @ + 1]
        BY <1>6, <2>3 DEF Import, SetFlags
      <3>2. \A u \in DOMAIN plan[p] : plan[p][u].new => u \notin users
        BY <2>3 DEF Conflict
      <3>3. (\E u \in DOMAIN plan[p] : plan[p][u].new) => applied[p] = 0
        BY <2>1, <3>2 DEF AppliedMeansCreated
      <3> HIDE DEF p
      <3>4. AppliedMeansCreated'
        BY <2>1, <3>1 DEF AppliedMeansCreated
      <3>5. CreationsHappenOnce'
        BY <2>1, <3>1, <3>3 DEF CreationsHappenOnce
      <3> QED
        BY <3>4, <3>5
    <2> QED
      BY <2>2, <2>3
  <1>7. CASE ExpireSession(r) \/ Fail(r)
    BY <1>0, <1>7 DEF ExpireSession, Fail
  <1> QED
    BY <1>2, <1>3, <1>4, <1>5, <1>6, <1>7 DEF ImportStep

\* A count goes out of date only with a write, which makes its request stale.
LEMMA CountsStep == ASSUME IInv, [Next]_vars PROVE FreshCountsHold'
  <1> USE UserAdminAssumption DEF TypeOK, vars, formVars, Goto
  <1>0. ASSUME ActiveAdmins' = ActiveAdmins, UNCHANGED <<plan, stale>>, NEW r \in Requests,
               \A q \in Requests \ {r} : pc'[q] \in {"write", "validate"} =>
                 /\ pc'[q] = pc[q] /\ op'[q] = op[q] /\ target'[q] = target[q]
                 /\ want'[q] = want[q] /\ preview'[q] = preview[q] /\ tally'[q] = tally[q],
               r \in stale \/
                 /\ op'[r] = "update" /\ pc'[r] = "write"
                      => (RemovesActiveAdmin(target'[r], want'[r]) => CountActiveAdmins > 1)
                 /\ op'[r] = "commit" /\ pc'[r] = "validate" => tally'[r] = CountActiveAdmins
                 /\ op'[r] = "commit" /\ pc'[r] = "write" =>
                      LET p == plan[preview'[r]] IN
                        DOMAIN p = {} \/ CountActiveAdmins + Delta(p, Before(p)) >= 1
        PROVE  FreshCountsHold'
    <2>1. \A p : Before(p)' = Before(p) /\ Delta(p, Before(p))' = Delta(p, Before(p))
      BY <1>0 DEF Before, Delta, Gains, Losses
    <2>2. /\ CountActiveAdmins' = CountActiveAdmins
          /\ \A t, w : RemovesActiveAdmin(t, w)' <=> RemovesActiveAdmin(t, w)
      BY <1>0 DEF CountActiveAdmins, RemovesActiveAdmin
    <2> SUFFICES ASSUME NEW q \in Requests \ stale
                 PROVE  /\ op'[q] = "update" /\ pc'[q] = "write"
                             => (RemovesActiveAdmin(target'[q], want'[q]) => CountActiveAdmins > 1)
                        /\ op'[q] = "commit" /\ pc'[q] = "validate" => tally'[q] = CountActiveAdmins
                        /\ op'[q] = "commit" /\ pc'[q] = "write" =>
                             LET p == plan[preview'[q]] IN
                               DOMAIN p = {} \/ CountActiveAdmins + Delta(p, Before(p)) >= 1
      BY <1>0, <2>1, <2>2 DEF FreshCountsHold
    <2>3. CASE q = r
      BY <1>0, <2>3
    <2>4. CASE q # r
      BY <1>0, <2>4 DEF IInv, FreshCountsHold
    <2> QED
      BY <2>3, <2>4
  <1>u. ASSUME ActiveAdmins' = ActiveAdmins, UNCHANGED <<formVars, plan, tally, stale>>,
               \A q \in Requests : pc'[q] \in {"write", "validate"} => pc'[q] = pc[q]
        PROVE  FreshCountsHold'
    <2>1. /\ CountActiveAdmins' = CountActiveAdmins
          /\ \A t, w : RemovesActiveAdmin(t, w)' <=> RemovesActiveAdmin(t, w)
          /\ \A p : Before(p)' = Before(p) /\ Delta(p, Before(p))' = Delta(p, Before(p))
      BY <1>u DEF CountActiveAdmins, RemovesActiveAdmin, Before, Delta, Gains, Losses
    <2>2. \A q \in Requests : pc'[q] \in {"write", "validate"} =>
            /\ pc[q] = pc'[q] /\ op'[q] = op[q] /\ target'[q] = target[q]
            /\ want'[q] = want[q] /\ preview'[q] = preview[q] /\ tally'[q] = tally[q]
      BY <1>u
    <2> QED
      BY <1>u, <2>1, <2>2 DEF IInv, FreshCountsHold
  <1>1. CASE UNCHANGED vars
    BY <1>1, <1>u DEF tableVars, ActiveAdmins
  <1>2. CASE Restart
    <2>1. UNCHANGED <<admins, active, formVars, plan, tally, stale>>
          /\ \A q \in Requests : pc'[q] \notin {"write", "validate"}
      BY <1>2 DEF Restart, tableVars, IInv, InFlight
    <2> QED
      BY <2>1 DEF FreshCountsHold
  <1>3. CASE SeedAdmin
    <2>1. ActiveAdmins' = ActiveAdmins
      BY <1>3 DEF SeedAdmin, ActiveAdmins, IInv
    <2> QED
      BY <1>3, <1>u, <2>1 DEF SeedAdmin
  <1> SUFFICES ASSUME NEW r \in Requests,
                      Arrive(r) \/ UserStep(r) \/ ImportStep(r) \/ ExpireSession(r) \/ Fail(r)
               PROVE  FreshCountsHold'
    BY <1>1, <1>2, <1>3 DEF Next
  <1>4. CASE Arrive(r)
    <2>1. /\ pc' = [pc EXCEPT ![r] = "read"]
          /\ UNCHANGED <<tableVars, plan, tally, stale>>
          /\ \A q \in Requests : q # r => /\ op'[q] = op[q] /\ target'[q] = target[q]
                                         /\ want'[q] = want[q] /\ preview'[q] = preview[q]
      BY <1>4 DEF IInv, Arrive, StartUser, StartPreview, StartCommit, Start
    <2> QED
      BY <1>0, <2>1 DEF IInv, tableVars, ActiveAdmins
  <1>5. CASE ReadUser(r)
    <2>1. pc'[r] = "write" => ~RemovesActiveAdmin(target[r], want[r])
      BY <1>5 DEF ReadUser, IInv
    <2> QED
      BY <1>0, <1>5, <2>1 DEF ReadUser, IInv, tableVars, ActiveAdmins
  <1>6. CASE CountForUpdate(r)
    <2>1. CountActiveAdmins \in Nat
      BY FS_CardinalityType, FS_Subset DEF CountActiveAdmins, ActiveAdmins, IInv
    <2>2. pc'[r] = "write" => CountActiveAdmins > 1
      BY <1>6, <2>1 DEF CountForUpdate, IInv
    <2> QED
      BY <1>0, <1>6, <2>2 DEF CountForUpdate, IInv, tableVars, ActiveAdmins
  <1>7. CASE UpdateUser(r) \/ InsertUser(r) \/ Import(r)
    <2>1. pc'[r] \notin {"write", "validate"} /\ \A q \in Requests \ {r} : pc'[q] = pc[q]
      BY <1>7 DEF UpdateUser, InsertUser, Import, IInv
    <2>2. CASE Overtake(r)
      BY <2>1, <2>2 DEF Overtake, FreshCountsHold
    <2>3. CASE UNCHANGED <<tableVars, stale>>
      BY <1>0, <1>7, <2>1, <2>3 DEF UpdateUser, InsertUser, Import, tableVars, ActiveAdmins
    <2> QED
      BY <1>7, <2>2, <2>3 DEF UpdateUser, InsertUser, Import
  <1>8. CASE LookupEmail(r)
    BY <1>0, <1>8 DEF LookupEmail, IInv, tableVars, ActiveAdmins
  <1>9. CASE MatchRows(r)
    <2>1. /\ op[r] = "preview" /\ pc[r] = "read"
          /\ pc' = [pc EXCEPT ![r] = "count"]
          /\ UNCHANGED <<tableVars, formVars, tally, stale>>
      BY <1>9 DEF MatchRows
    <2>2. \A q \in Requests : q # r => plan'[q] = plan[q]
      BY <1>9 DEF MatchRows, IInv
    <2>3. \A q \in Requests : op[q] = "commit" /\ pc[q] \in {"write", "validate"} => preview[q] # r
      BY <2>1 DEF IInv, CommitsOwnPreview
    <2>4. \A q \in Requests : op[q] = "commit" => preview[q] \in Requests
      BY DEF IInv, RequestsAreFilledIn
    <2>5. ActiveAdmins' = ActiveAdmins
      BY <2>1 DEF tableVars, ActiveAdmins
    <2>6. /\ CountActiveAdmins' = CountActiveAdmins
          /\ \A t, w : RemovesActiveAdmin(t, w)' <=> RemovesActiveAdmin(t, w)
          /\ \A p : Before(p)' = Before(p) /\ Delta(p, Before(p))' = Delta(p, Before(p))
      BY <2>5 DEF CountActiveAdmins, RemovesActiveAdmin, Before, Delta, Gains, Losses
    <2>7. \A q \in Requests : pc'[q] \in {"write", "validate"} => pc[q] = pc'[q]
      BY <2>1 DEF IInv
    <2> QED
      BY <2>1, <2>2, <2>3, <2>4, <2>6, <2>7 DEF IInv, FreshCountsHold
  <1>10. CASE StoreSession(r)
    BY <1>0, <1>10 DEF StoreSession, IInv, tableVars, ActiveAdmins
  <1>11. CASE LoadSession(r)
    <2>1. pc'[r] # "validate" /\ op[r] = "commit"
          /\ (pc'[r] = "write" => DOMAIN plan[preview[r]] = {})
      BY <1>11 DEF LoadSession, IInv
    <2> QED
      BY <1>0, <1>11, <2>1 DEF LoadSession, IInv, tableVars, ActiveAdmins
  <1>12. CASE CountForCommit(r)
    <2>1. op[r] = "commit" /\ pc'[r] = "validate" /\ tally'[r] = CountActiveAdmins
      BY <1>12 DEF CountForCommit, IInv
    <2> QED
      BY <1>0, <1>12, <2>1 DEF CountForCommit, IInv, tableVars, ActiveAdmins
  <1>13. CASE Validate(r)
    <2> DEFINE p == plan[preview[r]]
    <2>1. op[r] = "commit" /\ pc[r] = "validate" /\ pc'[r] # "validate"
      BY <1>13 DEF Validate, IInv
    <2>2. CountActiveAdmins \in Int /\ Delta(p, Before(p)) \in Int
      <3>1. preview[r] \in Requests
        BY <1>13 DEF Validate, IInv, RequestsAreFilledIn
      <3>2. IsFiniteSet(DOMAIN p)
        BY <3>1, PlanDomain, FS_Subset DEF IInv
      <3>3. IsFiniteSet(Gains(p, Before(p))) /\ IsFiniteSet(Losses(p, Before(p)))
        BY <3>2, FS_Subset DEF Gains, Losses
      <3>4. IsFiniteSet(ActiveAdmins)
        BY FS_Subset DEF ActiveAdmins, IInv
      <3> QED
        BY <3>3, <3>4, FS_CardinalityType DEF Delta, CountActiveAdmins
    <2>3. pc'[r] = "write" => ~(tally[r] + Delta(p, Before(p)) < 1)
      BY <1>13 DEF Validate, IInv
    <2>4. r \notin stale => tally[r] = CountActiveAdmins
      BY <2>1 DEF IInv, FreshCountsHold
    <2>5. r \notin stale /\ pc'[r] = "write" => CountActiveAdmins + Delta(p, Before(p)) >= 1
      BY <2>2, <2>3, <2>4
    <2> QED
      BY <1>0, <1>13, <2>1, <2>5 DEF Validate, IInv, tableVars, ActiveAdmins
  <1>14. CASE DropSession(r) \/ ExpireSession(r) \/ Fail(r)
    <2>1. pc'[r] = pc[r] \/ pc'[r] \notin {"write", "validate"}
      BY <1>14 DEF DropSession, ExpireSession, Fail, IInv
    <2>2. /\ \A q \in Requests : pc'[q] \in {"write", "validate"} => pc'[q] = pc[q]
          /\ UNCHANGED <<tableVars, formVars, plan, tally, stale>>
      BY <1>14, <2>1 DEF DropSession, ExpireSession, Fail, IInv
    <2> QED
      BY <1>u, <2>2 DEF tableVars, ActiveAdmins
  <1> QED
    BY <1>4, <1>5, <1>6, <1>7, <1>8, <1>9, <1>10, <1>11, <1>12, <1>13, <1>14
       DEF UserStep, ImportStep

\* The inductive invariant holds in every reachable state, for all constants.
THEOREM InvariantHolds == Spec => []IInv
  <1>1. IInv /\ [Next]_vars => IInv'
    BY TypeStep, PreviewStep, AppliedStep, CountsStep DEF IInv
  <1> QED
    BY InitInv, <1>1, PTL DEF Spec

\* The variables of UserAdmin keep their types (TypeOK).
THEOREM TypeCorrect == Spec => []TypeOK
  <1>1. IInv => TypeOK
    BY DEF IInv
  <1> QED
    BY InvariantHolds, <1>1, PTL

\* An import with new users takes effect at most once (CreationsHappenOnce).
THEOREM CreationsAreNotRepeated == Spec => []CreationsHappenOnce
  <1>1. IInv => CreationsHappenOnce
    BY DEF IInv
  <1> QED
    BY InvariantHolds, <1>1, PTL

\* Nobody commits the preview of somebody else, or one in error (OwnPreviewsOnly).
THEOREM PreviewsAreOwn == Spec => []OwnPreviewsOnly
  <1>1. IInv => OwnPreviewsOnly
    BY DEF IInv, CommitsOwnPreview, OwnPreviewsOnly
  <1> QED
    BY InvariantHolds, <1>1, PTL

-----------------------------------------------------------------------------
(* The last active administrator.                                          *)

\* An update that the count has let through leaves an active administrator.
LEMMA UpdateKeepsAnAdmin ==
  ASSUME IInv, ActiveAdmins # {}, NEW r \in Requests \ stale, UpdateUser(r)
  PROVE  ActiveAdmins' # {}
  <1> DEFINE t == target[r]
  <1>1. ActiveAdmins' = IF want[r].admin /\ want[r].active
                          THEN ActiveAdmins \cup {t} ELSE ActiveAdmins \ {t}
    BY DEF UpdateUser, SetFlags, ActiveAdmins
  <1>2. CASE want[r].admin /\ want[r].active
    BY <1>1, <1>2
  <1>3. CASE ~(want[r].admin /\ want[r].active) /\ t \notin ActiveAdmins
    BY <1>1, <1>3
  <1>4. CASE ~(want[r].admin /\ want[r].active) /\ t \in ActiveAdmins
    <2>1. CountActiveAdmins > 1
      BY <1>4 DEF IInv, FreshCountsHold, UpdateUser, RemovesActiveAdmin
    <2>2. Cardinality({t}) = 1
      BY FS_Singleton
    <2>3. ActiveAdmins # {t}
      BY <2>1, <2>2 DEF CountActiveAdmins
    <2> QED
      BY <1>1, <1>4, <2>3
  <1> QED
    BY <1>2, <1>3, <1>4

\* So does an import: active administrators that it does not touch stay, and if
\* it touches all of them, it makes more than it takes away.
LEMMA ImportKeepsAnAdmin ==
  ASSUME IInv, ActiveAdmins # {}, NEW r \in Requests \ stale, Import(r)
  PROVE  ActiveAdmins' # {}
  <1> DEFINE p == plan[preview[r]]
  <1>1. CASE Conflict(p)
    BY <1>1 DEF Import, tableVars, ActiveAdmins
  <1>2. CASE ~Conflict(p)
    <2>1. ActiveAdmins' = (ActiveAdmins \ DOMAIN p)
                            \cup {u \in DOMAIN p : p[u].admin /\ p[u].active}
      BY <1>2 DEF Import, SetFlags, ActiveAdmins
    <2>2. Before(p) = DOMAIN p \cap ActiveAdmins
      BY <1>2 DEF Conflict, Before, ActiveAdmins, IInv, TypeOK
    <2> SUFFICES ASSUME ActiveAdmins' = {} PROVE FALSE
      OBVIOUS
    <2>3. Gains(p, Before(p)) = {}
      BY <2>1 DEF Gains
    <2>4. Losses(p, Before(p)) = ActiveAdmins
      BY <2>1, <2>2 DEF Losses
    <2>5. DOMAIN p # {}
      BY <2>1
    <2>6. CountActiveAdmins + Delta(p, Before(p)) >= 1
      BY <2>5 DEF IInv, FreshCountsHold, Import
    <2>7. Cardinality({}) = 0 /\ CountActiveAdmins \in Nat
      BY FS_EmptySet, FS_Subset, FS_CardinalityType, UserAdminAssumption
         DEF CountActiveAdmins, ActiveAdmins, IInv, TypeOK
    <2>8. Delta(p, Before(p)) = 0 - CountActiveAdmins
      BY <2>3, <2>4, <2>7 DEF Delta, CountActiveAdmins
    <2> QED
      BY <2>6, <2>7, <2>8
  <1> QED
    BY <1>1, <1>2

\* The last active administrator is only taken away by a request that another
\* one has overtaken (OnlyStaleLeavesNoAdmin), whatever workbooks were previewed
\* however long before.
THEOREM OnlyStaleRequestsLeaveNoAdmin == Spec => OnlyStaleLeavesNoAdmin
  <1> DEFINE A == ActiveAdmins # {} /\ ActiveAdmins' = {}
                    => \E r \in stale : UpdateUser(r) \/ Import(r)
  <1>1. ASSUME IInv, [Next]_vars, ActiveAdmins # {}, ActiveAdmins' = {}
        PROVE  \E r \in stale : UpdateUser(r) \/ Import(r)
    <2>1. ~UNCHANGED tableVars /\ ~SeedAdmin
      BY <1>1 DEF tableVars, SeedAdmin, ActiveAdmins
    <2>2. ASSUME NEW r \in Requests PROVE ~InsertUser(r)
      BY <1>1 DEF InsertUser, SetFlags, tableVars, ActiveAdmins, IInv, TypeOK
    <2>3. ASSUME NEW r \in Requests,
                 \/ Arrive(r) \/ ExpireSession(r) \/ Fail(r)
                 \/ ReadUser(r) \/ CountForUpdate(r) \/ LookupEmail(r)
                 \/ MatchRows(r) \/ StoreSession(r) \/ LoadSession(r)
                 \/ CountForCommit(r) \/ Validate(r) \/ DropSession(r)
          PROVE  UNCHANGED tableVars
      BY <2>3 DEF Arrive, StartUser, StartPreview, StartCommit, Start, ExpireSession, Fail,
             ReadUser, CountForUpdate, LookupEmail, MatchRows, StoreSession, LoadSession,
             CountForCommit, Validate, DropSession
    <2>4. PICK r \in Requests : UpdateUser(r) \/ Import(r)
      BY <1>1, <2>1, <2>2, <2>3 DEF Next, UserStep, ImportStep, Restart, vars
    <2>5. r \in stale
      BY <1>1, <2>4, UpdateKeepsAnAdmin, ImportKeepsAnAdmin
    <2> QED
      BY <2>4, <2>5
  <1>2. IInv /\ [Next]_vars => [A]_vars
    BY <1>1
  <1> QED
    BY InvariantHolds, <1>2, PTL DEF Spec, OnlyStaleLeavesNoAdmin
=============================================================================
