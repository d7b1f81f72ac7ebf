------------------------ MODULE DriveConnection_proofs ------------------------
(***************************************************************************)
(* DriveConnection for any number of attempts to connect, videos and calls,*)
(* and any delays that a duration can hold.                                *)
(***************************************************************************)
EXTENDS DriveConnection, TLAPS

\* The initial state satisfies the invariant.
LEMMA InitInv == Init => IInv
  <1> SUFFICES ASSUME Init PROVE IInv
    OBVIOUS
  <1> USE DriveConnectionAssumption DEF Init
  <1>1. NoCall \in CallStates
    BY DEF NoCall, CallStates, CallPCs, Verdicts
  <1>2. 0 \in Durations
    BY DEF Durations
  <1>3. TypeOK
    <2>1. status \in [Videos -> Statuses] /\ flow \in [Connects -> FlowPCs]
      BY DEF FlowPCs, Statuses
    <2>2. attempt \in [Videos -> 0 .. MaxAttempts] /\ delay \in [Videos -> Durations]
      BY <1>2
    <2>3. call \in [Calls -> CallStates]
      BY <1>1
    <2> QED
      BY <2>1, <2>2, <2>3 DEF TypeOK
  <1>4. CallsKnow
    BY DEF CallsKnow, Knows, NoCall
  <1>5. TokensAreNew /\ VideosAreHeld
    BY DEF TokensAreNew, VideosAreHeld, NoCall
  <1>6. ErrorIsOfTheConnection /\ BlockedForThisConnection /\ DelaysAreExplained
    BY DEF ErrorIsOfTheConnection, BlockedForThisConnection, DelaysAreExplained
  <1> QED
    BY <1>3, <1>4, <1>5, <1>6 DEF IInv

-----------------------------------------------------------------------------
(* What the helpers do.                                                    *)

\* Become changes one call.
LEMMA BecomeEffect ==
  ASSUME TypeOK, NEW k \in Calls, NEW state \in CallStates, Become(k, state)
  PROVE  /\ call' \in [Calls -> CallStates]
         /\ call'[k] = state
         /\ \A j \in Calls \ {k} : call'[j] = call[j]
  BY DEF Become, TypeOK

\* Goto changes where a call is.
LEMMA GotoEffect ==
  ASSUME TypeOK, NEW k \in Calls, NEW where \in CallPCs, Goto(k, where)
  PROVE  /\ call' \in [Calls -> CallStates]
         /\ \A j \in Calls \ {k} : call'[j] = call[j]
         /\ call'[k].pc = where /\ call'[k].work = call[k].work
         /\ call'[k].view = call[k].view /\ call'[k].verdict = call[k].verdict
         /\ call'[k].late = call[k].late
  <1> DEFINE state == [call[k] EXCEPT !.pc = where]
  <1>0. call[k] \in CallStates
    BY DEF TypeOK
  <1>1. state \in CallStates
    BY <1>0 DEF CallStates
  <1>2. /\ state.pc = where /\ state.work = call[k].work /\ state.view = call[k].view
        /\ state.verdict = call[k].verdict /\ state.late = call[k].late
    BY <1>0 DEF CallStates
  <1>3. Become(k, state)
    BY DEF Goto
  <1> HIDE DEF state
  <1> QED
    BY <1>1, <1>2, <1>3, BecomeEffect

\* A call that is over is gone, or has a verdict to note for its video.
LEMMA OverEffect ==
  ASSUME TypeOK, NEW k \in Calls, NEW v \in Verdicts, Over(k, v)
  PROVE  /\ call' \in [Calls -> CallStates]
         /\ \A j \in Calls \ {k} : call'[j] = call[j]
         /\ \/ call'[k] = NoCall
            \/ /\ call'[k].pc = "mark" /\ call'[k].work = call[k].work /\ call[k].work \in Videos
               /\ call'[k].view = call[k].view /\ call'[k].verdict = v
               /\ call'[k].late = call[k].late
  <1>0. call[k] \in CallStates
    BY DEF TypeOK
  <1>1. CASE call[k].work = Folders
    <2>1. NoCall \in CallStates
      BY DriveConnectionAssumption DEF NoCall, CallStates, CallPCs, Verdicts
    <2>2. Become(k, NoCall)
      BY <1>1 DEF Over
    <2> QED
      BY <2>1, <2>2, BecomeEffect
  <1>2. CASE call[k].work # Folders
    <2> DEFINE state == [call[k] EXCEPT !.pc = "mark", !.verdict = v]
    <2>1. state \in CallStates
      BY <1>0 DEF CallStates, CallPCs
    <2>2. /\ state.pc = "mark" /\ state.work = call[k].work /\ state.view = call[k].view
          /\ state.verdict = v /\ state.late = call[k].late
      BY <1>0 DEF CallStates
    <2>3. Become(k, state)
      BY <1>2 DEF Over
    <2>4. call[k].work \in Videos
      BY <1>0, <1>2 DEF CallStates
    <2> HIDE DEF state
    <2> QED
      BY <2>1, <2>2, <2>3, <2>4, BecomeEffect
  <1> QED
    BY <1>1, <1>2

\* All calls that have read the connection are late.
LEMMA OvertakeEffect ==
  ASSUME TypeOK, Overtake
  PROVE  /\ call' \in [Calls -> CallStates]
         /\ \A k \in Calls :
              /\ call'[k].pc = call[k].pc /\ call'[k].work = call[k].work
              /\ call'[k].view = call[k].view /\ call'[k].verdict = call[k].verdict
              /\ call[k].pc \notin {"idle", "read"} => call'[k].late
              /\ call[k].pc = "read" => call'[k].late = call[k].late
  <1> SUFFICES ASSUME NEW k \in Calls
               PROVE  /\ call'[k] \in CallStates
                      /\ call'[k].pc = call[k].pc /\ call'[k].work = call[k].work
                      /\ call'[k].view = call[k].view /\ call'[k].verdict = call[k].verdict
                      /\ call[k].pc \notin {"idle", "read"} => call'[k].late
                      /\ call[k].pc = "read" => call'[k].late = call[k].late
    BY DEF Overtake
  <1>0. call[k] \in CallStates
    BY DEF TypeOK
  <1> DEFINE late == call[k].late \/ call[k].pc \notin {"idle", "read"}
  <1>1. late \in BOOLEAN
    OBVIOUS
  <1>2. call'[k] = [call[k] EXCEPT !.late = late]
    BY DEF Overtake
  <1>3. /\ call[k].pc \notin {"idle", "read"} => late
        /\ call[k].pc = "read" => late = call[k].late
    BY <1>0 DEF CallStates
  <1> HIDE DEF late
  <1> QED
    BY <1>0, <1>1, <1>2, <1>3 DEF CallStates

-----------------------------------------------------------------------------
(* Steps of connecting.                                                    *)

\* A requeue leaves nothing blocked.
LEMMA RequeueStep ==
  ASSUME IInv, RequeueAll, UNCHANGED <<row, lastErr, good, call>>, lost' = FALSE,
         flow' \in [Connects -> FlowPCs],
         \A c \in Connects : flow'[c] = flow[c] \/ (flow[c] = "requeue" /\ flow'[c] = "done")
  PROVE  IInv'
  <1> USE DriveConnectionAssumption DEF IInv, RequeueAll, videoVars
  <1>1. TypeOK'
    <2>1. 0 \in Durations
      BY DEF Durations
    <2>2. status' \in [Videos -> Statuses]
      BY DEF TypeOK, Statuses
    <2>3. delay' \in [Videos -> Durations]
      BY <2>1 DEF TypeOK
    <2>4. why' \in [Videos -> Connects \cup {NoToken}]
      BY DEF TypeOK
    <2> QED
      BY <2>2, <2>3, <2>4 DEF TypeOK
  <1>2. CallsKnow'
    <2> SUFFICES ASSUME NEW k \in Calls PROVE Knows(call[k])'
      BY DEF CallsKnow
    <2>1. call[k] \in CallStates /\ Knows(call[k])
      BY DEF CallsKnow, TypeOK
    <2>2. call[k].view # NoToken => call[k].view \in Connects
      BY <2>1 DEF CallStates
    <2> QED
      BY <2>1, <2>2 DEF Knows
  <1>3. TokensAreNew'
    BY DEF TokensAreNew, TypeOK
  <1>4. VideosAreHeld'
    <2>1. \A v \in Videos : /\ status[v] = "uploading" => status'[v] = "uploading"
                            /\ status'[v] = status[v] \/ status'[v] = "pending"
      BY DEF TypeOK
    <2>2. \A k \in Calls : call[k].work # Folders => call[k].work \in Videos
      BY DEF TypeOK, CallStates
    <2> QED
      BY <2>1, <2>2 DEF VideosAreHeld
  <1>5. ErrorIsOfTheConnection'
    BY DEF ErrorIsOfTheConnection
  <1>6. BlockedForThisConnection'
    BY DEF BlockedForThisConnection, TypeOK
  <1>7. DelaysAreExplained'
    BY DEF DelaysAreExplained, TypeOK
  <1> QED
    BY <1>1, <1>2, <1>3, <1>4, <1>5, <1>6, <1>7

\* Steps of a flow that touch at most the tokens that Google accepts.
LEMMA FlowStep ==
  ASSUME IInv, NEW c \in Connects, flow[c] \in {"idle", "consent", "save"},
         flow' \in [Connects -> FlowPCs], \A d \in Connects \ {c} : flow'[d] = flow[d],
         flow[c] = "save" => flow'[c] \notin {"idle", "consent"},
         \/ good' = good
         \/ /\ good' = good \cup {c} /\ flow[c] \notin {"requeue", "done"}
            /\ flow'[c] \notin {"idle", "consent"},
         flow'[c] \in {"idle", "consent"} => c \notin good',
         UNCHANGED <<row, lastErr, videoVars, call, lost>>
  PROVE  IInv'
  <1> USE DriveConnectionAssumption DEF IInv, videoVars
  <1>0. row # c /\ (lastErr # NoError => lastErr.of # c)
    BY DEF TokensAreNew, TypeOK
  <1>1. TypeOK'
    BY DEF TypeOK
  <1>2. CallsKnow'
    <2> SUFFICES ASSUME NEW k \in Calls PROVE Knows(call[k])'
      BY DEF CallsKnow
    <2>1. call[k] \in CallStates /\ Knows(call[k])
      BY DEF CallsKnow, TypeOK
    <2>2. call[k].view # NoToken => call[k].view \in Connects \ {c}
      BY <2>1 DEF CallStates, Knows
    <2> QED
      BY <2>1, <2>2 DEF Knows
  <1>3. TokensAreNew'
    BY <1>0 DEF TokensAreNew, TypeOK
  <1>4. VideosAreHeld'
    BY DEF VideosAreHeld
  <1>5. ErrorIsOfTheConnection'
    BY <1>0 DEF ErrorIsOfTheConnection
  <1>6. BlockedForThisConnection'
    BY <1>0 DEF BlockedForThisConnection, TypeOK
  <1>7. DelaysAreExplained'
    BY DEF DelaysAreExplained
  <1> QED
    BY <1>1, <1>2, <1>3, <1>4, <1>5, <1>6, <1>7

\* The connection changes, and every call that has read it is late.
LEMMA OvertakeStep ==
  ASSUME IInv, Overtake,
         row' \in Connects \cup {NoToken}, lastErr' \in {lastErr, NoError},
         lastErr' = NoError \/ row' = row,
         good' \subseteq good,
         flow' \in [Connects -> FlowPCs],
         \A c \in Connects : \/ flow'[c] = flow[c]
                             \/ flow[c] \notin {"idle", "consent", "requeue"} /\ flow'[c] = "requeue",
         row' # NoToken => flow'[row'] \in {"requeue", "done"},
         row' \notin {NoToken, row} => flow'[row'] = "requeue",
         lost' \in BOOLEAN,
         row' = row => lost' = lost,
         UNCHANGED videoVars
  PROVE  IInv'
  <1> USE DriveConnectionAssumption DEF IInv, videoVars
  <1>0. /\ call' \in [Calls -> CallStates]
        /\ \A k \in Calls :
              /\ call'[k].pc = call[k].pc /\ call'[k].work = call[k].work
              /\ call'[k].view = call[k].view /\ call'[k].verdict = call[k].verdict
              /\ call[k].pc \notin {"idle", "read"} => call'[k].late
              /\ call[k].pc = "read" => call'[k].late = call[k].late
    BY OvertakeEffect
  <1>1. TypeOK'
    BY <1>0 DEF TypeOK
  <1>2. CallsKnow'
    <2> SUFFICES ASSUME NEW k \in Calls PROVE Knows(call[k])'
      BY DEF CallsKnow
    <2>1. call[k] \in CallStates /\ Knows(call[k])
      BY DEF CallsKnow, TypeOK
    <2>2. call[k].view # NoToken => call[k].view \in Connects
      BY <2>1 DEF CallStates
    <2> QED
      BY <1>0, <2>1, <2>2 DEF Knows
  <1>3. TokensAreNew'
    BY DEF TokensAreNew, TypeOK, NoError
  <1>4. VideosAreHeld'
    BY <1>0 DEF VideosAreHeld
  <1>5. ErrorIsOfTheConnection'
    BY DEF ErrorIsOfTheConnection
  <1>6. BlockedForThisConnection'
    BY DEF BlockedForThisConnection, TypeOK
  <1>7. DelaysAreExplained'
    BY DEF DelaysAreExplained
  <1> QED
    BY <1>1, <1>2, <1>3, <1>4, <1>5, <1>6, <1>7

-----------------------------------------------------------------------------
(* Steps of calls.                                                         *)

\* A call goes on, and may leave a note in the row.
LEMMA CallOnStep ==
  ASSUME IInv, NEW k \in Calls,
         call' \in [Calls -> CallStates], \A j \in Calls \ {k} : call'[j] = call[j],
         call'[k] = NoCall \/ Knows(call[k])',
         call'[k].work \in {call[k].work, Folders},
         \/ lastErr' = lastErr
         \/ lastErr' = NoError
         \/ /\ row # NoToken /\ lastErr' \in Errors /\ lastErr'.of = call[k].view
            /\ lastErr'.of = row \/ lastErr'.late
            /\ lastErr'.kind = "refused" => lastErr'.of \notin good,
         UNCHANGED <<row, good, flow, videoVars, lost>>
  PROVE  IInv'
  <1> USE DriveConnectionAssumption DEF IInv, videoVars
  <1>1. TypeOK'
    BY DEF TypeOK
  <1>2. CallsKnow'
    <2> SUFFICES ASSUME NEW j \in Calls PROVE Knows(call[j])'
      BY DEF CallsKnow
    <2>1. CASE j = k
      <3>1. CASE call'[k] = NoCall
        BY <2>1, <3>1 DEF Knows, NoCall
      <3> QED
        BY <2>1, <3>1
    <2>2. CASE j # k
      <3>1. Knows(call[j]) /\ call'[j] = call[j]
        BY <2>2 DEF CallsKnow
      <3> QED
        BY <3>1 DEF Knows
    <2> QED
      BY <2>1, <2>2
  <1>3. TokensAreNew'
    <2>1. call[k].view # NoToken => call[k].view \in Connects /\ flow[call[k].view] \in {"requeue", "done"}
      <3>1. call[k] \in CallStates /\ Knows(call[k])
        BY DEF CallsKnow, TypeOK
      <3> QED
        BY <3>1 DEF CallStates, Knows
    <2>2. lastErr' \in Errors => lastErr'.of # NoToken
      BY DEF Errors
    <2> QED
      BY <2>1, <2>2 DEF TokensAreNew
  <1>4. VideosAreHeld'
    <2>1. \A j \in Calls : call'[j].work \in {call[j].work, Folders}
      OBVIOUS
    <2> QED
      BY <2>1 DEF VideosAreHeld
  <1>5. ErrorIsOfTheConnection'
    BY DEF ErrorIsOfTheConnection
  <1>6. BlockedForThisConnection'
    BY DEF BlockedForThisConnection
  <1>7. DelaysAreExplained'
    BY DEF DelaysAreExplained
  <1> QED
    BY <1>1, <1>2, <1>3, <1>4, <1>5, <1>6, <1>7

\* What the steps of a call that write no video have in common.
LEMMA TokenSteps ==
  ASSUME IInv, NEW k \in Calls,
         \/ RefreshFolders(k) \/ Prevented(k) \/ TokenStep(k) \/ UseDrive(k) \/ DriveBlocks(k)
  PROVE  IInv'
  <1> USE DEF IInv, At
  <1>0. call[k] \in CallStates /\ Knows(call[k])
    BY DEF CallsKnow, TypeOK
  <1>1. CASE RefreshFolders(k)
    <2> DEFINE state == [NoCall EXCEPT !.pc = "read"]
    <2>1. /\ state \in CallStates /\ state.work = Folders /\ state.pc = "read"
          /\ ~state.late /\ state.view = NoToken
      BY DriveConnectionAssumption DEF NoCall, CallStates, CallPCs, Verdicts
    <2>2. Become(k, state)
      BY <1>1 DEF RefreshFolders
    <2> HIDE DEF state
    <2>4. /\ call' \in [Calls -> CallStates] /\ call'[k] = state
          /\ \A j \in Calls \ {k} : call'[j] = call[j]
      BY <2>1, <2>2, BecomeEffect
    <2>5. Knows(call[k])' /\ call'[k].work = Folders
      BY <2>1, <2>4 DEF Knows
    <2> QED
      BY <1>1, <2>4, <2>5, CallOnStep DEF RefreshFolders
  <1>2. ASSUME NEW v \in {"failed", "blocked", "uploaded"}, Over(k, v),
               v = "blocked" => call[k].late \/ call[k].view = row,
               \/ lastErr' = lastErr
               \/ lastErr' = NoError
               \/ /\ row # NoToken /\ lastErr' \in Errors /\ lastErr'.of = call[k].view
                  /\ lastErr'.of = row \/ lastErr'.late
                  /\ lastErr'.kind = "refused" => lastErr'.of \notin good,
               UNCHANGED <<row, good, flow, videoVars, lost>>
        PROVE  IInv'
    <2>0. v \in Verdicts /\ v # "none"
      BY DEF Verdicts
    <2>1. /\ call' \in [Calls -> CallStates]
          /\ \A j \in Calls \ {k} : call'[j] = call[j]
          /\ \/ call'[k] = NoCall
             \/ /\ call'[k].pc = "mark" /\ call'[k].work = call[k].work /\ call[k].work \in Videos
                /\ call'[k].view = call[k].view /\ call'[k].verdict = v
                /\ call'[k].late = call[k].late
      BY <1>2, <2>0, OverEffect
    <2>2. call'[k] = NoCall \/ Knows(call[k])'
      BY <1>0, <1>2, <2>0, <2>1 DEF Knows
    <2>3. call'[k].work \in {call[k].work, Folders}
      BY <2>1 DEF NoCall
    <2> QED
      BY <1>2, <2>1, <2>2, <2>3, CallOnStep
  <1>3. CASE Prevented(k)
    BY <1>2, <1>3 DEF Prevented
  <1>4. CASE NoConnection(k)
    BY <1>0, <1>2, <1>4 DEF NoConnection, Knows
  <1>5. CASE UseDrive(k)
    BY <1>2, <1>5 DEF UseDrive
  <1>6. CASE DriveBlocks(k)
    BY <1>0, <1>2, <1>6 DEF DriveBlocks, Knows
  <1>7. CASE ReadConnection(k)
    <2> DEFINE state == [call[k] EXCEPT !.pc = "token", !.view = row]
    <2>1. row \in Connects /\ flow[row] \in {"requeue", "done"}
      BY <1>7 DEF ReadConnection, TypeOK, TokensAreNew
    <2>2. state \in CallStates
      BY <1>0, <2>1 DEF CallStates, CallPCs
    <2>3. state.pc = "token" /\ state.view = row /\ state.work = call[k].work
      BY <1>0 DEF CallStates
    <2>4. Become(k, state)
      BY <1>7 DEF ReadConnection
    <2> HIDE DEF state
    <2>5. /\ call' \in [Calls -> CallStates] /\ call'[k] = state
          /\ \A j \in Calls \ {k} : call'[j] = call[j]
      BY <2>2, <2>4, BecomeEffect
    <2>6. Knows(call[k])'
      BY <1>7, <2>1, <2>3, <2>5 DEF Knows, ReadConnection
    <2> QED
      BY <1>7, <2>3, <2>5, <2>6, CallOnStep DEF ReadConnection
  <1>8. ASSUME NEW where \in {"markRefreshed", "drive"}, Goto(k, where),
               call[k].pc \in {"token", "markRefreshed"},
               call[k].late \/ call[k].view \in good,
               lastErr' = lastErr \/ lastErr' = NoError,
               UNCHANGED <<row, good, flow, videoVars, lost>>
        PROVE  IInv'
    <2>0. where \in CallPCs
      BY DEF CallPCs
    <2>1. /\ call' \in [Calls -> CallStates]
          /\ \A j \in Calls \ {k} : call'[j] = call[j]
          /\ call'[k].pc = where /\ call'[k].work = call[k].work
          /\ call'[k].view = call[k].view /\ call'[k].verdict = call[k].verdict
          /\ call'[k].late = call[k].late
      BY <1>8, <2>0, GotoEffect
    <2>2. Knows(call[k])'
      BY <1>0, <1>8, <2>1 DEF Knows
    <2> QED
      BY <1>8, <2>1, <2>2, CallOnStep
  <1>9. CASE Accepted(k)
    BY <1>8, <1>9 DEF Accepted
  <1>10. CASE MarkConnectionRefreshed(k)
    BY <1>0, <1>8, <1>10 DEF MarkConnectionRefreshed, Knows
  <1>11. ASSUME NEW v \in {"failed", "blocked"},
                Become(k, [call[k] EXCEPT !.pc = "markError", !.verdict = v]),
                call[k].pc = "token", v = "blocked" => call[k].view \notin good,
                UNCHANGED <<row, lastErr, good, flow, videoVars, lost>>
         PROVE  IInv'
    <2> DEFINE state == [call[k] EXCEPT !.pc = "markError", !.verdict = v]
    <2>1. state \in CallStates
      BY <1>0 DEF CallStates, CallPCs, Verdicts
    <2>2. /\ state.pc = "markError" /\ state.verdict = v /\ state.view = call[k].view
          /\ state.work = call[k].work /\ state.late = call[k].late
      BY <1>0 DEF CallStates
    <2>3. Become(k, state)
      BY <1>11
    <2> HIDE DEF state
    <2>4. /\ call' \in [Calls -> CallStates] /\ call'[k] = state
          /\ \A j \in Calls \ {k} : call'[j] = call[j]
      BY <2>1, <2>3, BecomeEffect
    <2>5. Knows(call[k])'
      BY <1>0, <1>11, <2>2, <2>4 DEF Knows
    <2> QED
      BY <1>11, <2>2, <2>4, <2>5, CallOnStep
  <1>12. CASE Refused(k)
    BY <1>11, <1>12 DEF Refused
  <1>13. CASE Trouble(k)
    BY <1>11, <1>13 DEF Trouble
  <1>14. CASE MarkConnectionError(k)
    <2> DEFINE note == [of |-> call[k].view, late |-> call[k].late,
                        kind |-> IF call[k].verdict = "blocked" THEN "refused" ELSE "trouble"]
    <2>1. /\ call[k].view \in Connects /\ (call[k].late \/ call[k].view = row)
          /\ call[k].verdict \in {"failed", "blocked"}
          /\ call[k].verdict = "blocked" => call[k].view \notin good
      BY <1>0, <1>14 DEF MarkConnectionError, Knows, CallStates
    <2>2. note \in Errors
      BY <1>0, <2>1 DEF Errors, CallStates
    <2>3. /\ note.of = call[k].view /\ note.late = call[k].late
          /\ note.kind = "refused" => call[k].verdict = "blocked"
      OBVIOUS
    <2>4. lastErr' = IF row = NoToken THEN lastErr ELSE note
      BY <1>14 DEF MarkConnectionError
    <2> HIDE DEF note
    <2> QED
      BY <1>2, <1>14, <2>1, <2>2, <2>3, <2>4 DEF MarkConnectionError
  <1>15. CASE MarkIsLost(k)
    <2>1. CASE At(k, "markError") /\ Over(k, call[k].verdict)
      <3>1. call[k].verdict \in {"failed", "blocked"} /\ (call[k].late \/ call[k].view = row)
        BY <1>0, <2>1 DEF Knows
      <3> QED
        BY <1>2, <1>15, <2>1, <3>1 DEF MarkIsLost
    <2>2. CASE At(k, "markRefreshed") /\ Goto(k, "drive")
      BY <1>0, <1>8, <1>15, <2>2 DEF MarkIsLost, Knows
    <2> QED
      BY <1>15, <2>1, <2>2 DEF MarkIsLost
  <1> QED
    BY <1>1, <1>3, <1>4, <1>5, <1>6, <1>7, <1>9, <1>10, <1>12, <1>13, <1>14, <1>15
       DEF TokenStep

\* A delay is a duration, and explained: the cap holds in every case, and only the
\* least duration is below what was asked for.
LEMMA RetryDelayBounds ==
  ASSUME NEW n \in 1 .. MaxAttempts, NEW d \in RetryDelay(n)
  PROVE  d \in Durations /\ Explained(n, d)
  <1> USE DriveConnectionAssumption
  <1>1. /\ n - 1 \in 0 .. MaxAttempts /\ 2 ^ (n - 1) \in Int /\ 2 ^ (n - 1) > 0
        /\ 2 ^ (Width - 1) \in Int /\ MaxDelay < 2 ^ (Width - 1)
    OBVIOUS
  <1> DEFINE power == 2 ^ (n - 1)
             limit == 2 ^ (Width - 1)
             x == BaseDelay * power
  <1>2. power \in Nat /\ power > 0 /\ limit \in Int /\ MaxDelay < limit
    BY <1>1
  <1>3. d \in {IF e > MaxDelay THEN MaxDelay ELSE e :
                 e \in IF x < limit THEN {x} ELSE {-limit, limit - 1}}
    BY DEF RetryDelay, ToDuration
  <1> HIDE DEF power, limit
  <1>4. x \in Int /\ BaseDelay <= x
    BY <1>2
  <1> HIDE DEF x
  <1>5. /\ d \in -limit .. (limit - 1) /\ d <= MaxDelay
        /\ d < BaseDelay /\ d < MaxDelay => x >= limit /\ d = -limit
    BY <1>2, <1>3, <1>4
  <1> QED
    BY <1>5 DEF Durations, Explained, Overflowed, power, limit, x

\* A worker takes a video that nobody has.
LEMMA ClaimStep ==
  ASSUME IInv, NEW k \in Calls, NEW v \in Videos, Claim(k, v)
  PROVE  IInv'
  <1> USE DriveConnectionAssumption DEF IInv, At
  <1> DEFINE state == [NoCall EXCEPT !.pc = "read", !.work = v]
  <1>1. /\ state \in CallStates /\ state.work = v /\ state.pc = "read"
        /\ ~state.late /\ state.view = NoToken
    BY DEF NoCall, CallStates, CallPCs, Verdicts
  <1>2. Become(k, state)
    BY DEF Claim
  <1> HIDE DEF state
  <1>3. /\ call' \in [Calls -> CallStates] /\ call'[k] = state
        /\ \A j \in Calls \ {k} : call'[j] = call[j]
    BY <1>1, <1>2, BecomeEffect
  <1>4. TypeOK'
    <2>1. status' \in [Videos -> Statuses] /\ attempt' \in [Videos -> 0 .. MaxAttempts]
      BY DEF Claim, TypeOK, Statuses
    <2>2. 0 \in Durations
      BY DEF Durations
    <2>3. delay' \in [Videos -> Durations]
      BY <2>2 DEF Claim, TypeOK
    <2> QED
      BY <1>3, <2>1, <2>3 DEF TypeOK, Claim
  <1>5. CallsKnow'
    <2> SUFFICES ASSUME NEW j \in Calls PROVE Knows(call[j])'
      BY DEF CallsKnow
    <2>1. CASE j = k
      BY <1>1, <1>3, <2>1 DEF Knows
    <2>2. CASE j # k
      <3>1. Knows(call[j]) /\ call'[j] = call[j]
        BY <1>3, <2>2 DEF CallsKnow
      <3> QED
        BY <3>1 DEF Knows, Claim
    <2> QED
      BY <2>1, <2>2
  <1>6. TokensAreNew'
    BY DEF TokensAreNew, Claim
  <1>7. VideosAreHeld'
    <2>1. \A j \in Calls \ {k} : call[j].work # v
      BY DEF VideosAreHeld, Claim
    <2>2. /\ status'[v] = "uploading" /\ attempt'[v] > 0
          /\ \A w \in Videos \ {v} : status'[w] = status[w] /\ attempt'[w] = attempt[w]
      BY DEF Claim, TypeOK
    <2>3. \A j \in Calls : call[j].work # Folders => call[j].work \in Videos
      BY DEF TypeOK, CallStates
    <2> QED
      BY <1>1, <1>3, <2>1, <2>2, <2>3 DEF VideosAreHeld
  <1>8. ErrorIsOfTheConnection'
    BY DEF ErrorIsOfTheConnection, Claim
  <1>9. BlockedForThisConnection'
    BY DEF BlockedForThisConnection, Claim, TypeOK
  <1>10. DelaysAreExplained'
    BY DEF DelaysAreExplained, Claim, TypeOK
  <1> QED
    BY <1>4, <1>5, <1>6, <1>7, <1>8, <1>9, <1>10

\* A worker notes the outcome of its video.
LEMMA VideoSteps ==
  ASSUME IInv, NEW k \in Calls, VideoStep(k)
  PROVE  IInv'
  <1> USE DriveConnectionAssumption DEF IInv, At
  <1>0. call[k] \in CallStates /\ Knows(call[k])
    BY DEF CallsKnow, TypeOK
  <1>1. PICK v \in {"uploaded", "blocked", "failed"} : MarkVideo(k, v)
    BY DEF VideoStep, MarkUploaded, MarkBlocked, MarkFailed
  <1> DEFINE w == call[k].work
  <1>2. w \in Videos /\ call[k].verdict = v
    BY <1>0, <1>1 DEF MarkVideo, Knows
  <1>3. UNCHANGED <<row, lastErr, good, flow, attempt, lost>>
    BY <1>1 DEF MarkVideo
  <1>4. status' \in [Videos -> Statuses] /\ status'[w] = v
        /\ \A u \in Videos \ {w} : status'[u] = status[u]
    BY <1>1, <1>2 DEF MarkVideo, TypeOK, Statuses
  <1>5. /\ call' \in [Calls -> CallStates] /\ call'[k] = NoCall
        /\ \A j \in Calls \ {k} : call'[j] = call[j]
    <2>1. NoCall \in CallStates
      BY DEF NoCall, CallStates, CallPCs, Verdicts
    <2> QED
      BY <1>1, <2>1, BecomeEffect DEF MarkVideo
  <1>6. /\ v = "blocked" => /\ why' = [why EXCEPT ![w] = call[k].view]
                            /\ missed' = IF call[k].late THEN missed \cup {w} ELSE missed
        /\ v # "blocked" => UNCHANGED <<why, missed>>
        /\ v = "failed" => \E d \in RetryDelay(attempt[w]) : delay' = [delay EXCEPT ![w] = d]
        /\ v # "failed" => UNCHANGED delay
    BY <1>2 DEF VideoStep, MarkUploaded, MarkBlocked, MarkFailed, MarkVideo
  <1>7. attempt[w] \in 1 .. MaxAttempts
    <2>1. status[w] = "uploading"
      BY <1>2 DEF VideosAreHeld
    <2> QED
      BY <1>2, <2>1 DEF VideosAreHeld, TypeOK
  <1>8. call[k].view \in Connects \cup {NoToken} /\ call[k].late \in BOOLEAN
        /\ (v = "blocked" => call[k].late \/ call[k].view = row)
    BY <1>0, <1>1 DEF CallStates, Knows, MarkVideo
  <1> HIDE DEF w
  <1>9. TypeOK'
    <2>1. delay' \in [Videos -> Durations]
      BY <1>2, <1>6, <1>7, RetryDelayBounds DEF TypeOK
    <2>2. why' \in [Videos -> Connects \cup {NoToken}] /\ missed' \subseteq Videos
      BY <1>2, <1>6, <1>8 DEF TypeOK
    <2> QED
      BY <1>3, <1>4, <1>5, <2>1, <2>2 DEF TypeOK
  <1>10. CallsKnow'
    <2> SUFFICES ASSUME NEW j \in Calls PROVE Knows(call[j])'
      BY DEF CallsKnow
    <2>1. CASE j = k
      BY <1>5, <2>1 DEF Knows, NoCall
    <2>2. CASE j # k
      <3>1. Knows(call[j]) /\ call'[j] = call[j]
        BY <1>5, <2>2 DEF CallsKnow
      <3> QED
        BY <1>3, <3>1 DEF Knows
    <2> QED
      BY <2>1, <2>2
  <1>11. TokensAreNew'
    BY <1>3 DEF TokensAreNew
  <1>12. VideosAreHeld'
    <2>1. \A j \in Calls \ {k} : call[j].work # w
      BY <1>2 DEF VideosAreHeld, w
    <2>2. \A j \in Calls : call[j].work # Folders => call[j].work \in Videos
      BY DEF TypeOK, CallStates
    <2>3. NoCall.work = Folders
      BY DEF NoCall
    <2>4. \A u \in Videos : status'[u] # "pending" => attempt'[u] > 0
      BY <1>3, <1>4, <1>7 DEF VideosAreHeld
    <2>5. \A j \in Calls : call'[j].work # Folders => status'[call'[j].work] = "uploading"
      BY <1>4, <1>5, <2>1, <2>2, <2>3 DEF VideosAreHeld
    <2>6. \A i, j \in Calls : call'[i].work = call'[j].work /\ i # j => call'[i].work = Folders
      BY <1>5, <2>3 DEF VideosAreHeld
    <2> QED
      BY <2>4, <2>5, <2>6 DEF VideosAreHeld
  <1>13. ErrorIsOfTheConnection'
    BY <1>3 DEF ErrorIsOfTheConnection
  <1>14. BlockedForThisConnection'
    <2> SUFFICES ASSUME NEW u \in Videos, status'[u] = "blocked", row # NoToken, why'[u] # row
                 PROVE  flow[row] = "requeue" \/ lost \/ u \in missed'
      BY <1>3 DEF BlockedForThisConnection
    <2>1. CASE u = w /\ v = "blocked"
      BY <1>2, <1>6, <1>8, <2>1 DEF TypeOK
    <2>2. CASE u # w
      BY <1>4, <1>6, <2>2 DEF BlockedForThisConnection, TypeOK
    <2> QED
      BY <1>4, <2>1, <2>2
  <1>15. DelaysAreExplained'
    <2> SUFFICES ASSUME NEW u \in Videos, status'[u] = "failed"
                 PROVE  Explained(attempt[u], delay'[u])
      BY <1>3 DEF DelaysAreExplained
    <2>1. CASE u = w
      <3>1. PICK d \in RetryDelay(attempt[w]) : delay' = [delay EXCEPT ![w] = d]
        BY <1>4, <1>6, <2>1
      <3>2. Explained(attempt[w], d)
        BY <1>7, <3>1, RetryDelayBounds
      <3> QED
        BY <1>2, <2>1, <3>1, <3>2 DEF TypeOK
    <2>2. CASE u # w
      <3>1. delay'[u] = delay[u]
        BY <1>6, <2>2 DEF TypeOK
      <3> QED
        BY <1>4, <2>2, <3>1 DEF DelaysAreExplained
    <2> QED
      BY <2>1, <2>2
  <1> QED
    BY <1>9, <1>10, <1>11, <1>12, <1>13, <1>14, <1>15

-----------------------------------------------------------------------------
(* The theorems.                                                           *)

\* Every step keeps the invariant.
LEMMA NextInv == IInv /\ [Next]_vars => IInv'
  <1> SUFFICES ASSUME IInv, [Next]_vars PROVE IInv'
    OBVIOUS
  <1> USE DriveConnectionAssumption
  <1>1. CASE UNCHANGED vars
    BY <1>1 DEF vars, videoVars, IInv, TypeOK, CallsKnow, Knows, TokensAreNew, VideosAreHeld,
                ErrorIsOfTheConnection, BlockedForThisConnection, DelaysAreExplained
  <1>2. ASSUME NEW c \in Connects, ConnectStep(c) PROVE IInv'
    <2>0. TypeOK /\ TokensAreNew
      BY DEF IInv
    <2>1. CASE StartConnect(c)
      BY <2>0, <2>1, FlowStep DEF StartConnect, FlowGoto, TypeOK, FlowPCs, TokensAreNew
    <2>2. CASE NotConnected(c)
      BY <2>0, <2>2, FlowStep DEF NotConnected, FlowGoto, TypeOK, FlowPCs
    <2>3. CASE Exchange(c)
      BY <2>0, <2>3, FlowStep DEF Exchange, FlowGoto, TypeOK, FlowPCs
    <2>4. CASE SaveFails(c)
      BY <2>0, <2>4, FlowStep DEF SaveFails, FlowGoto, TypeOK, FlowPCs
    <2>5. CASE SaveConnection(c)
      <3>1. /\ flow' \in [Connects -> FlowPCs] /\ flow'[c] = "requeue" /\ flow[c] = "save"
            /\ \A d \in Connects \ {c} : flow'[d] = flow[d]
        BY <2>0, <2>5 DEF SaveConnection, FlowGoto, TypeOK, FlowPCs
      <3>2. c # row
        BY <2>0, <3>1 DEF TokensAreNew
      <3> QED
        BY <2>5, <3>1, <3>2, OvertakeStep DEF SaveConnection
    <2>6. CASE RequeueAfterConnect(c)
      <3>1. /\ flow' \in [Connects -> FlowPCs]
            /\ \A d \in Connects : flow'[d] = flow[d] \/ (flow[d] = "requeue" /\ flow'[d] = "done")
        BY <2>0, <2>6 DEF RequeueAfterConnect, FlowGoto, TypeOK, FlowPCs
      <3> QED
        BY <2>6, <3>1, RequeueStep DEF RequeueAfterConnect
    <2>7. CASE RequeueFails(c)
      <3>1. /\ flow' \in [Connects -> FlowPCs] /\ flow'[c] = "done" /\ flow[c] = "requeue"
            /\ \A d \in Connects \ {c} : flow'[d] = flow[d]
            /\ lost' /\ lost' \in BOOLEAN /\ UNCHANGED <<row, lastErr, good, call>>
            /\ UNCHANGED <<status, attempt, delay, why, missed>>
        BY <2>0, <2>7 DEF RequeueFails, FlowGoto, TypeOK, FlowPCs, videoVars
      <3>2. TypeOK' /\ TokensAreNew'
        BY <2>0, <3>1 DEF TypeOK, TokensAreNew
      <3>3. CallsKnow'
        <4> SUFFICES ASSUME NEW k \in Calls PROVE Knows(call[k])'
          BY DEF CallsKnow
        <4>1. call[k] \in CallStates /\ Knows(call[k])
          BY DEF IInv, CallsKnow, TypeOK
        <4>2. call[k].view # NoToken => call[k].view \in Connects
          BY <4>1 DEF CallStates
        <4> QED
          BY <3>1, <4>1, <4>2 DEF Knows
      <3> QED
        BY <3>1, <3>2, <3>3
           DEF IInv, VideosAreHeld, ErrorIsOfTheConnection, BlockedForThisConnection,
               DelaysAreExplained
    <2> QED
      BY <1>2, <2>1, <2>2, <2>3, <2>4, <2>5, <2>6, <2>7 DEF ConnectStep
  <1>3. ASSUME NEW c \in Connects, Revoke(c) PROVE IInv'
    <2>1. /\ row \in Connects \cup {NoToken} /\ flow \in [Connects -> FlowPCs] /\ lost \in BOOLEAN
          /\ row # NoToken => flow[row] \in {"requeue", "done"}
      BY DEF IInv, TypeOK, TokensAreNew
    <2> QED
      BY <1>3, <2>1, OvertakeStep DEF Revoke
  <1>4. CASE UpdateDriveSettings
    <2>1. flow \in [Connects -> FlowPCs]
      BY DEF IInv, TypeOK
    <2> QED
      BY <1>4, <2>1, RequeueStep DEF UpdateDriveSettings
  <1>5. CASE Disconnect
    <2>1. flow \in [Connects -> FlowPCs] /\ lost \in BOOLEAN
      BY DEF IInv, TypeOK
    <2> QED
      BY <1>5, <2>1, OvertakeStep DEF Disconnect
  <1>6. ASSUME NEW k \in Calls, CallStep(k) PROVE IInv'
    BY <1>6, ClaimStep, VideoSteps, TokenSteps DEF CallStep
  <1> QED
    BY <1>1, <1>2, <1>3, <1>4, <1>5, <1>6 DEF Next

\* The inductive invariant (all of service/google_drive_oauth.go).
THEOREM InvariantHolds == Spec => []IInv
  BY InitInv, NextInv, PTL DEF Spec

\* The error that the settings show is of the connection they show, or noted by
\* a call that was overtaken (service/google_drive_oauth.go:206).
THEOREM ErrorsAreOfTheConnection == Spec => []ErrorIsOfTheConnection
  <1>1. IInv => ErrorIsOfTheConnection
    BY DEF IInv
  <1> QED
    BY <1>1, InvariantHolds, PTL

\* Nothing stays blocked for a connection that was replaced, but by a call that
\* was overtaken or a requeue that failed (service/drive_sync.go:193).
THEOREM BlockedVideosAwaitThisConnection == Spec => []BlockedForThisConnection
  <1>1. IInv => BlockedForThisConnection
    BY DEF IInv
  <1> QED
    BY <1>1, InvariantHolds, PTL

\* No failed video waits longer than the maximum, and none is due at once unless
\* the doubling of its delay has overflowed, for every base, maximum and width and
\* any number of attempts (service/drive_sync.go:223).
THEOREM EveryDelayIsExplained == Spec => []DelaysAreExplained
  <1>1. IInv => DelaysAreExplained
    BY DEF IInv
  <1> QED
    BY <1>1, InvariantHolds, PTL

\* A call that was not overtaken uses the connection there is
\* (service/google_drive_oauth.go:182).
THEOREM FreshCallsAgree == Spec => FreshCallsUseTheConnection
  <1>1. IInv /\ [Next]_vars =>
          [\A k \in Calls : ~call[k].late =>
             /\ UseDrive(k) \/ MarkConnectionError(k) => row = call[k].view
             /\ MarkConnectionRefreshed(k) => row = call[k].view /\ row \in good]_vars
    <2> SUFFICES ASSUME IInv, NEW k \in Calls, ~call[k].late
                 PROVE  /\ UseDrive(k) \/ MarkConnectionError(k) => row = call[k].view
                        /\ MarkConnectionRefreshed(k) => row = call[k].view /\ row \in good
      OBVIOUS
    <2>1. Knows(call[k])
      BY DEF IInv, CallsKnow
    <2> QED
      BY <2>1 DEF Knows, UseDrive, MarkConnectionError, MarkConnectionRefreshed, At
  <1> QED
    BY <1>1, InvariantHolds, PTL DEF Spec, FreshCallsUseTheConnection
=============================================================================
