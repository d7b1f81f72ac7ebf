--------------------------- MODULE DriveConnection ---------------------------
(***************************************************************************)
(* The one connection to Google Drive that all videos are uploaded with:   *)
(* internal/service/google_drive_oauth.go over the single row of           *)
(* google_drive_oauth_connections, with what the outcome of a call means   *)
(* for the video it was made for (internal/service/drive_sync.go).         *)
(*                                                                         *)
(* Administrators connect (a consent at Google and a callback with its     *)
(* code), disconnect, and save the settings; the owner of the account may  *)
(* revoke what was granted; meanwhile workers upload videos and somebody   *)
(* refreshes the list of folders.  A call reads the row, asks Google for   *)
(* an access token, notes the outcome in the row - whichever is there by   *)
(* then - and goes on: three statements and two requests over the network. *)
(*                                                                         *)
(* Abstractions.  A refresh token is named by the attempt to connect that  *)
(* it came from.  The queue behind the statuses, the end of processes and  *)
(* failures to write a status are in DriveSync.  Times are left out except *)
(* for the delay before a retry.                                           *)
(***************************************************************************)
EXTENDS Integers, FiniteSets

CONSTANTS
  Connects,    \* bound: attempts to connect, and the tokens they bring
  Videos,
  Calls,       \* workers and refreshes of the folders that run at a time
  Folders,     \* the work of a refresh of the folders
  NoToken,     \* no row, or no token
  BaseDelay, MaxDelay, \* GOOGLE_DRIVE_RETRY_BASE_DELAY, _MAX_DELAY
  Width,       \* bits of a time.Duration
  MaxAttempts  \* bound: claims of a video

ASSUME DriveConnectionAssumption ==
  /\ NoToken \notin Connects
  /\ Folders \notin Videos
  \* retryDelay replaces what is not positive; nothing compares the two delays
  /\ BaseDelay \in Nat \ {0} /\ MaxDelay \in Nat \ {0}
  /\ Width \in Nat \ {0} /\ MaxDelay < 2 ^ (Width - 1)
  /\ MaxAttempts \in Nat
  \* arithmetic that the provers do not know
  /\ \A n \in 0 .. MaxAttempts : 2 ^ n > 0

VARIABLES
  row,      \* the token of the row, or NoToken
  lastErr,  \* last_error
  good,     \* the tokens that Google accepts
  flow,     \* where an attempt to connect is
  status,   \* attachment_drive_uploads.status
  attempt,  \* attachment_drive_uploads.attempt_count
  delay,    \* how long a video that failed waits (next_attempt_at)
  call,     \* what a call does, where it is, what it has read and concluded
  why,      \* history: the connection that a video was blocked for
  missed,   \* history: videos that an overtaken call has blocked
  lost      \* history: the requeue of the last new connection failed

videoVars == <<status, attempt, delay, why, missed>>
vars == <<row, lastErr, good, flow, videoVars, call, lost>>

Statuses == {"pending", "uploading", "uploaded", "failed", "blocked"}
Verdicts == {"none", "uploaded", "failed", "blocked"}
FlowPCs  == {"idle", "consent", "save", "requeue", "done"}
CallPCs  == {"idle", "read", "token", "markError", "markRefreshed", "drive", "mark"}

\* late is history: the connection or its token has changed during the call.
CallStates == [pc : CallPCs, work : Videos \cup {Folders}, view : Connects \cup {NoToken},
               verdict : Verdicts, late : BOOLEAN]
NoCall == [pc |-> "idle", work |-> Folders, view |-> NoToken, verdict |-> "none", late |-> FALSE]

\* The token that failed, whether Google refused it, and whether a call that
\* was overtaken says so.
Errors  == [of : Connects, kind : {"refused", "trouble"}, late : BOOLEAN]
NoError == [of |-> NoToken, kind |-> "none", late |-> FALSE]

Durations == -(2 ^ (Width - 1)) .. (2 ^ (Width - 1) - 1)

TypeOK ==
  /\ row \in Connects \cup {NoToken}
  /\ lastErr \in Errors \cup {NoError}
  /\ good \subseteq Connects
  /\ flow \in [Connects -> FlowPCs]
  /\ status \in [Videos -> Statuses]
  /\ attempt \in [Videos -> 0 .. MaxAttempts]
  /\ delay \in [Videos -> Durations]
  /\ call \in [Calls -> CallStates]
  /\ why \in [Videos -> Connects \cup {NoToken}]
  /\ missed \subseteq Videos
  /\ lost \in BOOLEAN

Init ==
  /\ row = NoToken
  /\ lastErr = NoError
  /\ good = {}
  /\ flow = [c \in Connects |-> "idle"]
  /\ status = [v \in Videos |-> "pending"]
  /\ attempt = [v \in Videos |-> 0]
  /\ delay = [v \in Videos |-> 0]
  /\ call = [k \in Calls |-> NoCall]
  /\ why = [v \in Videos |-> NoToken]
  /\ missed = {}
  /\ lost = FALSE

\* The connection changes under the calls that have read it.
Overtake ==
  call' = [k \in Calls |-> [call[k] EXCEPT !.late = @ \/ call[k].pc \notin {"idle", "read"}]]

-----------------------------------------------------------------------------
(* Connecting.                                                             *)

FlowGoto(c, from, to) == flow[c] = from /\ flow' = [flow EXCEPT ![c] = to]

\* StartConnect signs the state and sends the administrator to Google.
StartConnect(c) ==
  /\ FlowGoto(c, "idle", "consent")
  /\ UNCHANGED <<row, lastErr, good, videoVars, call, lost>>

\* HandleCallback is never called, or with an error, without a code, or with a
\* state of more than ten minutes; or the exchange of the code fails.
NotConnected(c) ==
  /\ FlowGoto(c, "consent", "done")
  /\ UNCHANGED <<row, lastErr, good, videoVars, call, lost>>

\* HandleCallback exchanges the code: Google has granted a token.
Exchange(c) ==
  /\ FlowGoto(c, "consent", "save")
  /\ good' = good \cup {c}
  /\ UNCHANGED <<row, lastErr, videoVars, call, lost>>

\* No refresh token came, no email could be had, or nothing could be written.
SaveFails(c) ==
  /\ FlowGoto(c, "save", "done")
  /\ UNCHANGED <<row, lastErr, good, videoVars, call, lost>>

\* Mutated form of SaveConnection: last_error is left out of the upsert.
SaveConnectionOnly(c) ==
  /\ FlowGoto(c, "save", "requeue")
  /\ row' = c
  /\ lost' = FALSE
  /\ Overtake
  /\ UNCHANGED <<lastErr, good, videoVars>>

\* UpsertGoogleDriveOAuthConnection.
SaveConnection(c) ==
  /\ FlowGoto(c, "save", "requeue")
  /\ row' = c
  /\ lastErr' = NoError
  /\ lost' = FALSE
  /\ Overtake
  /\ UNCHANGED <<good, videoVars>>

\* Mutated form of RequeueAll: only what failed is tried again.
RequeueFailed ==
  LET back == {v \in Videos : status[v] = "failed"} IN
  /\ status' = [v \in Videos |-> IF v \in back THEN "pending" ELSE status[v]]
  /\ delay' = [v \in Videos |-> IF v \in back THEN 0 ELSE delay[v]]
  /\ UNCHANGED <<attempt, why, missed>>

\* RequeueAttachmentDriveSyncs.
RequeueAll ==
  LET back == {v \in Videos : status[v] \in {"blocked", "failed"}} IN
  /\ status' = [v \in Videos |-> IF v \in back THEN "pending" ELSE status[v]]
  /\ delay' = [v \in Videos |-> IF v \in back THEN 0 ELSE delay[v]]
  /\ why' = [v \in Videos |-> IF v \in back THEN NoToken ELSE why[v]]
  /\ missed' = missed \ back
  /\ UNCHANGED attempt

\* ... after connecting ...
RequeueAfterConnect(c) ==
  /\ FlowGoto(c, "requeue", "done")
  /\ RequeueAll
  /\ lost' = FALSE
  /\ UNCHANGED <<row, lastErr, good, call>>

\* ... whose error nobody looks at ...
RequeueFails(c) ==
  /\ FlowGoto(c, "requeue", "done")
  /\ lost' = TRUE
  /\ UNCHANGED <<row, lastErr, good, videoVars, call>>

\* ... and when the settings are saved.
UpdateDriveSettings ==
  /\ RequeueAll
  /\ lost' = FALSE
  /\ UNCHANGED <<row, lastErr, good, flow, call>>

\* ClearGoogleDriveOAuthConnection.
Disconnect ==
  /\ row # NoToken
  /\ row' = NoToken
  /\ lastErr' = NoError
  /\ Overtake
  /\ UNCHANGED <<good, flow, videoVars, lost>>

\* The grant is revoked at Google, or runs out there.
Revoke(t) ==
  /\ t \in good
  /\ good' = good \ {t}
  /\ Overtake
  /\ UNCHANGED <<row, lastErr, flow, videoVars, lost>>

-----------------------------------------------------------------------------
(* Calls.                                                                  *)

At(k, where) == call[k].pc = where

Become(k, state) == call' = [call EXCEPT ![k] = state]

Goto(k, where) == Become(k, [call[k] EXCEPT !.pc = where])

\* The call is over for a refresh of the folders; for a video, the outcome is
\* still to be noted.
Over(k, v) ==
  Become(k, IF call[k].work = Folders THEN NoCall
            ELSE [call[k] EXCEPT !.pc = "mark", !.verdict = v])

\* The worker claims a video.
Claim(k, v) ==
  /\ At(k, "idle")
  /\ status[v] \in {"pending", "failed"}
  /\ attempt[v] < MaxAttempts
  /\ Become(k, [NoCall EXCEPT !.pc = "read", !.work = v])
  /\ status' = [status EXCEPT ![v] = "uploading"]
  /\ attempt' = [attempt EXCEPT ![v] = @ + 1]
  /\ delay' = [delay EXCEPT ![v] = 0]
  /\ UNCHANGED <<row, lastErr, good, flow, why, missed, lost>>

\* RefreshCache.
RefreshFolders(k) ==
  /\ At(k, "idle")
  /\ Become(k, [NoCall EXCEPT !.pc = "read"])
  /\ UNCHANGED <<row, lastErr, good, flow, videoVars, lost>>

\* The object, the target folder or the row cannot be read, Drive fails, or
\* the worker's deadline is over: another attempt later.
Prevented(k) ==
  /\ At(k, "read") \/ At(k, "drive")
  /\ Over(k, "failed")
  /\ UNCHANGED <<row, lastErr, good, flow, videoVars, lost>>

\* UploadVideo, ListFolders: no row, no call.
NoConnection(k) ==
  /\ At(k, "read")
  /\ row = NoToken
  /\ Over(k, "blocked")
  /\ UNCHANGED <<row, lastErr, good, flow, videoVars, lost>>

\* GetGoogleDriveOAuthConnection.
ReadConnection(k) ==
  /\ At(k, "read")
  /\ row # NoToken
  /\ Become(k, [call[k] EXCEPT !.pc = "token", !.view = row])
  /\ UNCHANGED <<row, lastErr, good, flow, videoVars, lost>>

\* tokenSource.Token: Google accepts the refresh token ...
Accepted(k) ==
  /\ At(k, "token")
  /\ call[k].view \in good
  /\ Goto(k, "markRefreshed")
  /\ UNCHANGED <<row, lastErr, good, flow, videoVars, lost>>

\* ... refuses it (invalid_grant) ...
Refused(k) ==
  /\ At(k, "token")
  /\ call[k].view \notin good
  /\ Become(k, [call[k] EXCEPT !.pc = "markError", !.verdict = "blocked"])
  /\ UNCHANGED <<row, lastErr, good, flow, videoVars, lost>>

\* ... or cannot be reached.
Trouble(k) ==
  /\ At(k, "token")
  /\ Become(k, [call[k] EXCEPT !.pc = "markError", !.verdict = "failed"])
  /\ UNCHANGED <<row, lastErr, good, flow, videoVars, lost>>

\* MarkGoogleDriveOAuthConnectionError, on the row as it is by now.
MarkConnectionError(k) ==
  /\ At(k, "markError")
  /\ lastErr' = IF row = NoToken THEN lastErr
                ELSE [of |-> call[k].view, late |-> call[k].late,
                      kind |-> IF call[k].verdict = "blocked" THEN "refused" ELSE "trouble"]
  /\ Over(k, call[k].verdict)
  /\ UNCHANGED <<row, good, flow, videoVars, lost>>

\* MarkGoogleDriveOAuthConnectionRefreshed.
MarkConnectionRefreshed(k) ==
  /\ At(k, "markRefreshed")
  /\ lastErr' = NoError
  /\ Goto(k, "drive")
  /\ UNCHANGED <<row, good, flow, videoVars, lost>>

\* Neither of them could be written: ignored, or logged.
MarkIsLost(k) ==
  /\ \/ At(k, "markError") /\ Over(k, call[k].verdict)
     \/ At(k, "markRefreshed") /\ Goto(k, "drive")
  /\ UNCHANGED <<row, lastErr, good, flow, videoVars, lost>>

\* The upload, or the listing of the folders, with the token of the call.
UseDrive(k) ==
  /\ At(k, "drive")
  /\ call[k].view \in good
  /\ Over(k, "uploaded")
  /\ UNCHANGED <<row, lastErr, good, flow, videoVars, lost>>

\* The account is full, or its Drive is switched off.
DriveBlocks(k) ==
  /\ At(k, "drive")
  /\ Over(k, "blocked")
  /\ UNCHANGED <<row, lastErr, good, flow, videoVars, lost>>

MarkVideo(k, v) ==
  /\ At(k, "mark")
  /\ call[k].verdict = v
  /\ status' = [status EXCEPT ![call[k].work] = v]
  /\ Become(k, NoCall)
  /\ UNCHANGED <<row, lastErr, good, flow, attempt, lost>>

\* MarkAttachmentDriveSyncUploaded.
MarkUploaded(k) ==
  /\ MarkVideo(k, "uploaded")
  /\ UNCHANGED <<delay, why, missed>>

\* MarkAttachmentDriveSyncBlocked.
MarkBlocked(k) ==
  /\ MarkVideo(k, "blocked")
  /\ why' = [why EXCEPT ![call[k].work] = call[k].view]
  /\ missed' = IF call[k].late THEN missed \cup {call[k].work} ELSE missed
  /\ UNCHANGED delay

\* time.Duration of a float64: what does not fit is the smallest or the largest
\* value, depending on the processor.
ToDuration(x) ==
  IF x < 2 ^ (Width - 1) THEN {x} ELSE {-(2 ^ (Width - 1)), 2 ^ (Width - 1) - 1}

\* Mutated form of RetryDelay: the factor is bounded, not the delay.
RetryDelayOfFactor(n) ==
  {BaseDelay * (IF 2 ^ (n - 1) > MaxDelay THEN MaxDelay ELSE 2 ^ (n - 1))}

\* retryDelay.
RetryDelay(n) ==
  {IF d > MaxDelay THEN MaxDelay ELSE d : d \in ToDuration(BaseDelay * 2 ^ (n - 1))}

\* MarkAttachmentDriveSyncFailed.
MarkFailed(k) ==
  /\ MarkVideo(k, "failed")
  /\ \E d \in RetryDelay(attempt[call[k].work]) : delay' = [delay EXCEPT ![call[k].work] = d]
  /\ UNCHANGED <<why, missed>>

-----------------------------------------------------------------------------
ConnectStep(c) ==
  \/ StartConnect(c) \/ NotConnected(c) \/ Exchange(c) \/ SaveFails(c)
  \/ SaveConnection(c) \/ RequeueAfterConnect(c) \/ RequeueFails(c)

TokenStep(k) ==
  \/ NoConnection(k) \/ ReadConnection(k) \/ Accepted(k) \/ Refused(k) \/ Trouble(k)
  \/ MarkConnectionError(k) \/ MarkConnectionRefreshed(k) \/ MarkIsLost(k)

VideoStep(k) == MarkUploaded(k) \/ MarkBlocked(k) \/ MarkFailed(k)

CallStep(k) ==
  \/ \E v \in Videos : Claim(k, v)
  \/ RefreshFolders(k) \/ Prevented(k) \/ TokenStep(k)
  \/ UseDrive(k) \/ DriveBlocks(k) \/ VideoStep(k)

Next ==
  \/ \E c \in Connects : ConnectStep(c) \/ Revoke(c)
  \/ UpdateDriveSettings \/ Disconnect
  \/ \E k \in Calls : CallStep(k)

Spec == Init /\ [][Next]_vars

-----------------------------------------------------------------------------
(* Properties.                                                             *)

\* The settings page shows the error of the connection that it shows, and a
\* refusal only of a token that Google really refuses - unless the last note
\* was made by a call that began before the connection changed.
ErrorIsOfTheConnection ==
  lastErr # NoError =>
    /\ row # NoToken
    /\ lastErr.of = row \/ lastErr.late
    /\ lastErr.kind = "refused" => lastErr.of \notin good

\* A video is blocked for want of the connection there is - not for one that
\* has been replaced, when its requeue is through: only a call that read the
\* older one can still do that, or a requeue that failed.
BlockedForThisConnection ==
  \A v \in Videos :
    status[v] = "blocked" /\ row # NoToken /\ why[v] # row =>
      flow[row] = "requeue" \/ lost \/ v \in missed

\* While nobody changes the connection, a call uses and notes what is in it.
FreshCallsUseTheConnection ==
  [][\A k \in Calls : ~call[k].late =>
       /\ UseDrive(k) \/ MarkConnectionError(k) => row = call[k].view
       /\ MarkConnectionRefreshed(k) => row = call[k].view /\ row \in good]_vars

\* The doubled delay of attempt n is beyond what a time.Duration can hold.
Overflowed(n) == BaseDelay * 2 ^ (n - 1) >= 2 ^ (Width - 1)

\* d is no longer than the maximum, and no shorter than the lesser of base and
\* maximum unless the doubling overflowed; then d is the least duration there is,
\* and the video due at once.
Explained(n, d) ==
  /\ d <= MaxDelay
  /\ d < BaseDelay /\ d < MaxDelay => Overflowed(n) /\ d = -(2 ^ (Width - 1))

\* Whatever the number of attempts, a video that has failed waits for no longer
\* than the maximum, and it waits at all unless the doubling of the delay has
\* overflowed (retryDelay; attempt_count is never reset).
DelaysAreExplained ==
  \A v \in Videos : status[v] = "failed" => Explained(attempt[v], delay[v])

(* The inductive invariant behind them.                                     *)

\* What a call knows of the connection, and what a refusal means for good: a
\* token that was refused stays so, and no other attempt has the same one.
Knows(c) ==
  /\ c.pc \in {"token", "markError", "markRefreshed", "drive"} =>
       c.view # NoToken /\ (c.late \/ c.view = row)
  /\ c.pc \in {"markRefreshed", "drive"} => c.late \/ c.view \in good
  /\ c.pc = "markError" => \/ c.verdict = "failed"
                           \/ c.verdict = "blocked" /\ c.view \notin good
  /\ c.pc = "mark" => /\ c.work \in Videos /\ c.verdict # "none"
                      /\ c.verdict = "blocked" => c.late \/ c.view = row
  /\ c.pc = "read" => ~c.late /\ c.view = NoToken
  /\ c.view # NoToken => flow[c.view] \in {"requeue", "done"}

CallsKnow == \A k \in Calls : Knows(call[k])

TokensAreNew ==
  /\ \A c \in Connects : flow[c] \in {"idle", "consent"} => c \notin good
  /\ row # NoToken => flow[row] \in {"requeue", "done"}
  /\ lastErr # NoError => lastErr.of \in Connects /\ flow[lastErr.of] \in {"requeue", "done"}

\* A video that is being uploaded has one worker and has been claimed.
VideosAreHeld ==
  /\ \A v \in Videos : status[v] # "pending" => attempt[v] > 0
  /\ \A k \in Calls : call[k].work # Folders => status[call[k].work] = "uploading"
  /\ \A j, k \in Calls : call[j].work = call[k].work /\ j # k => call[j].work = Folders

IInv ==
  /\ TypeOK
  /\ CallsKnow
  /\ TokensAreNew
  /\ VideosAreHeld
  /\ ErrorIsOfTheConnection
  /\ BlockedForThisConnection
  /\ DelaysAreExplained
=============================================================================
