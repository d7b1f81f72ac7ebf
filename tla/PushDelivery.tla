---------------------------- MODULE PushDelivery ----------------------------
(***************************************************************************)
(* How a notification gets to its recipients: internal/service/            *)
(* notifications.go and internal/push/sender.go over the tables            *)
(* notifications and web_push_subscriptions.                               *)
(*                                                                         *)
(* The request that has caused it stores a notification for one recipient  *)
(* after the other and, before the next one, pushes it to every endpoint   *)
(* of that recipient, all under the context of the request.  Meanwhile     *)
(* browsers subscribe, change their user, disable or drop their endpoints, *)
(* and users read.  An endpoint that its push service does not know any    *)
(* more is deleted from the table.                                         *)
(*                                                                         *)
(* Abstractions.  A text is the widths in bytes of its characters.  Who is *)
(* to be notified of what, and the notifications' kinds, are in PostReview *)
(* and Engagement: here any set of users.  Keys of an endpoint and labels  *)
(* of devices are left out.                                                *)
(***************************************************************************)
EXTENDS Naturals, Sequences, FiniteSets

CONSTANTS
  Users, NoUser,
  Endpoints,  \* what a browser subscribes with
  Fanouts,    \* bound: requests that notify
  Texts,      \* bound: what they tell
  MaxBody     \* how many bytes of it are kept

ASSUME PushDeliveryAssumption ==
  /\ NoUser \notin Users
  /\ Texts \subseteq Seq(1 .. 4)
  /\ MaxBody \in Nat

VARIABLES
  sub,      \* web_push_subscriptions: the user of an endpoint, and enabled
  meant,    \* history: what the users' last request made of it
  dead,     \* endpoints that the push services have forgotten
  notes,    \* notifications that are stored
  reader,   \* who has marked a notification as read
  fan,      \* where a request that notifies is
  missing   \* history: notifications whose insert has failed

vars == <<sub, meant, dead, notes, reader, fan, missing>>

Rows  == [user : Users \cup {NoUser}, enabled : BOOLEAN]
NoRow == [user |-> NoUser, enabled |-> FALSE]
Notes == Fanouts \X Users

FanPCs == {"idle", "store", "list", "send", "prune", "done"}

\* who is the recipient, todo those after it; left are the endpoints that were
\* listed for it and not yet sent to, gone the one that is to be deleted.
\* History: all are the recipients, touched the endpoints of left that users
\* have written to since; cut says whether the context was cancelled, or the
\* recipients could not even be listed.
Fans == [pc : FanPCs, text : Texts, all : SUBSET Users, todo : SUBSET Users,
         who : Users \cup {NoUser}, left : SUBSET Endpoints, gone : SUBSET Endpoints,
         touched : SUBSET Endpoints, cut : {"no", "cancelled", "unlisted"}]

Idle(t) == [pc |-> "idle", text |-> t, all |-> {}, todo |-> {}, who |-> NoUser,
            left |-> {}, gone |-> {}, touched |-> {}, cut |-> "no"]

TypeOK ==
  /\ sub \in [Endpoints -> Rows]
  /\ meant \in [Endpoints -> Rows]
  /\ dead \subseteq Endpoints
  /\ notes \subseteq Notes
  /\ reader \in [Notes -> Users \cup {NoUser}]
  /\ fan \in [Fanouts -> Fans]
  /\ missing \subseteq Notes

Init ==
  /\ sub = [e \in Endpoints |-> NoRow]
  /\ meant = sub
  /\ dead = {}
  /\ notes = {}
  /\ reader = [n \in Notes |-> NoUser]
  /\ fan \in [Fanouts -> {Idle(t) : t \in Texts}]
  /\ missing = {}

-----------------------------------------------------------------------------
(* Browsers and readers.                                                   *)

\* Users write to an endpoint.
Write(e, row) ==
  /\ sub' = [sub EXCEPT ![e] = row]
  /\ meant' = [meant EXCEPT ![e] = row]
  /\ fan' = [f \in Fanouts |-> [fan[f] EXCEPT !.touched = @ \cup ({e} \cap fan[f].left)]]
  /\ UNCHANGED <<dead, notes, reader, missing>>

\* UpsertPushSubscription: an endpoint belongs to whoever subscribes with it.
Subscribe(u, e) == Write(e, [user |-> u, enabled |-> TRUE])

\* DisablePushSubscription: of one's own.
Disable(u, e) ==
  /\ sub[e].user = u
  /\ Write(e, [sub[e] EXCEPT !.enabled = FALSE])

\* The browser unsubscribes, or the push service gives the endpoint up; it
\* never comes back.
Forget(e) ==
  /\ dead' = dead \cup {e}
  /\ UNCHANGED <<sub, meant, notes, reader, fan, missing>>

\* The unread notifications of a user.
Readable(u) == {n \in notes : n[2] = u /\ reader[n] = NoUser}

\* MarkNotificationRead.
MarkRead(u, n) ==
  /\ n \in Readable(u)
  /\ reader' = [reader EXCEPT ![n] = u]
  /\ UNCHANGED <<sub, meant, dead, notes, fan, missing>>

\* MarkAllNotificationsRead.
MarkAllRead(u) ==
  /\ Readable(u) # {}
  /\ reader' = [n \in Notes |-> IF n \in Readable(u) THEN u ELSE reader[n]]
  /\ UNCHANGED <<sub, meant, dead, notes, fan, missing>>

-----------------------------------------------------------------------------
(* Notifying.                                                              *)

At(f, where) == fan[f].pc = where
Busy(f) == fan[f].pc \in {"store", "list", "send", "prune"}

Become(f, state) == fan' = [fan EXCEPT ![f] = state]

\* The recipients of one event are stored for in the order of the query; who
\* they are is not told apart here, so any of them is next.
Turn(f, us) ==
  \E u \in us :
    Become(f, [fan[f] EXCEPT !.pc = "store", !.who = u, !.todo = us \ {u},
                             !.left = {}, !.gone = {}, !.touched = {}])

End(f) ==
  Become(f, [fan[f] EXCEPT !.pc = "done", !.who = NoUser,
                           !.left = {}, !.gone = {}, !.touched = {}])

\* Whatever has become of one recipient, the next one follows.
GoOn(f) == IF fan[f].todo = {} THEN End(f) ELSE Turn(f, fan[f].todo)

\* The author of a post or comment (OnPostComment, OnReaction,
\* notifyPostAuthor), or the reviewers (notifyReviewers).
Start(f, us) ==
  /\ At(f, "idle") /\ us # {}
  /\ \E u \in us :
       Become(f, [fan[f] EXCEPT !.pc = "store", !.all = us, !.who = u, !.todo = us \ {u}])
  /\ UNCHANGED <<sub, meant, dead, notes, reader, missing>>

\* The reviewers cannot be listed: logged, and none of them hears of it.
StartFails(f, us) ==
  /\ At(f, "idle") /\ us # {}
  /\ Become(f, [fan[f] EXCEPT !.pc = "done", !.all = us, !.cut = "unlisted"])
  /\ UNCHANGED <<sub, meant, dead, notes, reader, missing>>

\* The bytes of the first k characters.
Bytes(t) == LET b[k \in 0 .. Len(t)] == IF k = 0 THEN 0 ELSE b[k - 1] + t[k] IN b

\* truncate keeps the first MaxBody bytes of a text that is longer, and so
\* cuts a character in two unless one ends there.
CutsCharacter(t) ==
  /\ Bytes(t)[Len(t)] > MaxBody
  /\ \A k \in 0 .. Len(t) : Bytes(t)[k] # MaxBody

\* CreateNotification.
Store(f) ==
  /\ At(f, "store") /\ ~CutsCharacter(fan[f].text)
  /\ notes' = notes \cup {<<f, fan[f].who>>}
  /\ Become(f, [fan[f] EXCEPT !.pc = "list"])
  /\ UNCHANGED <<sub, meant, dead, reader, missing>>

\* Half a character is no UTF-8, and the database refuses it: logged.
StoreRefused(f) ==
  /\ At(f, "store") /\ CutsCharacter(fan[f].text)
  /\ GoOn(f)
  /\ UNCHANGED <<sub, meant, dead, notes, reader, missing>>

\* Mutated form of StoreFails: the first error ends it for all recipients.
StoreFailsForAll(f) ==
  /\ At(f, "store")
  /\ missing' = missing \cup {<<f, fan[f].who>>}
  /\ End(f)
  /\ UNCHANGED <<sub, meant, dead, notes, reader>>

\* Any other failure of the insert is logged, too.  (When only its answer is
\* lost, it is Store and then ListFails or TimeUp.)
StoreFails(f) ==
  /\ At(f, "store")
  /\ missing' = missing \cup {<<f, fan[f].who>>}
  /\ GoOn(f)
  /\ UNCHANGED <<sub, meant, dead, notes, reader>>

\* Mutated form of ActiveOf: disabled ones, too.
OwnedBy(u) == {e \in Endpoints : sub[e].user = u}

\* ActivePushSubscriptionsForUser.
ActiveOf(u) == {e \in Endpoints : sub[e] = [user |-> u, enabled |-> TRUE]}

ListSubs(f) ==
  /\ At(f, "list")
  /\ LET subs == ActiveOf(fan[f].who)
     IN  IF subs = {} THEN GoOn(f)
         ELSE Become(f, [fan[f] EXCEPT !.pc = "send", !.left = subs])
  /\ UNCHANGED <<sub, meant, dead, notes, reader, missing>>

\* The list fails, or pushes are not configured.
ListFails(f) ==
  /\ At(f, "list") /\ GoOn(f)
  /\ UNCHANGED <<sub, meant, dead, notes, reader, missing>>

\* After the endpoint e.
SentTo(f, e) ==
  IF fan[f].left = {e} THEN GoOn(f)
  ELSE Become(f, [fan[f] EXCEPT !.pc = "send", !.left = @ \ {e}, !.gone = {}, !.touched = @ \ {e}])

\* sendOne: the push service takes it.
Send(f, e) ==
  /\ At(f, "send") /\ e \in fan[f].left /\ e \notin dead
  /\ SentTo(f, e)
  /\ UNCHANGED <<sub, meant, dead, notes, reader, missing>>

\* ... answers 404 or 410.
SendGone(f, e) ==
  /\ At(f, "send") /\ e \in fan[f].left /\ e \in dead
  /\ Become(f, [fan[f] EXCEPT !.pc = "prune", !.gone = {e}])
  /\ UNCHANGED <<sub, meant, dead, notes, reader, missing>>

\* Mutated form of SendFails: any failure is taken for the end of the endpoint.
SendFailsAndPrunes(f, e) ==
  /\ At(f, "send") /\ e \in fan[f].left
  /\ Become(f, [fan[f] EXCEPT !.pc = "prune", !.gone = {e}])
  /\ UNCHANGED <<sub, meant, dead, notes, reader, missing>>

\* ... does not answer, or with another error: logged.
SendFails(f, e) ==
  /\ At(f, "send") /\ e \in fan[f].left
  /\ SentTo(f, e)
  /\ UNCHANGED <<sub, meant, dead, notes, reader, missing>>

\* DeletePushSubscriptionByEndpoint: whoever has it by now.
Prune(f, e) ==
  /\ At(f, "prune") /\ e \in fan[f].gone
  /\ sub' = [sub EXCEPT ![e] = NoRow]
  /\ SentTo(f, e)
  /\ UNCHANGED <<meant, dead, notes, reader, missing>>

PruneFails(f, e) ==
  /\ At(f, "prune") /\ e \in fan[f].gone
  /\ SentTo(f, e)
  /\ UNCHANGED <<sub, meant, dead, notes, reader, missing>>

\* The 30 seconds of the request are over, its caller is gone, or the process
\* has ended: every call that is left fails.
TimeUp(f) ==
  /\ Busy(f)
  /\ Become(f, [fan[f] EXCEPT !.pc = "done", !.cut = "cancelled", !.who = NoUser,
                               !.left = {}, !.gone = {}, !.touched = {}])
  /\ UNCHANGED <<sub, meant, dead, notes, reader, missing>>

NotifyStep(f) ==
  \/ Store(f) \/ StoreRefused(f) \/ StoreFails(f) \/ ListSubs(f) \/ ListFails(f)
  \/ \E e \in Endpoints :
       Send(f, e) \/ SendGone(f, e) \/ SendFails(f, e) \/ Prune(f, e) \/ PruneFails(f, e)

UserStep ==
  \/ \E u \in Users : MarkAllRead(u) \/ \E n \in Notes : MarkRead(u, n)
  \/ \E e \in Endpoints : Forget(e) \/ \E u \in Users : Subscribe(u, e) \/ Disable(u, e)

Next ==
  \/ UserStep
  \/ \E f \in Fanouts : \/ NotifyStep(f) \/ TimeUp(f)
                        \/ \E us \in SUBSET Users : Start(f, us) \/ StartFails(f, us)

Spec == Init /\ [][Next]_vars

-----------------------------------------------------------------------------
(* Properties.                                                             *)

\* A subscription is what its users made of it last, unless its push service
\* has forgotten the endpoint: no failure of a push, however it races with a
\* new subscription of the same endpoint, deletes a live one
\* (push/sender.go:81; the comment of SendToUser: "Subscriptions that return
\* HTTP 404/410 are pruned").
LiveSubscriptionsStay == \A e \in Endpoints \ dead : sub[e] = meant[e]

\* An endpoint that is sent to, and that nobody has written to since the
\* list, is the recipient's and enabled: a device that has changed hands or
\* said no before the list gets nothing (push/sender.go:45).
FreshPushesReachTheOwner ==
  \A f \in Fanouts : \A e \in (fan[f].left \ fan[f].touched) \ dead :
    sub[e] = [user |-> fan[f].who, enabled |-> TRUE]

\* What is pushed is stored: who opens the push finds the notification
\* (service/notifications.go:269).
PushesAreStored ==
  \A f \in Fanouts : fan[f].pc \in {"list", "send", "prune"} => <<f, fan[f].who>> \in notes

\* One recipient's failure, in the insert or in any push, costs no other
\* recipient the notification; it may be missing only because its own insert
\* failed, because its text was cut inside a character, because the request
\* was cancelled - or because the reviewers could not be listed: then, and only
\* then, nothing is stored for any of them (service/notifications.go:222).
LostNotesAreExplained ==
  \A f \in Fanouts : At(f, "done") =>
    \A u \in fan[f].all :
      \/ <<f, u>> \in notes \cup missing
      \/ CutsCharacter(fan[f].text)
      \/ fan[f].cut = "cancelled"
      \/ fan[f].cut = "unlisted" /\ \A v \in Users : <<f, v>> \notin notes

\* Nobody reads a notification for another, and none is read before it is
\* there.
ReadByRecipient ==
  \A n \in Notes : reader[n] # NoUser => n \in notes /\ reader[n] = n[2]

\* Where a request is in its list of recipients; a dead endpoint is the only
\* one that is to be deleted.
TurnsAreKept ==
  \A f \in Fanouts :
    /\ fan[f].todo \subseteq fan[f].all
    /\ Busy(f) => fan[f].who \in fan[f].all
    /\ fan[f].gone \subseteq dead
    /\ At(f, "idle") => /\ fan[f].all = {} /\ fan[f].left = {} /\ fan[f].gone = {}
                        /\ fan[f].who = NoUser /\ fan[f].cut = "no"
    /\ ~At(f, "idle") => \A u \in fan[f].all :
         \/ u \in fan[f].todo \cup {fan[f].who} \/ <<f, u>> \in notes \cup missing
         \/ CutsCharacter(fan[f].text) \/ fan[f].cut # "no"
    /\ At(f, "done") => fan[f].who = NoUser /\ (fan[f].todo = {} \/ fan[f].cut # "no")
    /\ fan[f].cut = "unlisted" => At(f, "done")
    /\ At(f, "idle") \/ fan[f].cut = "unlisted" => \A u \in Users : <<f, u>> \notin notes

\* The inductive invariant.
IInv ==
  /\ TypeOK
  /\ LiveSubscriptionsStay
  /\ FreshPushesReachTheOwner
  /\ PushesAreStored
  /\ ReadByRecipient
  /\ TurnsAreKept
=============================================================================
