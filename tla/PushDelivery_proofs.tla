------------------------- MODULE PushDelivery_proofs -------------------------
(***************************************************************************)
(* PushDelivery for any users, endpoints, texts and number of requests     *)
(* that notify at the same time.                                           *)
(***************************************************************************)
EXTENDS PushDelivery, TLAPS

\* The initial states satisfy the invariant.
LEMMA InitInv == Init => IInv
  <1> SUFFICES ASSUME Init PROVE IInv
    OBVIOUS
  <1> USE PushDeliveryAssumption DEF Init
  <1>1. \A f \in Fanouts : \E t \in Texts : fan[f] = Idle(t)
    OBVIOUS
  <1>2. \A t \in Texts : Idle(t) \in Fans
    BY DEF Idle, Fans, FanPCs
  <1>3. fan \in [Fanouts -> Fans]
    BY <1>2
  <1>4. TypeOK
    BY <1>3 DEF TypeOK, Rows, NoRow, Notes
  <1> QED
    BY <1>1, <1>4 DEF IInv, LiveSubscriptionsStay, FreshPushesReachTheOwner, PushesAreStored,
                      ReadByRecipient, TurnsAreKept, Idle, At, Busy

-----------------------------------------------------------------------------
(* What the helpers do to the record of a request.                         *)

\* The recipient of f is finished with: the next one is at its start, or all
\* are done.
Turned(f) ==
  /\ fan' \in [Fanouts -> Fans]
  /\ \A g \in Fanouts \ {f} : fan'[g] = fan[g]
  /\ fan'[f].text = fan[f].text /\ fan'[f].all = fan[f].all /\ fan'[f].cut = fan[f].cut
  /\ fan'[f].left = {} /\ fan'[f].gone = {} /\ fan'[f].touched = {}
  /\ \/ /\ fan'[f].pc = "store" /\ fan'[f].who \in fan[f].todo
        /\ fan'[f].todo = fan[f].todo \ {fan'[f].who}
     \/ /\ fan'[f].pc = "done" /\ fan'[f].who = NoUser
        /\ fan[f].todo = {} /\ fan'[f].todo = {}

LEMMA BecomeEffect ==
  ASSUME TypeOK, NEW f \in Fanouts, NEW state \in Fans, Become(f, state)
  PROVE  /\ fan' \in [Fanouts -> Fans]
         /\ fan'[f] = state
         /\ \A g \in Fanouts \ {f} : fan'[g] = fan[g]
  BY DEF Become, TypeOK

LEMMA GoOnTurns ==
  ASSUME TypeOK, NEW f \in Fanouts, GoOn(f)
  PROVE  Turned(f)
  <1>0. fan[f] \in Fans
    BY DEF TypeOK
  <1>1. CASE fan[f].todo = {}
    <2> DEFINE state == [fan[f] EXCEPT !.pc = "done", !.who = NoUser,
                                       !.left = {}, !.gone = {}, !.touched = {}]
    <2>1. state \in Fans
      BY <1>0 DEF Fans, FanPCs
    <2>2. Become(f, state)
      BY <1>1 DEF GoOn, End
    <2>3. /\ state.text = fan[f].text /\ state.all = fan[f].all /\ state.cut = fan[f].cut
          /\ state.left = {} /\ state.gone = {} /\ state.touched = {}
          /\ state.pc = "done" /\ state.who = NoUser /\ state.todo = fan[f].todo
      BY <1>0 DEF Fans
    <2> HIDE DEF state
    <2> QED
      BY <1>1, <2>1, <2>2, <2>3, BecomeEffect DEF Turned
  <1>2. CASE fan[f].todo # {}
    <2>1. PICK u \in fan[f].todo :
            Become(f, [fan[f] EXCEPT !.pc = "store", !.who = u, !.todo = fan[f].todo \ {u},
                                     !.left = {}, !.gone = {}, !.touched = {}])
      BY <1>2 DEF GoOn, Turn
    <2> DEFINE state == [fan[f] EXCEPT !.pc = "store", !.who = u, !.todo = fan[f].todo \ {u},
                                       !.left = {}, !.gone = {}, !.touched = {}]
    <2>2. fan[f].todo \subseteq Users
      BY <1>0 DEF Fans
    <2>3. state \in Fans
      BY <1>0, <2>2 DEF Fans, FanPCs
    <2>4. /\ state.text = fan[f].text /\ state.all = fan[f].all /\ state.cut = fan[f].cut
          /\ state.left = {} /\ state.gone = {} /\ state.touched = {}
          /\ state.pc = "store" /\ state.who = u /\ state.todo = fan[f].todo \ {u}
      BY <1>0 DEF Fans
    <2>5. Become(f, state)
      BY <2>1
    <2> HIDE DEF state
    <2> QED
      BY <2>3, <2>4, <2>5, BecomeEffect DEF Turned
  <1> QED
    BY <1>1, <1>2

\* The request f stays with its recipient.
Stays(f) ==
  /\ fan' \in [Fanouts -> Fans]
  /\ \A g \in Fanouts \ {f} : fan'[g] = fan[g]
  /\ fan'[f].text = fan[f].text /\ fan'[f].all = fan[f].all /\ fan'[f].cut = fan[f].cut
  /\ fan'[f].who = fan[f].who /\ fan'[f].todo = fan[f].todo

LEMMA SentToMoves ==
  ASSUME TypeOK, NEW f \in Fanouts, NEW e \in Endpoints, SentTo(f, e)
  PROVE  \/ Turned(f)
         \/ /\ Stays(f) /\ fan'[f].pc = "send" /\ fan'[f].left = fan[f].left \ {e}
            /\ fan'[f].gone = {} /\ fan'[f].touched = fan[f].touched \ {e}
  <1>1. CASE fan[f].left = {e}
    BY <1>1, GoOnTurns DEF SentTo
  <1>2. CASE fan[f].left # {e}
    <2> DEFINE state == [fan[f] EXCEPT !.pc = "send", !.left = fan[f].left \ {e}, !.gone = {},
                                       !.touched = fan[f].touched \ {e}]
    <2>0. fan[f] \in Fans
      BY DEF TypeOK
    <2>1. state \in Fans
      BY <2>0 DEF Fans, FanPCs
    <2>2. /\ state.text = fan[f].text /\ state.all = fan[f].all /\ state.cut = fan[f].cut
          /\ state.who = fan[f].who /\ state.todo = fan[f].todo /\ state.gone = {}
          /\ state.pc = "send" /\ state.left = fan[f].left \ {e}
          /\ state.touched = fan[f].touched \ {e}
      BY <2>0 DEF Fans
    <2>3. Become(f, state)
      BY <1>2 DEF SentTo
    <2> HIDE DEF state
    <2> QED
      BY <2>1, <2>2, <2>3, BecomeEffect DEF Stays
  <1> QED
    BY <1>1, <1>2

-----------------------------------------------------------------------------
(* One lemma per kind of step.                                             *)

\* A recipient that needs no explanation any more is finished with.
LEMMA TurnedStep ==
  ASSUME IInv, NEW f \in Fanouts, Busy(f), Turned(f),
         notes' = notes, missing \subseteq missing', missing' \subseteq Notes,
         \/ <<f, fan[f].who>> \in notes \cup missing'
         \/ CutsCharacter(fan[f].text),
         UNCHANGED <<meant, dead, reader>>,
         UNCHANGED sub \/ \E e \in dead : sub' = [sub EXCEPT ![e] = NoRow]
  PROVE  IInv'
  <1> USE PushDeliveryAssumption DEF IInv, TypeOK
  <1>0. sub' \in [Endpoints -> Rows] /\ \A e \in Endpoints \ dead : sub'[e] = sub[e]
    <2>1. NoRow \in Rows
      BY DEF Rows, NoRow
    <2> QED
      BY <2>1
  <1>1. TypeOK'
    BY <1>0 DEF Turned
  <1>2. LiveSubscriptionsStay' /\ ReadByRecipient'
    BY <1>0 DEF LiveSubscriptionsStay, ReadByRecipient
  <1>3. FreshPushesReachTheOwner'
    <2> SUFFICES ASSUME NEW g \in Fanouts, NEW e \in ((fan[g].left \ fan[g].touched) \ dead)'
                 PROVE  sub'[e] = [user |-> fan'[g].who, enabled |-> TRUE]
      BY DEF FreshPushesReachTheOwner
    <2>1. g # f
      BY DEF Turned
    <2>2. fan'[g] = fan[g] /\ fan[g] \in Fans
      BY <2>1 DEF Turned
    <2>3. e \in Endpoints
      BY <2>2 DEF Fans
    <2> QED
      BY <1>0, <2>2, <2>3 DEF FreshPushesReachTheOwner
  <1>4. PushesAreStored'
    BY DEF PushesAreStored, Turned
  <1>5. TurnsAreKept'
    <2>1. ASSUME NEW g \in Fanouts \ {f}
          PROVE  fan'[g] = fan[g] /\ (Busy(g) <=> Busy(g)') /\ (At(g, "idle") <=> At(g, "idle")')
                 /\ (At(g, "done") <=> At(g, "done")') /\ CutsCharacter(fan[g].text)' = CutsCharacter(fan[g].text)
      BY DEF Turned, Busy, At
    <2>2. fan[f].todo \subseteq fan[f].all /\ fan[f].who \in fan[f].all /\ ~At(f, "idle")
      BY DEF TurnsAreKept, Busy, At
    <2>3. CutsCharacter(fan[f].text)' = CutsCharacter(fan[f].text)
      BY DEF Turned
    <2>4. ASSUME NEW u \in fan[f].all
          PROVE  \/ u \in (fan[f].todo \cup {fan[f].who})' \/ <<f, u>> \in (notes \cup missing)'
                 \/ CutsCharacter(fan[f].text)' \/ (fan[f].cut # "no")'
      BY <2>2, <2>3, <2>4 DEF TurnsAreKept, Turned
    <2>5. /\ (fan[f].todo \subseteq fan[f].all)'
          /\ (Busy(f) => fan[f].who \in fan[f].all)'
          /\ (fan[f].gone \subseteq dead)'
          /\ (At(f, "done") => fan[f].who = NoUser /\ (fan[f].todo = {} \/ fan[f].cut # "no"))'
          /\ ~At(f, "idle")'
      BY <2>2 DEF Turned, Busy, At
    <2>6. fan'[f].all = fan[f].all
      BY DEF Turned
    <2>7. fan'[f].cut # "unlisted"
      BY DEF TurnsAreKept, Turned, Busy, At
    <2> QED
      BY <2>1, <2>4, <2>5, <2>6, <2>7 DEF TurnsAreKept
  <1> QED
    BY <1>1, <1>2, <1>3, <1>4, <1>5

\* A step within the turn of a recipient whose notification is stored.
LEMMA StaysStep ==
  ASSUME IInv, NEW f \in Fanouts, Busy(f), Stays(f),
         fan'[f].pc \in {"list", "send", "prune"},
         <<f, fan[f].who>> \in notes', notes \subseteq notes', notes' \subseteq Notes,
         notes' \subseteq notes \cup {<<f, fan[f].who>>},
         fan'[f].gone \subseteq dead,
         \A e \in (fan'[f].left \ fan'[f].touched) \ dead :
           sub[e] = [user |-> fan[f].who, enabled |-> TRUE],
         UNCHANGED <<meant, dead, reader, missing>>,
         UNCHANGED sub \/ \E e \in dead : sub' = [sub EXCEPT ![e] = NoRow]
  PROVE  IInv'
  <1> USE DEF IInv, TypeOK
  <1>0. sub' \in [Endpoints -> Rows] /\ \A e \in Endpoints \ dead : sub'[e] = sub[e]
    <2>1. NoRow \in Rows
      BY DEF Rows, NoRow
    <2> QED
      BY <2>1
  <1>1. TypeOK'
    BY <1>0 DEF Stays
  <1>2. LiveSubscriptionsStay' /\ ReadByRecipient'
    BY <1>0 DEF LiveSubscriptionsStay, ReadByRecipient
  <1>3. FreshPushesReachTheOwner'
    <2> SUFFICES ASSUME NEW g \in Fanouts, NEW d \in ((fan[g].left \ fan[g].touched) \ dead)'
                 PROVE  sub'[d] = [user |-> fan'[g].who, enabled |-> TRUE]
      BY DEF FreshPushesReachTheOwner
    <2>0. d \in Endpoints \ dead
      <3>1. fan'[g] \in Fans
        BY DEF Stays
      <3> QED
        BY <3>1 DEF Fans
    <2>1. CASE g = f
      BY <1>0, <2>0, <2>1 DEF Stays
    <2>2. CASE g # f
      <3>1. fan'[g] = fan[g] /\ dead' = dead
        BY <2>2 DEF Stays
      <3>2. sub[d] = [user |-> fan[g].who, enabled |-> TRUE]
        BY <3>1 DEF FreshPushesReachTheOwner
      <3> QED
        BY <1>0, <2>0, <3>1, <3>2
    <2> QED
      BY <2>1, <2>2
  <1>4. PushesAreStored'
    BY DEF PushesAreStored, Stays
  <1>5. TurnsAreKept'
    <2>1. ASSUME NEW g \in Fanouts \ {f}
          PROVE  fan'[g] = fan[g] /\ (Busy(g) <=> Busy(g)') /\ (At(g, "idle") <=> At(g, "idle")')
                 /\ (At(g, "done") <=> At(g, "done")') /\ CutsCharacter(fan[g].text)' = CutsCharacter(fan[g].text)
      BY DEF Stays, Busy, At
    <2>2. ~At(f, "done")' /\ ~At(f, "idle") /\ ~At(f, "idle")' /\ fan'[f].cut # "unlisted"
      BY DEF Busy, At, TurnsAreKept, Stays
    <2>3. CutsCharacter(fan[f].text)' = CutsCharacter(fan[f].text)
      BY DEF Stays
    <2>4. /\ (fan[f].todo \subseteq fan[f].all)'
          /\ (Busy(f) => fan[f].who \in fan[f].all)'
          /\ (fan[f].gone \subseteq dead)'
      BY DEF TurnsAreKept, Stays
    <2>5. ASSUME NEW u \in fan'[f].all
          PROVE  \/ u \in (fan[f].todo \cup {fan[f].who})' \/ <<f, u>> \in (notes \cup missing)'
                 \/ CutsCharacter(fan[f].text)' \/ (fan[f].cut # "no")'
      BY <2>2, <2>3, <2>5 DEF TurnsAreKept, Stays
    <2>6. \A g \in Fanouts \ {f} : \A u \in Users : <<g, u>> \in notes' => <<g, u>> \in notes
      OBVIOUS
    <2> QED
      BY <2>1, <2>2, <2>4, <2>5, <2>6 DEF TurnsAreKept
  <1> QED
    BY <1>1, <1>2, <1>3, <1>4, <1>5

\* A request begins, is cancelled, or cannot list its recipients.
LEMMA BoundaryStep ==
  ASSUME IInv, NEW f \in Fanouts, NEW state \in Fans, Become(f, state),
         state.text = fan[f].text, state.left = {}, state.gone = {},
         \/ /\ At(f, "idle") /\ state.pc = "store" /\ state.who \in state.all
            /\ state.todo = state.all \ {state.who} /\ state.cut = "no"
         \/ /\ state.pc = "done" /\ state.who = NoUser /\ state.cut = "cancelled"
            /\ state.todo = fan[f].todo /\ state.all = fan[f].all
         \/ /\ At(f, "idle") /\ state.pc = "done" /\ state.who = NoUser
            /\ state.todo = {} /\ state.cut = "unlisted",
         UNCHANGED <<sub, meant, dead, notes, reader, missing>>
  PROVE  IInv'
  <1> USE DEF IInv, TypeOK
  <1>0. fan' \in [Fanouts -> Fans] /\ fan'[f] = state /\ \A g \in Fanouts \ {f} : fan'[g] = fan[g]
    BY BecomeEffect
  <1>1. TypeOK'
    BY <1>0
  <1>2. LiveSubscriptionsStay' /\ ReadByRecipient'
    BY DEF LiveSubscriptionsStay, ReadByRecipient
  <1>3. FreshPushesReachTheOwner'
    BY <1>0 DEF FreshPushesReachTheOwner
  <1>4. PushesAreStored'
    BY <1>0 DEF PushesAreStored
  <1>5. TurnsAreKept'
    <2>1. ASSUME NEW g \in Fanouts \ {f}
          PROVE  fan'[g] = fan[g] /\ (Busy(g) <=> Busy(g)') /\ (At(g, "idle") <=> At(g, "idle")')
                 /\ (At(g, "done") <=> At(g, "done")') /\ CutsCharacter(fan[g].text)' = CutsCharacter(fan[g].text)
      BY <1>0 DEF Busy, At
    <2>2. /\ (fan[f].todo \subseteq fan[f].all)'
          /\ (Busy(f) => fan[f].who \in fan[f].all)'
          /\ (fan[f].gone \subseteq dead)'
          /\ \A u \in fan'[f].all : u \in fan'[f].todo \cup {fan'[f].who} \/ fan'[f].cut # "no"
          /\ (At(f, "done") => fan[f].who = NoUser /\ (fan[f].todo = {} \/ fan[f].cut # "no"))'
          /\ ~At(f, "idle")'
      BY <1>0 DEF Busy, At, TurnsAreKept
    <2>3. /\ fan'[f].cut = "unlisted" => At(f, "done")'
          /\ fan'[f].cut = "unlisted" => \A u \in Users : <<f, u>> \notin notes
      BY <1>0 DEF At, TurnsAreKept
    <2> QED
      BY <2>1, <2>2, <2>3 DEF TurnsAreKept
  <1> QED
    BY <1>1, <1>2, <1>3, <1>4, <1>5

\* Users write to an endpoint.
LEMMA WriteStep ==
  ASSUME IInv, NEW e \in Endpoints, NEW row \in Rows, Write(e, row)
  PROVE  IInv'
  <1> USE DEF IInv, TypeOK
  <1>0. \A f \in Fanouts : fan[f] \in Fans
    OBVIOUS
  <1>a. /\ sub' = [sub EXCEPT ![e] = row] /\ meant' = [meant EXCEPT ![e] = row]
        /\ UNCHANGED <<dead, notes, reader, missing>>
    BY DEF Write
  <1>b. \A d \in Endpoints \ {e} : sub'[d] = sub[d]
    BY <1>a
  <1>1. ASSUME NEW f \in Fanouts
        PROVE  /\ fan'[f] \in Fans
               /\ fan'[f].pc = fan[f].pc /\ fan'[f].text = fan[f].text /\ fan'[f].all = fan[f].all
               /\ fan'[f].todo = fan[f].todo /\ fan'[f].who = fan[f].who /\ fan'[f].left = fan[f].left
               /\ fan'[f].gone = fan[f].gone /\ fan'[f].cut = fan[f].cut
               /\ fan'[f].touched = fan[f].touched \cup ({e} \cap fan[f].left)
    <2> DEFINE state == [fan[f] EXCEPT !.touched = fan[f].touched \cup ({e} \cap fan[f].left)]
    <2>1. fan'[f] = state
      BY DEF Write
    <2>2. state \in Fans
      BY <1>0 DEF Fans
    <2>3. /\ state.pc = fan[f].pc /\ state.text = fan[f].text /\ state.all = fan[f].all
          /\ state.todo = fan[f].todo /\ state.who = fan[f].who /\ state.left = fan[f].left
          /\ state.gone = fan[f].gone /\ state.cut = fan[f].cut
          /\ state.touched = fan[f].touched \cup ({e} \cap fan[f].left)
      BY <1>0 DEF Fans
    <2> HIDE DEF state
    <2> QED
      BY <2>1, <2>2, <2>3
  <1>2. fan' \in [Fanouts -> Fans]
    <2>1. fan' = [f \in Fanouts |-> fan'[f]]
      BY DEF Write
    <2> QED
      BY <2>1, <1>1
  <1>3. TypeOK'
    BY <1>2, <1>a
  <1>4. LiveSubscriptionsStay' /\ ReadByRecipient'
    BY <1>a DEF LiveSubscriptionsStay, ReadByRecipient
  <1>5. FreshPushesReachTheOwner'
    <2> SUFFICES ASSUME NEW g \in Fanouts, NEW d \in ((fan[g].left \ fan[g].touched) \ dead)'
                 PROVE  sub'[d] = [user |-> fan'[g].who, enabled |-> TRUE]
      BY DEF FreshPushesReachTheOwner
    <2>1. d # e /\ d \in (fan[g].left \ fan[g].touched) \ dead
      BY <1>1, <1>a
    <2>2. d \in Endpoints
      BY <1>0, <2>1 DEF Fans
    <2>3. sub'[d] = sub[d]
      BY <1>b, <2>1, <2>2
    <2> QED
      BY <1>1, <2>1, <2>3 DEF FreshPushesReachTheOwner
  <1>6. PushesAreStored'
    BY <1>1, <1>a DEF PushesAreStored
  <1>7. TurnsAreKept'
    <2>1. ASSUME NEW g \in Fanouts
          PROVE  (Busy(g) <=> Busy(g)') /\ (At(g, "idle") <=> At(g, "idle")')
                 /\ (At(g, "done") <=> At(g, "done")') /\ CutsCharacter(fan[g].text)' = CutsCharacter(fan[g].text)
      BY <1>1 DEF Busy, At
    <2> QED
      BY <1>1, <1>a, <2>1 DEF TurnsAreKept
  <1> QED
    BY <1>3, <1>4, <1>5, <1>6, <1>7

\* Everything else that browsers and readers do.
LEMMA UserSteps ==
  ASSUME IInv, UserStep
  PROVE  IInv'
  <1> USE DEF IInv
  <1>1. ASSUME NEW u \in Users, NEW e \in Endpoints, Subscribe(u, e) \/ Disable(u, e)
        PROVE  IInv'
    <2>1. [user |-> u, enabled |-> TRUE] \in Rows /\ [sub[e] EXCEPT !.enabled = FALSE] \in Rows
      BY DEF TypeOK, Rows
    <2> QED
      BY <1>1, <2>1, WriteStep DEF Subscribe, Disable
  <1>2. ASSUME NEW e \in Endpoints, Forget(e)
        PROVE  IInv'
    BY <1>2 DEF Forget, TypeOK, LiveSubscriptionsStay, FreshPushesReachTheOwner, PushesAreStored,
                ReadByRecipient, TurnsAreKept, Busy, At
  <1>3. ASSUME NEW u \in Users, MarkAllRead(u) \/ \E n \in Notes : MarkRead(u, n)
        PROVE  IInv'
    <2>1. UNCHANGED <<sub, meant, dead, notes, fan, missing>>
      BY <1>3 DEF MarkAllRead, MarkRead
    <2>2. reader' \in [Notes -> Users \cup {NoUser}] /\ ReadByRecipient'
      BY <1>3 DEF MarkAllRead, MarkRead, Readable, TypeOK, ReadByRecipient
    <2> QED
      BY <2>1, <2>2 DEF TypeOK, LiveSubscriptionsStay, FreshPushesReachTheOwner, PushesAreStored,
                        TurnsAreKept, Busy, At
  <1> QED
    BY <1>1, <1>2, <1>3 DEF UserStep

\* A step of a request that notifies.
LEMMA NotifySteps ==
  ASSUME IInv, NEW f \in Fanouts, NotifyStep(f)
  PROVE  IInv'
  <1> USE DEF IInv
  <1>0. TypeOK /\ fan[f] \in Fans /\ (Busy(f) => <<f, fan[f].who>> \in Notes)
    BY DEF TypeOK, TurnsAreKept, Notes, Fans
  <1>1. CASE Store(f)
    <2> DEFINE state == [fan[f] EXCEPT !.pc = "list"]
    <2>1. state \in Fans /\ Become(f, state)
      BY <1>0, <1>1 DEF Store, Fans, FanPCs
    <2>2. /\ state.text = fan[f].text /\ state.all = fan[f].all /\ state.cut = fan[f].cut
          /\ state.who = fan[f].who /\ state.todo = fan[f].todo /\ state.gone = fan[f].gone
          /\ state.pc = "list" /\ state.left = fan[f].left /\ state.touched = fan[f].touched
      BY <1>0 DEF Fans
    <2>3. /\ Busy(f) /\ notes' = notes \cup {<<f, fan[f].who>>}
          /\ UNCHANGED <<sub, meant, dead, reader, missing>>
      BY <1>1 DEF Store, At, Busy
    <2> HIDE DEF state
    <2>4. Stays(f) /\ fan'[f] = state
      BY <1>0, <2>1, <2>2, BecomeEffect DEF Stays
    <2>5. /\ fan'[f].gone \subseteq dead
          /\ \A e \in (fan'[f].left \ fan'[f].touched) \ dead :
               sub[e] = [user |-> fan[f].who, enabled |-> TRUE]
      BY <2>2, <2>4 DEF TurnsAreKept, FreshPushesReachTheOwner
    <2>6. /\ <<f, fan[f].who>> \in notes' /\ notes \subseteq notes' /\ notes' \subseteq Notes
          /\ notes' \subseteq notes \cup {<<f, fan[f].who>>}
      BY <1>0, <2>3 DEF TypeOK
    <2>7. fan'[f].pc \in {"list", "send", "prune"}
      BY <2>2, <2>4
    <2> QED
      BY <2>3, <2>4, <2>5, <2>6, <2>7, StaysStep
  <1>2. CASE StoreRefused(f)
    BY <1>0, <1>2, GoOnTurns, TurnedStep DEF StoreRefused, At, Busy, TypeOK
  <1>3. CASE StoreFails(f)
    <2>1. /\ Busy(f) /\ Turned(f) /\ missing' = missing \cup {<<f, fan[f].who>>}
          /\ UNCHANGED <<sub, meant, dead, notes, reader>>
      BY <1>0, <1>3, GoOnTurns DEF StoreFails, At, Busy
    <2>2. missing \subseteq missing' /\ missing' \subseteq Notes
      BY <1>0, <2>1 DEF TypeOK
    <2> QED
      BY <2>1, <2>2, TurnedStep
  <1>s. At(f, "list") \/ At(f, "send") \/ At(f, "prune") => Busy(f) /\ <<f, fan[f].who>> \in notes
    BY DEF PushesAreStored, At, Busy
  <1>4. CASE ListFails(f)
    BY <1>0, <1>4, <1>s, GoOnTurns, TurnedStep DEF ListFails, TypeOK
  <1>5. CASE ListSubs(f)
    <2> DEFINE subs == ActiveOf(fan[f].who)
               state == [fan[f] EXCEPT !.pc = "send", !.left = subs]
    <2>1. UNCHANGED <<sub, meant, dead, notes, reader, missing>> /\ At(f, "list")
      BY <1>5 DEF ListSubs
    <2>2. CASE subs = {}
      <3>1. GoOn(f)
        BY <1>5, <2>2 DEF ListSubs
      <3> QED
        BY <1>0, <1>s, <2>1, <3>1, GoOnTurns, TurnedStep DEF TypeOK
    <2>3. CASE subs # {}
      <3>1. Become(f, state)
        BY <1>5, <2>3 DEF ListSubs
      <3>2. subs \in SUBSET Endpoints
        BY DEF ActiveOf
      <3>x. \A e \in subs : sub[e] = [user |-> fan[f].who, enabled |-> TRUE]
        BY DEF ActiveOf
      <3> HIDE DEF subs
      <3>3. state \in Fans
        BY <1>0, <3>2 DEF Fans, FanPCs
      <3>4. /\ state.text = fan[f].text /\ state.all = fan[f].all /\ state.cut = fan[f].cut
            /\ state.who = fan[f].who /\ state.todo = fan[f].todo /\ state.gone = fan[f].gone
            /\ state.pc = "send" /\ state.left = subs
        BY <1>0 DEF Fans
      <3> HIDE DEF state
      <3>5. Stays(f) /\ fan'[f] = state
        BY <1>0, <3>1, <3>3, <3>4, BecomeEffect DEF Stays
      <3>6. /\ fan'[f].gone \subseteq dead
            /\ \A e \in (fan'[f].left \ fan'[f].touched) \ dead :
                 sub[e] = [user |-> fan[f].who, enabled |-> TRUE]
        BY <3>x, <3>4, <3>5 DEF TurnsAreKept
      <3>7. fan'[f].pc \in {"list", "send", "prune"}
        BY <3>4, <3>5
      <3> QED
        BY <1>0, <1>s, <2>1, <3>5, <3>6, <3>7, StaysStep DEF TypeOK
    <2> QED
      BY <2>2, <2>3
  <1>6. ASSUME NEW e \in Endpoints, Send(f, e) \/ SendFails(f, e) \/ PruneFails(f, e)
        PROVE  IInv'
    <2>1. /\ SentTo(f, e) /\ Busy(f) /\ <<f, fan[f].who>> \in notes
          /\ UNCHANGED <<sub, meant, dead, notes, reader, missing>>
      BY <1>6, <1>s DEF Send, SendFails, PruneFails
    <2>2. CASE Turned(f)
      BY <1>0, <2>1, <2>2, TurnedStep DEF TypeOK
    <2>3. CASE /\ Stays(f) /\ fan'[f].pc = "send" /\ fan'[f].left = fan[f].left \ {e}
               /\ fan'[f].gone = {} /\ fan'[f].touched = fan[f].touched \ {e}
      <3>1. \A d \in (fan'[f].left \ fan'[f].touched) \ dead :
              sub[d] = [user |-> fan[f].who, enabled |-> TRUE]
        BY <2>3 DEF FreshPushesReachTheOwner
      <3>2. fan'[f].pc \in {"list", "send", "prune"} /\ fan'[f].gone \subseteq dead
        BY <2>3
      <3> QED
        BY <1>0, <2>1, <2>3, <3>1, <3>2, StaysStep DEF TypeOK
    <2> QED
      BY <1>0, <2>1, <2>2, <2>3, SentToMoves
  <1>7. ASSUME NEW e \in Endpoints, SendGone(f, e)
        PROVE  IInv'
    <2> DEFINE state == [fan[f] EXCEPT !.pc = "prune", !.gone = {e}]
    <2>1. /\ Become(f, state) /\ Busy(f) /\ <<f, fan[f].who>> \in notes /\ e \in dead
          /\ UNCHANGED <<sub, meant, dead, notes, reader, missing>>
      BY <1>7, <1>s DEF SendGone
    <2>2. state \in Fans
      BY <1>0 DEF Fans, FanPCs
    <2>3. /\ state.text = fan[f].text /\ state.all = fan[f].all /\ state.cut = fan[f].cut
          /\ state.who = fan[f].who /\ state.todo = fan[f].todo /\ state.gone = {e}
          /\ state.pc = "prune" /\ state.left = fan[f].left /\ state.touched = fan[f].touched
      BY <1>0 DEF Fans
    <2> HIDE DEF state
    <2>4. Stays(f) /\ fan'[f] = state
      BY <1>0, <2>1, <2>2, <2>3, BecomeEffect DEF Stays
    <2>5. \A d \in (fan'[f].left \ fan'[f].touched) \ dead :
            sub[d] = [user |-> fan[f].who, enabled |-> TRUE]
      BY <2>3, <2>4 DEF FreshPushesReachTheOwner
    <2>6. fan'[f].pc \in {"list", "send", "prune"} /\ fan'[f].gone \subseteq dead
      BY <2>1, <2>3, <2>4
    <2> QED
      BY <1>0, <2>1, <2>4, <2>5, <2>6, StaysStep DEF TypeOK
  <1>8. ASSUME NEW e \in Endpoints, Prune(f, e)
        PROVE  IInv'
    <2>1. /\ SentTo(f, e) /\ Busy(f) /\ <<f, fan[f].who>> \in notes
          /\ sub' = [sub EXCEPT ![e] = NoRow]
          /\ UNCHANGED <<meant, dead, notes, reader, missing>>
      BY <1>8, <1>s DEF Prune
    <2>2. e \in dead
      BY <1>8 DEF Prune, TurnsAreKept
    <2>3. CASE Turned(f)
      BY <1>0, <2>1, <2>2, <2>3, TurnedStep DEF TypeOK
    <2>4. CASE Stays(f) /\ fan'[f].pc = "send" /\ fan'[f].left = fan[f].left \ {e}
               /\ fan'[f].gone = {} /\ fan'[f].touched = fan[f].touched \ {e}
      <3>1. \A d \in (fan'[f].left \ fan'[f].touched) \ dead :
              sub[d] = [user |-> fan[f].who, enabled |-> TRUE]
        BY <2>4 DEF FreshPushesReachTheOwner
      <3>2. fan'[f].pc \in {"list", "send", "prune"} /\ fan'[f].gone \subseteq dead
        BY <2>4
      <3> QED
        BY <1>0, <2>1, <2>2, <2>4, <3>1, <3>2, StaysStep DEF TypeOK
    <2> QED
      BY <1>0, <2>1, <2>3, <2>4, SentToMoves
  <1> QED
    BY <1>1, <1>2, <1>3, <1>4, <1>5, <1>6, <1>7, <1>8 DEF NotifyStep

-----------------------------------------------------------------------------

\* The inductive invariant (IInv).
THEOREM InvariantHolds == Spec => []IInv
  <1>1. IInv /\ [Next]_vars => IInv'
    <2> SUFFICES ASSUME IInv, [Next]_vars PROVE IInv'
      OBVIOUS
    <2>1. CASE UNCHANGED vars
      BY <2>1 DEF vars, IInv, TypeOK, LiveSubscriptionsStay, FreshPushesReachTheOwner,
                  PushesAreStored, ReadByRecipient, TurnsAreKept, Busy, At
    <2>2. CASE UserStep
      BY <2>2, UserSteps
    <2>3. ASSUME NEW f \in Fanouts, NotifyStep(f) PROVE IInv'
      BY <2>3, NotifySteps
    <2>4. ASSUME NEW f \in Fanouts, TimeUp(f) PROVE IInv'
      <3> DEFINE state == [fan[f] EXCEPT !.pc = "done", !.cut = "cancelled", !.who = NoUser,
                                         !.left = {}, !.gone = {}, !.touched = {}]
      <3>0. fan[f] \in Fans
        BY DEF IInv, TypeOK
      <3>1. state \in Fans
        BY <3>0 DEF Fans, FanPCs
      <3>2. /\ state.text = fan[f].text /\ state.left = {} /\ state.gone = {}
            /\ state.pc = "done" /\ state.who = NoUser /\ state.todo = fan[f].todo
            /\ state.all = fan[f].all /\ state.cut = "cancelled"
        BY <3>0 DEF Fans
      <3>3. Become(f, state) /\ UNCHANGED <<sub, meant, dead, notes, reader, missing>>
        BY <2>4 DEF TimeUp
      <3> HIDE DEF state
      <3> QED
        BY <3>1, <3>2, <3>3, BoundaryStep
    <2>5. ASSUME NEW f \in Fanouts, NEW us \in SUBSET Users, StartFails(f, us) PROVE IInv'
      <3> DEFINE state == [fan[f] EXCEPT !.pc = "done", !.all = us, !.cut = "unlisted"]
      <3>0. fan[f] \in Fans
        BY DEF IInv, TypeOK
      <3>1. state \in Fans
        BY <3>0 DEF Fans, FanPCs
      <3>2. /\ state.text = fan[f].text /\ state.left = fan[f].left /\ state.gone = fan[f].gone
            /\ state.pc = "done" /\ state.who = fan[f].who /\ state.todo = fan[f].todo
            /\ state.cut = "unlisted"
        BY <3>0 DEF Fans
      <3>3. /\ Become(f, state) /\ At(f, "idle")
            /\ fan[f].left = {} /\ fan[f].gone = {} /\ fan[f].who = NoUser /\ fan[f].todo = {}
            /\ UNCHANGED <<sub, meant, dead, notes, reader, missing>>
        BY <2>5 DEF StartFails, IInv, TurnsAreKept
      <3> HIDE DEF state
      <3> QED
        BY <3>1, <3>2, <3>3, BoundaryStep
    <2>6. ASSUME NEW f \in Fanouts, NEW us \in SUBSET Users, Start(f, us) PROVE IInv'
      <3>0. fan[f] \in Fans
        BY DEF IInv, TypeOK
      <3>1. PICK u \in us :
              Become(f, [fan[f] EXCEPT !.pc = "store", !.all = us, !.who = u, !.todo = us \ {u}])
        BY <2>6 DEF Start
      <3> DEFINE state == [fan[f] EXCEPT !.pc = "store", !.all = us, !.who = u, !.todo = us \ {u}]
      <3>2. state \in Fans
        BY <3>0 DEF Fans, FanPCs
      <3>3. /\ state.text = fan[f].text /\ state.left = fan[f].left /\ state.gone = fan[f].gone
            /\ state.pc = "store" /\ state.who = u /\ state.todo = us \ {u} /\ state.all = us
            /\ state.cut = fan[f].cut
        BY <3>0 DEF Fans
      <3>4. /\ Become(f, state) /\ At(f, "idle") /\ fan[f].left = {} /\ fan[f].gone = {}
            /\ fan[f].cut = "no"
            /\ UNCHANGED <<sub, meant, dead, notes, reader, missing>>
        BY <2>6, <3>1 DEF Start, IInv, TurnsAreKept, At
      <3> HIDE DEF state
      <3> QED
        BY <3>2, <3>3, <3>4, BoundaryStep
    <2> QED
      BY <2>1, <2>2, <2>3, <2>4, <2>5, <2>6 DEF Next
  <1> QED
    BY InitInv, <1>1, PTL DEF Spec

\* No failed push deletes a subscription that is alive (LiveSubscriptionsStay).
THEOREM SubscriptionsStay == Spec => []LiveSubscriptionsStay
  <1>1. IInv => LiveSubscriptionsStay
    BY DEF IInv
  <1> QED
    BY InvariantHolds, <1>1, PTL

\* Only a device that was passed on meanwhile gets what is not its owner's
\* (FreshPushesReachTheOwner).
THEOREM PushesReachTheOwner == Spec => []FreshPushesReachTheOwner
  <1>1. IInv => FreshPushesReachTheOwner
    BY DEF IInv
  <1> QED
    BY InvariantHolds, <1>1, PTL

\* Nobody loses a notification through the failure of another's; all do when
\* their list cannot be read (LostNotesAreExplained).
THEOREM LostNotesHaveACause == Spec => []LostNotesAreExplained
  <1>1. IInv => LostNotesAreExplained
    <2> SUFFICES ASSUME IInv, NEW f \in Fanouts, At(f, "done"), NEW u \in fan[f].all
                 PROVE  \/ <<f, u>> \in notes \cup missing
                        \/ CutsCharacter(fan[f].text)
                        \/ fan[f].cut = "cancelled"
                        \/ fan[f].cut = "unlisted" /\ \A v \in Users : <<f, v>> \notin notes
      BY DEF LostNotesAreExplained
    <2>0. fan[f].cut \in {"no", "cancelled", "unlisted"}
      BY DEF IInv, TypeOK, Fans
    <2>1. NoUser \notin fan[f].all
      BY PushDeliveryAssumption DEF IInv, TypeOK, Fans
    <2> QED
      BY <2>0, <2>1 DEF IInv, TurnsAreKept, At
  <1> QED
    BY InvariantHolds, <1>1, PTL
=============================================================================
