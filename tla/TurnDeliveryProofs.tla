------------------------- MODULE TurnDeliveryProofs -------------------------
(* What holds of TurnDelivery for every choice of its constants. *)
EXTENDS TurnDelivery, TLAPS, FiniteSetTheorems

USE StoreAssumption, FilterAssumption, DeliveryAssumption
    DEF StoreAssumption, FilterAssumption, DeliveryAssumption

(* Lemmas about sequences and the operators on them. *)

LEMMA FunctionsAreSequences ==
    ASSUME NEW S, NEW n \in Nat, NEW f \in [1..n -> S]
    PROVE  f \in Seq(S) /\ Len(f) = n /\ DOMAIN f = 1..n
  OBVIOUS

LEMMA WithoutType ==
    ASSUME NEW S, NEW q \in Seq(S), NEW k \in DOMAIN q
    PROVE  Without(q, k) \in Seq(S)
<1>1. Len(q) - 1 \in Nat /\ k \in 1..Len(q)
  OBVIOUS
<1>2. Without(q, k) \in [1..(Len(q) - 1) -> S]
  BY <1>1 DEF Without
<1> QED BY <1>1, <1>2, FunctionsAreSequences

LEMMA RefreshedType ==
    ASSUME NEW S, NEW s \in Seq(S), NEW x \in Elements(s)
    PROVE  Refreshed(s, x) \in Seq(S)
<1>1. Len(s) \in Nat /\ DOMAIN s = 1..Len(s) /\ x \in S
  BY DEF Elements
<1>2. Refreshed(s, x) \in [1..Len(s) -> S]
  BY <1>1 DEF Refreshed
<1> QED BY <1>1, <1>2, FunctionsAreSequences

LEMMA RememberedType ==
    ASSUME NEW S, NEW s \in Seq(S), NEW x \in S
    PROVE  Remembered(s, x) \in Seq(S)
<1>1. Append(s, x) \in Seq(S) /\ Append(s, x) # <<>>
  OBVIOUS
<1>2. Tail(Append(s, x)) \in Seq(S)
  BY <1>1
<1> QED BY <1>1, <1>2 DEF Remembered

LEMMA SeenAfterType ==
    ASSUME NEW S, NEW s \in Seq(S), NEW x \in S
    PROVE  SeenAfter(s, x) \in Seq(S)
BY RefreshedType, RememberedType DEF SeenAfter, Accepts

(* Type correctness, one step per action of Next. *)

LEMMA Frames ==
    /\ HubType /\ UNCHANGED hubVars => HubType'
    /\ NetType /\ UNCHANGED netVars => NetType'
    /\ BackfillType /\ UNCHANGED bfVars => BackfillType'
    /\ InputType /\ UNCHANGED inVars => InputType'
    /\ PastType /\ UNCHANGED pastVars => PastType'
    /\ FaultsType /\ UNCHANGED faults => FaultsType'
<1>1. HubType /\ UNCHANGED hubVars => HubType'
  BY DEF HubType, hubVars
<1>2. NetType /\ UNCHANGED netVars => NetType'
  BY DEF NetType, netVars
<1>3. BackfillType /\ UNCHANGED bfVars => BackfillType'
  BY DEF BackfillType, bfVars
<1>4. InputType /\ UNCHANGED inVars => InputType'
  BY DEF InputType, inVars
<1>5. PastType /\ UNCHANGED pastVars => PastType'
  BY DEF PastType, pastVars
<1>6. FaultsType /\ UNCHANGED faults => FaultsType'
  BY DEF FaultsType
<1> QED BY <1>1, <1>2, <1>3, <1>4, <1>5, <1>6

LEMMA EmitToHubType ==
    ASSUME NetType, NEW p \in Reply, EmitToHub(p)
    PROVE  uplink' \in Seq(Reply) /\ unsent' \in Seq(Reply)
BY DEF NetType, EmitToHub

LEMMA EmitToRoomType ==
    ASSUME NetType, NEW p \in Packet, EmitToRoom(p)
    PROVE  downlink' \in Seq(Packet)
BY DEF NetType, EmitToRoom

LEMMA MarkedInvokedType ==
    ASSUME NEW T \in [Id -> Row], NEW t
    PROVE  MarkedInvoked(T, t) \in [Id -> Row]
<1>1. ASSUME NEW i \in Id PROVE [T[i] EXCEPT !.st = "invoked"] \in Row
  BY DEF Row
<1> QED BY <1>1 DEF MarkedInvoked

LEMMA DeletedIfQueuedType ==
    ASSUME NEW T \in [Id -> Row], NEW i \in Id
    PROVE  DeletedIfQueued(T, i) \in [Id -> Row]
<1>1. [T[i] EXCEPT !.st = "deleted"] \in Row
  BY DEF Row
<1> QED BY <1>1 DEF DeletedIfQueued

LEMMA InsertedType ==
    ASSUME NEW T \in [Id -> Row], NEW i \in Id, NEW n \in Id,
           NEW t \in Turn \cup {NoTurn}, NEW role \in {"user", "agent"}
    PROVE  Inserted(T, i, t, role, n) \in [Id -> Row]
BY DEF Inserted, Row, Id

LEMMA SettledType ==
    ASSUME HubType, NEW r \in Request, NEW i \in Id,
           NEW result \in {"idle", "asked", "cancelled", "sent", "unconfirmed"}
    PROVE  /\ Settled(r, result) \in [Request -> Call]
           /\ [Settled(r, result) EXCEPT ![r].id = i] \in [Request -> Call]
<1>1. Settled(r, result) \in [Request -> Call]
  BY DEF HubType, Settled, Call
<1>2. [Settled(r, result)[r] EXCEPT !.id = i] \in Call
  BY <1>1 DEF Call
<1> QED BY <1>1, <1>2

LEMMA SettledAnswerType ==
    ASSUME HubType, NEW r \in Request
    PROVE  /\ Settled(r, "cancelled") \in [Request -> Call]
           /\ Settled(r, "sent") \in [Request -> Call]
           /\ Settled(r, "unconfirmed") \in [Request -> Call]
BY DEF HubType, Settled, Call

LEMMA CallUpdateType ==
    ASSUME HubType, NEW r \in Request, NEW c \in Call
    PROVE  [cancels EXCEPT ![r] = c] \in [Request -> Call]
BY DEF HubType

LEMMA ReceiveType ==
    ASSUME InputType, HubType, NEW i \in Id, Receive(i)
    PROVE  InputType'
<1>1. rows[i].seq \in 0..MaxRows
  BY DEF HubType, Row
<1>2. seen' \in Seq(Id)
  BY SeenAfterType DEF InputType, Receive
<1>3. cursor' \in 0..MaxRows
  BY <1>1 DEF InputType, Receive, CursorAfter
<1>4. queue' \in Seq(Id) /\ pending' \in Seq(Id)
  BY DEF InputType, Receive, Enqueued
<1> QED BY <1>2, <1>3, <1>4 DEF Receive, InputType

LEMMA RunType ==
    /\ NoRun \in Run
    /\ \A n \in 0..MaxRows : Asking(n) \in Run
    /\ \A b \in Run : [b EXCEPT !.st = "loop"] \in Run
    /\ \A b \in Run, i \in Id : [b EXCEPT !.page = @ \ {i}] \in Run
<1>1. NoRun \in Run
  BY DEF NoRun, Run
<1>2. ASSUME NEW n \in 0..MaxRows PROVE Asking(n) \in Run
  BY DEF Asking, NoRun, Run
<1>3. ASSUME NEW b \in Run PROVE [b EXCEPT !.st = "loop"] \in Run
  BY DEF Run
<1>4. ASSUME NEW b \in Run, NEW i \in Id PROVE [b EXCEPT !.page = @ \ {i}] \in Run
  BY DEF Run
<1> QED BY <1>1, <1>2, <1>3, <1>4

LEMMA FaultType ==
    ASSUME FaultsType, NEW f \in FaultKind, Fault(f)
    PROVE  FaultsType'
BY DEF FaultsType, Fault

LEMMA InitType == Init => TypeOK
<1> SUFFICES ASSUME Init PROVE TypeOK
  OBVIOUS
<1>1. HubType
  BY DEF Init, HubType, EmptyTable, Row, Id, NoCall, Call
<1>2. link \in {"up", "dead", "down"} /\ stale \in BOOLEAN
  BY Zenon DEF Init
<1>3. downlink \in Seq(Packet) /\ uplink \in Seq(Reply) /\ unsent \in Seq(Reply)
  BY DEF Init
<1>4. backfill \in Run
  BY DEF Init, NoRun, Run
<1>5. needsBackfill \in BOOLEAN /\ connectedOnce \in BOOLEAN /\ ready \in BOOLEAN
  BY Zenon DEF Init
<1>6. seen \in Seq(Id) /\ cursor \in 0..MaxRows /\ pending \in Seq(Id) /\ queue \in Seq(Id)
  BY DEF Init
<1>7. PastType
  BY DEF Init, PastType
<1>8. FaultsType
  BY DEF Init, FaultsType, NoFaults, FaultKind
<1> QED BY <1>1, <1>2, <1>3, <1>4, <1>5, <1>6, <1>7, <1>8
           DEF TypeOK, NetType, BackfillType, InputType

LEMMA NextType == TypeOK /\ [Next]_vars => TypeOK'
<1> SUFFICES ASSUME TypeOK, [Next]_vars PROVE TypeOK'
  OBVIOUS
<1>t. HubType /\ NetType /\ BackfillType /\ InputType /\ PastType /\ FaultsType
  BY DEF TypeOK
<1> USE <1>t, Frames
<1>1. ASSUME NEW t \in Turn, PostTurn(t) PROVE TypeOK'
  <2>1. PICK i \in Id :
          /\ rows' = rows \/ \E n \in Id : rows' = Inserted(rows, i, t, "user", n)
          /\ downlink' = downlink \/ EmitToRoom(Message(i))
          /\ handed' = handed /\ reached' = reached
          /\ sinceRead' \subseteq sinceRead \cup {i}
    BY <1>1 DEF PostTurn, pastVars
  <2>2. rows' \in [Id -> Row]
    BY <2>1, InsertedType DEF HubType
  <2>3. downlink' \in Seq(Packet)
    BY <2>1, EmitToRoomType DEF NetType, Packet, Message
  <2>4. posts' \in [Turn -> 0..MaxPosts]
    BY <1>1 DEF PostTurn, HubType
  <2>5. HubType'
    BY <1>1, <2>2, <2>4 DEF PostTurn, HubType
  <2>6. NetType'
    BY <1>1, <2>3 DEF PostTurn, NetType
  <2>7. PastType'
    BY <2>1 DEF PastType
  <2> QED BY <1>1, <2>5, <2>6, <2>7 DEF PostTurn, TypeOK
<1>2. ASSUME NEW t \in Turn, BecomeDue(t) PROVE TypeOK'
  <2>1. HubType'
    BY <1>2 DEF BecomeDue, HubType
  <2> QED BY <1>2, <2>1 DEF BecomeDue, TypeOK
<1>3. ASSUME NEW role \in {"user", "agent"}, CliPosts(role) PROVE TypeOK'
  <2>1. PICK i \in Id : /\ \E n \in Id : rows' = Inserted(rows, i, NoTurn, role, n)
                        /\ handed' \subseteq handed \cup {i}
                        /\ reached' \subseteq reached \cup {i}
    BY <1>3 DEF CliPosts
  <2>2. HubType'
    BY <1>3, <2>1, InsertedType DEF CliPosts, HubType
  <2>3. PastType'
    BY <1>3, <2>1 DEF CliPosts, PastType
  <2> QED BY <1>3, <2>2, <2>3 DEF CliPosts, TypeOK
<1>4. ASSUME NEW i \in Id, ReleaseMature(i) PROVE TypeOK'
  <2>1. downlink' \in Seq(Packet)
    BY <1>4, EmitToRoomType DEF ReleaseMature, Packet, Message
  <2>2. NetType'
    BY <1>4, <2>1 DEF ReleaseMature, NetType
  <2>3. HubType'
    BY <1>4 DEF ReleaseMature, hubVars
  <2> QED BY <1>4, <2>2, <2>3 DEF ReleaseMature, TypeOK
<1>5. ASSUME NEW i \in Id, NEW r \in Request, RequestCancel(r, i) PROVE TypeOK'
  <2>1. rows' \in [Id -> Row]
    BY <1>5, DeletedIfQueuedType DEF RequestCancel, HubType
  <2>2. downlink' \in Seq(Packet)
    BY <1>5, EmitToRoomType DEF RequestCancel, NetType, Packet, Cancel
  <2>3. [st |-> "asked", id |-> i, wide |-> stale, got |-> "none"] \in Call
    BY DEF Call, NetType
  <2>4. cancels' \in [Request -> Call]
    <3>1. [cancels EXCEPT ![r] = [st |-> "asked", id |-> i, wide |-> stale,
                                  got |-> "none"]] \in [Request -> Call]
      BY <2>3, CallUpdateType
    <3>2. /\ [Settled(r, "cancelled") EXCEPT ![r].id = i] \in [Request -> Call]
          /\ [Settled(r, "sent") EXCEPT ![r].id = i] \in [Request -> Call]
      BY SettledType, Zenon
    <3> QED BY <1>5, <3>1, <3>2 DEF RequestCancel
  <2>5. HubType'
    BY <1>5, <2>1, <2>4 DEF RequestCancel, HubType
  <2>6. NetType'
    BY <1>5, <2>2 DEF RequestCancel, NetType
  <2> QED BY <1>5, <2>5, <2>6 DEF RequestCancel, TypeOK
<1>6. ASSUME NEW r \in Request, CancelTimesOut(r) PROVE TypeOK'
  <2>1. rows' \in [Id -> Row]
    <3>1. CASE cancels[r].id \in Id
      BY <1>6, <3>1, DeletedIfQueuedType DEF CancelTimesOut, ConfirmRemoved, HubType
    <3>2. CASE cancels[r].id \notin Id
      BY <1>6, <3>2 DEF CancelTimesOut, ConfirmRemoved, HubType, DeletedIfQueued
    <3> QED BY <3>1, <3>2
  <2>2. cancels' \in [Request -> Call]
    BY <1>6, SettledAnswerType DEF CancelTimesOut, ConfirmRemoved
  <2>3. HubType'
    BY <1>6, <2>1, <2>2 DEF CancelTimesOut, HubType
  <2>4. FaultsType'
    BY <1>6, FaultType DEF CancelTimesOut, FaultKind
  <2> QED BY <1>6, <2>3, <2>4 DEF CancelTimesOut, TypeOK
<1>7. CASE HubReceives
  <2>1. Head(uplink) \in Reply /\ uplink' \in Seq(Reply)
    BY <1>7 DEF HubReceives, NetType
  <2>2. CASE Head(uplink).kind = "consumed"
    <3>1. HubType'
      BY <1>7, <2>2, MarkedInvokedType DEF HubReceives, HubType
    <3>2. NetType'
      BY <1>7, <2>1 DEF HubReceives, NetType
    <3> QED BY <1>7, <3>1, <3>2 DEF HubReceives, TypeOK
  <2>3. CASE Head(uplink).kind = "ack"
    <3> DEFINE r == Head(uplink).req
    <3>1. r \in Request
      BY <2>1, <2>3 DEF Reply
    <3>2. rows' \in [Id -> Row]
      <4>1. DeletedIfQueued(rows, cancels[r].id) \in [Id -> Row]
        <5>1. CASE cancels[r].id \in Id
          BY <5>1, DeletedIfQueuedType DEF HubType
        <5>2. CASE cancels[r].id \notin Id
          BY <5>2 DEF DeletedIfQueued, HubType
        <5> QED BY <5>1, <5>2
      <4> QED BY <1>7, <2>3, <4>1, MarkedInvokedType
                 DEF HubReceives, ConfirmRemoved, AssumeConsumed, HubType
    <3>3. cancels' \in [Request -> Call]
      <4>1. ASSUME NEW g \in {"removed", "notFound"}
            PROVE  [cancels EXCEPT ![r].got = g] \in [Request -> Call]
        BY <3>1 DEF HubType, Call
      <4>2. Settled(r, "cancelled") \in [Request -> Call] /\ Settled(r, "sent") \in [Request -> Call]
        BY <3>1, SettledAnswerType
      <4>3. CASE cancels[r].st = "asked" /\ cancels[r].wide
        BY <1>7, <2>3, <4>1, <4>3, Zenon DEF HubReceives
      <4>4. CASE cancels[r].st = "asked" /\ ~cancels[r].wide
        BY <1>7, <2>3, <4>2, <4>4, Zenon DEF HubReceives, ConfirmRemoved, AssumeConsumed
      <4>5. CASE cancels[r].st # "asked"
        BY <1>7, <2>3, <4>5 DEF HubReceives, HubType
      <4> QED BY <4>3, <4>4, <4>5, Zenon
    <3>4. HubType'
      BY <1>7, <3>2, <3>3 DEF HubReceives, HubType
    <3>5. NetType'
      BY <1>7, <2>1 DEF HubReceives, NetType
    <3> QED BY <1>7, <3>4, <3>5 DEF HubReceives, TypeOK
  <2> QED BY <1>7, <2>2, <2>3 DEF HubReceives
<1>8. CASE HubServesBackfill
  <2>1. Page(rows, due, backfill.after) \subseteq Id
    BY DEF Page, DeliverableAfter, Present
  <2>2. backfill' \in Run
    BY <1>8, <2>1 DEF HubServesBackfill, BackfillType, Run
  <2>3. BackfillType'
    BY <1>8, <2>2 DEF HubServesBackfill, BackfillType
  <2> QED BY <1>8, <2>3 DEF HubServesBackfill, TypeOK
<1>9. CASE ReceiveMessage
  <2>1. Head(downlink) \in Packet /\ downlink' \in Seq(Packet)
    BY <1>9 DEF ReceiveMessage, NetType
  <2>2. Head(downlink).id \in Id
    BY <1>9, <2>1 DEF ReceiveMessage, Packet
  <2>3. InputType'
    BY <1>9, <2>2, ReceiveType DEF ReceiveMessage
  <2>4. NetType'
    BY <1>9, <2>1 DEF ReceiveMessage, NetType
  <2> QED BY <1>9, <2>3, <2>4 DEF ReceiveMessage, TypeOK
<1>10. CASE ReceiveCancel
  <2>1. Head(downlink) \in Packet /\ downlink' \in Seq(Packet)
    BY <1>10 DEF ReceiveCancel, NetType
  <2>2. Head(downlink).req \in Request
    BY <1>10, <2>1 DEF ReceiveCancel, Packet
  <2>3. queue' \in Seq(Id)
    BY <1>10, WithoutType DEF ReceiveCancel, Places, InputType
  <2>4. uplink' \in Seq(Reply) /\ unsent' \in Seq(Reply)
    <3>1. Ack(Head(downlink).req, TRUE) \in Reply /\ Ack(Head(downlink).req, FALSE) \in Reply
      BY <2>2, Zenon DEF Ack, Reply
    <3> QED BY <1>10, <3>1, EmitToHubType DEF ReceiveCancel
  <2>5. NetType'
    BY <1>10, <2>1, <2>4 DEF ReceiveCancel, NetType
  <2>6. InputType'
    BY <1>10, <2>3 DEF ReceiveCancel, InputType
  <2> QED BY <1>10, <2>5, <2>6 DEF ReceiveCancel, TypeOK
<1>11. CASE Register
  <2>1. InputType'
    BY <1>11, Zenon DEF Register, InputType
  <2> QED BY <1>11, <2>1 DEF Register, TypeOK
<1>12. CASE DrainPending
  <2>1. InputType'
    BY <1>12 DEF DrainPending, Enqueued, InputType
  <2> QED BY <1>12, <2>1 DEF DrainPending, TypeOK
<1>13. CASE TakeTurn
  <2>1. Head(queue) \in Id /\ queue' \in Seq(Id)
    BY <1>13 DEF TakeTurn, InputType
  <2>2. uplink' \in Seq(Reply) /\ unsent' \in Seq(Reply)
    BY <1>13, EmitToHubType DEF TakeTurn, NetType, Reply, Consumed
  <2>3. InputType'
    BY <1>13, <2>1 DEF TakeTurn, InputType
  <2>4. NetType'
    BY <1>13, <2>2 DEF TakeTurn, NetType
  <2>5. PastType'
    BY <1>13, <2>1 DEF TakeTurn, PastType
  <2> QED BY <1>13, <2>3, <2>4, <2>5 DEF TakeTurn, TypeOK
<1>14. CASE BeginPage
  <2>1. backfill' \in Run
    BY <1>14, RunType, Zenon DEF BeginPage, BackfillType
  <2>2. BackfillType'
    BY <1>14, <2>1, Zenon DEF BeginPage, BackfillType
  <2> QED BY <1>14, <2>2 DEF BeginPage, TypeOK
<1>15. ASSUME NEW i \in Id, PageStep(i) PROVE TypeOK'
  <2>1. rows[i].seq \in 0..MaxRows
    BY DEF HubType, Row
  <2>2. InputType'
    BY <1>15, ReceiveType DEF PageStep
  <2>3. backfill' \in Run
    <3>1. backfill \in Run /\ cursor' \in 0..MaxRows
      BY <2>2 DEF InputType, BackfillType
    <3>2. CASE backfill.page # {i}
      BY <1>15, <3>1, <3>2, RunType, Zenon DEF PageStep
    <3>3. CASE backfill.page = {i} /\ backfill.full
      BY <1>15, <2>1, <3>1, <3>3, RunType, Zenon DEF PageStep
    <3>4. CASE backfill.page = {i} /\ ~backfill.full
      BY <1>15, <3>4, RunType, Zenon DEF PageStep
    <3> QED BY <3>2, <3>3, <3>4, Zenon
  <2>4. needsBackfill' \in BOOLEAN /\ connectedOnce' \in BOOLEAN
    BY <1>15, Zenon DEF PageStep, BackfillType
  <2>5. BackfillType'
    BY <2>3, <2>4 DEF BackfillType
  <2> QED BY <1>15, <2>2, <2>5 DEF PageStep, TypeOK
<1>16. CASE Connect
  <2>1. backfill' \in Run
    BY <1>16, RunType, Zenon DEF Connect, BackfillType, InputType
  <2>2. needsBackfill' \in BOOLEAN /\ connectedOnce' \in BOOLEAN
    BY <1>16, Zenon DEF Connect, BackfillType
  <2>3. NetType'
    BY <1>16 DEF Connect, NetType
  <2> QED BY <1>16, <2>1, <2>2, <2>3 DEF Connect, BackfillType, TypeOK
<1>17. CASE CliNoticesDrop
  <2>1. NetType'
    BY <1>17 DEF CliNoticesDrop, NetType
  <2>2. BackfillType'
    BY <1>17, Zenon DEF CliNoticesDrop, BackfillType
  <2> QED BY <1>17, <2>1, <2>2 DEF CliNoticesDrop, TypeOK
<1>18. CASE BackfillFails
  <2>1. backfill' \in Run
    BY <1>18, RunType DEF BackfillFails
  <2>2. BackfillType'
    BY <1>18, <2>1, Zenon DEF BackfillFails, BackfillType
  <2>3. FaultsType'
    BY <1>18, FaultType DEF BackfillFails, FaultKind
  <2> QED BY <1>18, <2>2, <2>3 DEF BackfillFails, TypeOK
<1>19. CASE Drop
  <2>1. NetType'
    BY <1>19 DEF Drop, NetType
  <2>2. BackfillType'
    BY <1>19, Zenon DEF Drop, BackfillType
  <2>3. FaultsType'
    BY <1>19, FaultType DEF Drop, FaultKind
  <2> QED BY <1>19, <2>1, <2>2, <2>3 DEF Drop, TypeOK
<1>20. CASE HubNoticesDrop
  <2>1. NetType'
    BY <1>20, Zenon DEF HubNoticesDrop, NetType
  <2> QED BY <1>20, <2>1 DEF HubNoticesDrop, TypeOK
<1>21. CASE HubRestart
  <2>1. HubType'
    <3>1. cancels' \in [Request -> Call]
      BY <1>21 DEF HubRestart, HubType, Call
    <3> QED BY <1>21, <3>1 DEF HubRestart, HubType
  <2>2. link' \in {"up", "dead", "down"} /\ stale' \in BOOLEAN
    BY <1>21, Zenon DEF HubRestart, NetType
  <2>3. NetType'
    BY <1>21, <2>2 DEF HubRestart, NetType
  <2>4. backfill' \in Run
    BY <1>21, RunType, Zenon DEF HubRestart, BackfillType
  <2>5. BackfillType'
    BY <1>21, <2>4, Zenon DEF HubRestart, BackfillType
  <2>6. FaultsType'
    BY <1>21, FaultType DEF HubRestart, FaultKind
  <2> QED BY <1>21, <2>1, <2>3, <2>5, <2>6 DEF HubRestart, TypeOK
<1>22. CASE CliRestart
  <2>1. link' \in {"up", "dead", "down"} /\ stale' \in BOOLEAN
    BY <1>22, Zenon DEF CliRestart, NetType
  <2>2. NetType'
    BY <1>22, <2>1 DEF CliRestart, NetType
  <2>3. backfill' \in Run
    BY <1>22 DEF CliRestart, NoRun, Run
  <2>4. BackfillType'
    BY <1>22, <2>3, Zenon DEF CliRestart, BackfillType
  <2>5. ready' \in BOOLEAN
    BY <1>22, Zenon DEF CliRestart
  <2>6. InputType'
    BY <1>22, <2>5 DEF CliRestart, InputType
  <2>7. PastType' /\ HubType'
    BY <1>22 DEF CliRestart, PastType
  <2>8. FaultsType'
    BY <1>22, FaultType DEF CliRestart, FaultKind
  <2> QED BY <2>2, <2>4, <2>6, <2>7, <2>8 DEF TypeOK
<1>23. CASE UNCHANGED vars
  BY <1>23 DEF vars, TypeOK, hubVars, netVars, bfVars, inVars, pastVars
<1> QED
  BY <1>1, <1>2, <1>3, <1>4, <1>5, <1>6, <1>7, <1>8, <1>9, <1>10, <1>11, <1>12,
     <1>13, <1>14, <1>15, <1>16, <1>17, <1>18, <1>19, <1>20, <1>21, <1>22, <1>23
     DEF Next, CliStep

(* Every variable keeps its type, in every session of any size. *)
THEOREM TypeCorrect == Spec => []TypeOK
<1>1. Init => TypeOK
  BY InitType
<1>2. TypeOK /\ [Next]_vars => TypeOK'
  BY NextType
<1> QED BY <1>1, <1>2, PTL DEF Spec

(***************************************************************************)
(* What a step can do to the table: nothing, insert a fresh row, settle    *)
(* the queued rows of a localId, or delete a queued row.                   *)
(***************************************************************************)

TableStep ==
    \/ rows' = rows
    \/ \E i, n \in Id, t \in Turn \cup {NoTurn}, role \in {"user", "agent"} :
            /\ rows[i].st = "unused" /\ IsNextSeq(rows, n) /\ rows' = Inserted(rows, i, t, role, n)
            /\ t \in Turn => role = "user" /\ Existing(rows, t) = {}
    \/ \E t \in Turn : rows' = MarkedInvoked(rows, t)
    \/ \E i \in Id : rows' = DeletedIfQueued(rows, i)

LEMMA DeletedOutside ==
    ASSUME NEW T \in [Id -> Row], NEW i, i \notin Id
    PROVE  DeletedIfQueued(T, i) = T
BY DEF DeletedIfQueued

LEMMA ConfirmRemovedStep ==
    ASSUME HubType, NEW r \in Request, ConfirmRemoved(r)
    PROVE  TableStep
<1>1. CASE cancels[r].id \in Id
  BY <1>1 DEF ConfirmRemoved, TableStep
<1>2. CASE cancels[r].id \notin Id
  BY <1>2, DeletedOutside DEF ConfirmRemoved, TableStep, HubType
<1> QED BY <1>1, <1>2

LEMMA MarkedNoTurn ==
    ASSUME NEW T \in [Id -> Row], NEW t, \A i \in Id : T[i].st = "queued" => T[i].local # t
    PROVE  MarkedInvoked(T, t) = T
BY DEF MarkedInvoked

\* The rows the CLI wrote itself are stamped when they are inserted.
QueuedAreTurns == \A i \in Id : rows[i].st = "queued" => rows[i].local \in Turn

LEMMA AssumeConsumedStep ==
    ASSUME HubType, QueuedAreTurns, NEW r \in Request, AssumeConsumed(r)
    PROVE  TableStep
<1> DEFINE t == rows[cancels[r].id].local
<1>1. CASE t \in Turn
  BY <1>1 DEF AssumeConsumed, TableStep
<1>2. CASE t \notin Turn
  <2>1. \A i \in Id : rows[i].st = "queued" => rows[i].local # t
    BY <1>2 DEF QueuedAreTurns
  <2> QED BY <2>1, MarkedNoTurn DEF AssumeConsumed, TableStep, HubType
<1> QED BY <1>1, <1>2

LEMMA EveryStepOnTable ==
    ASSUME TypeOK, QueuedAreTurns, [Next]_vars
    PROVE  TableStep /\ due \subseteq due'
<1>t. HubType /\ NetType
  BY DEF TypeOK
<1>1. ASSUME NEW t \in Turn, PostTurn(t) PROVE TableStep /\ due' = due
  BY <1>1 DEF PostTurn, TableStep, IsFresh
<1>2. ASSUME NEW t \in Turn, BecomeDue(t) PROVE TableStep /\ due \subseteq due'
  BY <1>2 DEF BecomeDue, TableStep
<1>3. ASSUME NEW role \in {"user", "agent"}, CliPosts(role) PROVE TableStep /\ due' = due
  BY <1>3 DEF CliPosts, TableStep, IsFresh
<1>4. ASSUME NEW i \in Id, ReleaseMature(i) PROVE TableStep /\ due' = due
  BY <1>4 DEF ReleaseMature, TableStep
<1>5. ASSUME NEW i \in Id, NEW r \in Request, RequestCancel(r, i)
      PROVE  TableStep /\ due' = due
  BY <1>5 DEF RequestCancel, TableStep
<1>6. ASSUME NEW r \in Request, CancelTimesOut(r) PROVE TableStep /\ due' = due
  <2>1. CASE cancels[r].got = "removed"
    BY <1>t, <1>6, <2>1, ConfirmRemovedStep DEF CancelTimesOut
  <2>2. CASE cancels[r].got # "removed"
    BY <1>6, <2>2 DEF CancelTimesOut, TableStep
  <2> QED BY <1>6, <2>1, <2>2 DEF CancelTimesOut
<1>7. CASE HubReceives
  <2>1. Head(uplink) \in Reply
    BY <1>t, <1>7 DEF HubReceives, NetType
  <2>2. CASE Head(uplink).kind = "consumed"
    BY <1>7, <2>1, <2>2 DEF HubReceives, Reply, TableStep
  <2>3. CASE Head(uplink).kind = "ack"
    <3> DEFINE r == Head(uplink).req
    <3>1. r \in Request
      BY <2>1, <2>3 DEF Reply
    <3>2. rows' = rows \/ ConfirmRemoved(r) \/ AssumeConsumed(r)
      BY <1>7, <2>3, Zenon DEF HubReceives
    <3>3. TableStep
      BY <1>t, <3>1, <3>2, ConfirmRemovedStep, AssumeConsumedStep DEF TableStep
    <3> QED BY <1>7, <3>3 DEF HubReceives
  <2> QED BY <1>7, <2>2, <2>3 DEF HubReceives
<1>8. CASE UNCHANGED hubVars
  BY <1>8 DEF hubVars, TableStep
<1>9. CASE HubRestart \/ TakeTurn \/ UNCHANGED vars
  BY <1>9 DEF HubRestart, TakeTurn, vars, TableStep, hubVars
<1>10. Next => \/ \E t \in Turn : PostTurn(t) \/ BecomeDue(t)
               \/ \E role \in {"user", "agent"} : CliPosts(role)
               \/ \E i \in Id : ReleaseMature(i) \/ \E r \in Request : RequestCancel(r, i)
               \/ \E r \in Request : CancelTimesOut(r)
               \/ HubReceives \/ UNCHANGED hubVars \/ HubRestart
  BY DEF Next, CliStep, HubServesBackfill, ReceiveMessage, ReceiveCancel, Register,
         DrainPending, TakeTurn, BeginPage, PageStep, Connect, CliNoticesDrop,
         BackfillFails, Drop, HubNoticesDrop, CliRestart
<1> QED BY <1>1, <1>2, <1>3, <1>4, <1>5, <1>6, <1>7, <1>8, <1>9, <1>10

LEMMA TableAges ==
    ASSUME TypeOK, TableStep, NEW i \in Id
    PROVE  /\ rows[i].st \in {"invoked", "deleted"} => rows'[i] = rows[i]
           /\ rows[i].st # "unused" => rows'[i].st # "unused" /\ rows'[i].local = rows[i].local
           /\ rows'[i].st = "queued" => rows[i].st = "queued" \/ rows'[i].local \in Turn
BY DEF TypeOK, HubType, TableStep, Inserted, MarkedInvoked, DeletedIfQueued, Row

LEMMA QueuedAreTurnsStep ==
    ASSUME TypeOK, QueuedAreTurns, [Next]_vars
    PROVE  QueuedAreTurns'
BY EveryStepOnTable, TableAges DEF QueuedAreTurns, TypeOK, HubType, Row

LEMMA InitQueuedAreTurns == Init => QueuedAreTurns
BY DEF Init, EmptyTable, QueuedAreTurns

(***************************************************************************)
(* Whatever cancels, acks and repeated acks race for a row, it leaves the  *)
(* queued state once: no step of any session rewrites a settled row.       *)
(***************************************************************************)
THEOREM SettledForGood == Spec => SettledRowsStay
<1>1. Init => TypeOK /\ QueuedAreTurns
  BY InitType, InitQueuedAreTurns
<1>2. TypeOK /\ QueuedAreTurns /\ [Next]_vars => (TypeOK /\ QueuedAreTurns)'
  BY NextType, QueuedAreTurnsStep
<1>3. TypeOK /\ QueuedAreTurns /\ [Next]_vars
        => [\A i \in Id : rows[i].st \in {"invoked", "deleted"} => rows'[i] = rows[i]]_vars
  BY EveryStepOnTable, TableAges
<1> QED BY <1>1, <1>2, <1>3, PTL DEF Spec, SettledRowsStay

(***************************************************************************)
(* NoEarlyHandOff.  It is not inductive as it stands: a row that is in no  *)
(* queue yet may be in a packet or a response.  NoneTravelsEarly covers    *)
(* every place between the table and the agent.  A ripe row stays ripe,    *)
(* so each action is judged by the rows it adds to Travelling.             *)
(***************************************************************************)

LEMMA RipeStays ==
    ASSUME TypeOK, QueuedAreTurns, [Next]_vars
    PROVE  Ripe \subseteq Ripe'
BY EveryStepOnTable, TableAges DEF Ripe, Future

LEMMA ElementsOfTail ==
    ASSUME NEW S, NEW s \in Seq(S), s # <<>>
    PROVE  Elements(Tail(s)) \subseteq Elements(s) /\ Head(s) \in Elements(s)
BY DEF Elements

LEMMA ElementsOfAppend ==
    ASSUME NEW S, NEW s \in Seq(S), NEW x \in S
    PROVE  Elements(Append(s, x)) \subseteq Elements(s) \cup {x}
BY DEF Elements

LEMMA ElementsOfWithout ==
    ASSUME NEW S, NEW q \in Seq(S), NEW k \in DOMAIN q
    PROVE  Elements(Without(q, k)) \subseteq Elements(q)
<1>1. Len(q) - 1 \in Nat /\ k \in 1..Len(q) /\ DOMAIN q = 1..Len(q)
  OBVIOUS
<1>2. DOMAIN Without(q, k) = 1..(Len(q) - 1)
  BY <1>1 DEF Without
<1>3. ASSUME NEW j \in 1..(Len(q) - 1) PROVE Without(q, k)[j] \in Elements(q)
  BY <1>1, <1>3 DEF Without, Elements
<1> QED BY <1>2, <1>3 DEF Elements

\* The rows named by packets on the way down.
Carried(d) == {i \in Id : Message(i) \in Elements(d)}

LEMMA EmittedMessage ==
    ASSUME NetType, NEW j \in Id, EmitToRoom(Message(j))
    PROVE  Carried(downlink') \subseteq Carried(downlink) \cup {j}
<1>1. Message(j) \in Packet
  BY DEF Message, Packet
<1>2. Elements(downlink') \subseteq Elements(downlink) \cup {Message(j)}
  BY <1>1, ElementsOfAppend DEF NetType, EmitToRoom
<1>3. \A i \in Id : Message(i) = Message(j) => i = j
  BY DEF Message
<1> QED BY <1>2, <1>3 DEF Carried

LEMMA EmittedCancel ==
    ASSUME NetType, NEW r \in Request, EmitToRoom(Cancel(r))
    PROVE  Carried(downlink') \subseteq Carried(downlink)
<1>1. Cancel(r) \in Packet
  BY DEF Cancel, Packet
<1>2. Elements(downlink') \subseteq Elements(downlink) \cup {Cancel(r)}
  BY <1>1, ElementsOfAppend DEF NetType, EmitToRoom
<1>3. \A i \in Id : Message(i) # Cancel(r)
  BY DEF Message, Cancel
<1> QED BY <1>2, <1>3 DEF Carried

LEMMA EnqueuedElements ==
    ASSUME NEW q \in Seq(Id), NEW i \in Id
    PROVE  Elements(Enqueued(q, i)) \subseteq Elements(q) \cup {i}
<1>1. Elements(<<i>>) = {i}
  BY DEF Elements
<1> QED BY <1>1, ElementsOfAppend DEF Enqueued

LEMMA ReceivedElements ==
    ASSUME InputType, NEW i \in Id, Receive(i)
    PROVE  /\ Elements(queue') \subseteq Elements(queue) \cup {i}
           /\ Elements(pending') \subseteq Elements(pending) \cup {i}
BY EnqueuedElements, ElementsOfAppend DEF InputType, Receive

LEMMA TravellingSplit ==
    /\ Travelling = reached \cup Elements(queue) \cup Elements(pending) \cup backfill.page
                     \cup Carried(downlink)
    /\ Travelling' = reached' \cup Elements(queue') \cup Elements(pending')
                      \cup backfill'.page \cup Carried(downlink')
BY DEF Travelling, Carried

LEMMA EmptyRuns == NoRun.page = {} /\ \A n : Asking(n).page = {}
BY DEF Asking, NoRun

LEMMA EveryStepTravels ==
    ASSUME TypeOK, [Next]_vars
    PROVE  Travelling' \subseteq Travelling \cup Ripe \cup Ripe'
<1> DEFINE Fit == Travelling' \subseteq Travelling \cup Ripe \cup Ripe'
<1>t. HubType /\ NetType /\ BackfillType /\ InputType
  BY DEF TypeOK
<1> USE TravellingSplit
<1>1. ASSUME NEW t \in Turn, PostTurn(t) PROVE Fit
  <2>1. PICK i \in Id :
          /\ \/ i \in Existing(rows, t) /\ rows' = rows
             \/ \E n \in Id : rows' = Inserted(rows, i, t, "user", n)
          /\ \/ downlink' = downlink
             \/ t \notin Scheduled \ due /\ EmitToRoom(Message(i))
    BY <1>1 DEF PostTurn
  <2>2. Carried(downlink') \subseteq Carried(downlink) \/ t \notin Scheduled \ due
    BY <2>1
  <2>3. Carried(downlink') \subseteq Carried(downlink) \cup {i}
    BY <1>t, <2>1, EmittedMessage
  <2>4. rows'[i].st # "unused" /\ rows'[i].local = t
    BY <1>t, <2>1 DEF Existing, Present, HubType, Inserted
  <2>5. due' = due
    BY <1>1 DEF PostTurn
  <2>6. Carried(downlink') \subseteq Carried(downlink) \cup Ripe'
    BY <2>2, <2>3, <2>4, <2>5 DEF Ripe, Future
  <2> QED BY <1>1, <2>6 DEF PostTurn, pastVars, bfVars, inVars
<1>2. ASSUME NEW t \in Turn, BecomeDue(t) PROVE Fit
  BY <1>2 DEF BecomeDue, netVars, bfVars, inVars, pastVars
<1>3. ASSUME NEW role \in {"user", "agent"}, CliPosts(role) PROVE Fit
  <2>1. PICK i \in Id : /\ \E n \in Id : rows' = Inserted(rows, i, NoTurn, role, n)
                        /\ reached' \subseteq reached \cup {i}
    BY <1>3 DEF CliPosts
  <2>2. rows'[i].st = "invoked" /\ rows'[i].local \notin Turn
    BY <1>t, <2>1 DEF HubType, Inserted
  <2>3. i \in Ripe'
    BY <2>2 DEF Ripe, Future
  <2> QED BY <1>3, <2>1, <2>3 DEF CliPosts, netVars, bfVars, inVars
<1>4. ASSUME NEW i \in Id, ReleaseMature(i) PROVE Fit
  <2>1. Carried(downlink') \subseteq Carried(downlink) \cup {i}
    BY <1>t, <1>4, EmittedMessage DEF ReleaseMature
  <2>2. i \in Ripe
    BY <1>t, <1>4 DEF ReleaseMature, Mature, Ripe, Future
  <2> QED BY <1>4, <2>1, <2>2 DEF ReleaseMature, bfVars, inVars, pastVars
<1>5. ASSUME NEW i \in Id, NEW r \in Request, RequestCancel(r, i) PROVE Fit
  <2>1. Carried(downlink') \subseteq Carried(downlink)
    BY <1>t, <1>5, EmittedCancel DEF RequestCancel
  <2> QED BY <1>5, <2>1 DEF RequestCancel, bfVars, inVars, pastVars
<1>6. ASSUME NEW r \in Request, CancelTimesOut(r) PROVE Fit
  BY <1>6 DEF CancelTimesOut, netVars, bfVars, inVars, pastVars
<1>7. CASE HubReceives
  BY <1>7 DEF HubReceives, bfVars, inVars, pastVars
<1>8. CASE HubServesBackfill
  <2>1. Page(rows, due, backfill.after) \subseteq Ripe
    BY DEF Page, DeliverableAfter, Present, Ripe
  <2>2. backfill'.page = Page(rows, due, backfill.after)
    BY <1>8, <1>t DEF HubServesBackfill, BackfillType, Run
  <2> QED BY <1>8, <2>1, <2>2 DEF HubServesBackfill, netVars, inVars, pastVars
<1>9. CASE ReceiveMessage
  <2> DEFINE p == Head(downlink)
  <2>1. /\ p \in Packet /\ p \in Elements(downlink)
        /\ Elements(downlink') \subseteq Elements(downlink)
    BY <1>t, <1>9, ElementsOfTail DEF ReceiveMessage, NetType
  <2>2. p.id \in Id /\ p = Message(p.id)
    BY <1>9, <2>1 DEF ReceiveMessage, Packet, Message
  <2>3. p.id \in Carried(downlink)
    BY <2>1, <2>2 DEF Carried
  <2>4. Carried(downlink') \subseteq Carried(downlink)
    BY <2>1 DEF Carried
  <2>5. /\ Elements(queue') \subseteq Elements(queue) \cup {p.id}
        /\ Elements(pending') \subseteq Elements(pending) \cup {p.id}
    BY <1>t, <1>9, <2>2, ReceivedElements DEF ReceiveMessage
  <2> QED BY <1>9, <2>3, <2>4, <2>5 DEF ReceiveMessage, bfVars, pastVars
<1>10. CASE ReceiveCancel
  <2>1. Elements(downlink') \subseteq Elements(downlink)
    BY <1>t, <1>10, ElementsOfTail DEF ReceiveCancel, NetType
  <2>2. Elements(queue') \subseteq Elements(queue)
    BY <1>t, <1>10, ElementsOfWithout DEF ReceiveCancel, Places, InputType
  <2>3. Carried(downlink') \subseteq Carried(downlink)
    BY <2>1 DEF Carried
  <2> QED BY <1>10, <2>2, <2>3 DEF ReceiveCancel, bfVars, pastVars
<1>11. CASE DrainPending
  <2>1. /\ Head(pending) \in Id /\ Head(pending) \in Elements(pending)
        /\ Elements(pending') \subseteq Elements(pending)
    BY <1>t, <1>11, ElementsOfTail DEF DrainPending, InputType
  <2>2. Elements(queue') \subseteq Elements(queue) \cup {Head(pending)}
    BY <1>t, <1>11, <2>1, EnqueuedElements DEF DrainPending, InputType
  <2> QED BY <1>11, <2>1, <2>2 DEF DrainPending, netVars, bfVars, pastVars
<1>12. CASE TakeTurn
  <2>1. Head(queue) \in Elements(queue) /\ Elements(queue') \subseteq Elements(queue)
    BY <1>t, <1>12, ElementsOfTail DEF TakeTurn, InputType
  <2> QED BY <1>12, <2>1 DEF TakeTurn, bfVars
<1>13. ASSUME NEW i \in Id, PageStep(i) PROVE Fit
  <2>1. /\ Elements(queue') \subseteq Elements(queue) \cup {i}
        /\ Elements(pending') \subseteq Elements(pending) \cup {i}
    BY <1>t, <1>13, ReceivedElements DEF PageStep
  <2>2. backfill'.page \subseteq backfill.page
    <3>1. CASE backfill.page # {i}
      BY <1>13, <1>t, <3>1 DEF PageStep, BackfillType, Run
    <3>2. CASE backfill.page = {i}
      BY <1>13, <3>2, EmptyRuns, Zenon DEF PageStep
    <3> QED BY <3>1, <3>2
  <2> QED BY <1>13, <2>1, <2>2 DEF PageStep, netVars, pastVars
<1>14. CASE BeginPage \/ BackfillFails \/ Connect
  <2>1. backfill'.page \subseteq backfill.page
    <3>1. CASE BeginPage
      BY <1>t, <3>1, EmptyRuns DEF BeginPage, BackfillType, Run
    <3>2. CASE BackfillFails
      BY <3>2, EmptyRuns DEF BackfillFails
    <3>3. CASE Connect
      BY <3>3, EmptyRuns, Zenon DEF Connect
    <3> QED BY <1>14, <3>1, <3>2, <3>3
  <2> QED BY <1>14, <2>1 DEF BeginPage, BackfillFails, Connect, netVars, inVars, pastVars
<1>15. Elements(<<>>) = {} /\ Carried(<<>>) = {}
  BY DEF Elements, Carried
<1>16. CASE Drop \/ HubRestart \/ CliRestart
  <2>1. backfill'.page \subseteq backfill.page
    BY <1>16, <1>t DEF Drop, HubRestart, CliRestart, BackfillType, NoRun, Run
  <2> QED BY <1>15, <1>16, <2>1 DEF Drop, HubRestart, CliRestart, inVars, pastVars
<1>17. CASE Register \/ CliNoticesDrop \/ HubNoticesDrop \/ UNCHANGED vars
  BY <1>17 DEF Register, CliNoticesDrop, HubNoticesDrop, vars, netVars, bfVars, inVars, pastVars
<1> QED
  BY <1>1, <1>2, <1>3, <1>4, <1>5, <1>6, <1>7, <1>8, <1>9, <1>10, <1>11, <1>12,
     <1>13, <1>14, <1>16, <1>17 DEF Next, CliStep

(***************************************************************************)
(* No row travels from the table to the agent before its time, whatever    *)
(* copies of it posts, ticks, backfills and restarts produce.              *)
(***************************************************************************)
THEOREM NothingTravelsEarly == Spec => []NoneTravelsEarly
<1> DEFINE Inv == TypeOK /\ QueuedAreTurns /\ NoneTravelsEarly
<1>1. Init => Inv
  <2>1. Init => NoneTravelsEarly
    BY DEF Init, NoneTravelsEarly, Travelling, Elements, NoRun
  <2> QED BY <2>1, InitType, InitQueuedAreTurns
<1>2. Inv /\ [Next]_vars => Inv'
  BY NextType, QueuedAreTurnsStep, RipeStays, EveryStepTravels DEF NoneTravelsEarly
<1> QED BY <1>1, <1>2, PTL DEF Spec

(* A turn scheduled for later is in no queue and reaches no agent early. *)
THEOREM NoTurnHandedEarly == Spec => []NoEarlyHandOff
<1>1. NoneTravelsEarly => NoEarlyHandOff
  BY DEF NoneTravelsEarly, Travelling, Ripe, NoEarlyHandOff
<1> QED BY <1>1, NothingTravelsEarly, PTL

-----------------------------------------------------------------------------
(***************************************************************************)
(* TurnsRunOnce, for a filter that holds every row there can be.  The      *)
(* filter is what stops the second copy of a row, so the invariant says    *)
(* that whatever is in line or was handed over has passed it (ReadFirst)   *)
(* and is in one place only (OnePlace).  Rows that the CLI wrote itself    *)
(* did not pass it: both speak of the rows of web turns.                   *)
(***************************************************************************)

TurnRows == {i \in Id : rows[i].local \in Turn}
InLine == Elements(pending) \cup Elements(queue)

\* q holds a member of S once at most.
Once(q, S) == \A j, k \in DOMAIN q : q[j] = q[k] /\ q[j] \in S => j = k

OnePlace ==
    /\ Once(queue, TurnRows) /\ Once(pending, TurnRows)
    /\ TurnRows \cap Elements(pending) \cap Elements(queue) = {}
    /\ TurnRows \cap handed \cap InLine = {}
ReadFirst == TurnRows \cap (handed \cup InLine) \subseteq Elements(seen)

LEMMA ElementsAppended ==
    ASSUME NEW S, NEW s \in Seq(S), NEW x \in S
    PROVE  Elements(Append(s, x)) = Elements(s) \cup {x}
<1>1. Elements(s) \subseteq Elements(Append(s, x))
  BY DEF Elements
<1>2. x \in Elements(Append(s, x))
  <2>1. Append(s, x)[Len(s) + 1] = x /\ Len(s) + 1 \in DOMAIN Append(s, x)
    OBVIOUS
  <2> QED BY <2>1 DEF Elements
<1> QED BY <1>1, <1>2, ElementsOfAppend

LEMMA ElementsSingle == \A x : Elements(<<x>>) = {x}
BY DEF Elements

\* A duplicate moves to the end and nothing is forgotten.
LEMMA ElementsRefreshed ==
    ASSUME NEW S, NEW s \in Seq(S), NEW x \in Elements(s)
    PROVE  Elements(Refreshed(s, x)) = Elements(s)
<1> DEFINE at == CHOOSE k \in DOMAIN s : s[k] = x
           n == Len(s)
<1>1. n \in Nat /\ DOMAIN s = 1..n
  OBVIOUS
<1>2. at \in 1..n /\ s[at] = x
  BY <1>1 DEF Elements
<1> HIDE DEF at
<1>3. Refreshed(s, x) = [k \in 1..n |-> IF k < at THEN s[k] ELSE IF k < n THEN s[k + 1] ELSE x]
  BY <1>1 DEF Refreshed, at
<1> HIDE DEF n
<1>4. DOMAIN Refreshed(s, x) = 1..n
  BY <1>3
<1>5. ASSUME NEW k \in 1..n
      PROVE  Refreshed(s, x)[k] \in Elements(s)
  <2>1. \A j \in 1..n : s[j] \in Elements(s)
    BY <1>1 DEF Elements
  <2>2. Refreshed(s, x)[k] \in {s[k], x} \/ (k + 1 \in 1..n /\ Refreshed(s, x)[k] = s[k + 1])
    BY <1>1, <1>3
  <2> QED BY <2>1, <2>2
<1>6. ASSUME NEW k \in 1..n
      PROVE  s[k] \in Elements(Refreshed(s, x))
  <2>1. CASE k < at
    BY <1>3, <1>4, <2>1 DEF Elements
  <2>2. CASE k > at
    <3>1. k - 1 \in 1..n /\ ~(k - 1 < at) /\ k - 1 < n /\ (k - 1) + 1 = k
      BY <1>1, <1>2, <2>2
    <3>2. Refreshed(s, x)[k - 1] = s[k]
      BY <1>3, <3>1
    <3> QED BY <1>4, <3>1, <3>2 DEF Elements
  <2>3. CASE k = at
    <3>1. n \in 1..n /\ ~(n < at)
      BY <1>1, <1>2
    <3>2. Refreshed(s, x)[n] = x
      BY <1>3, <3>1
    <3> QED BY <1>2, <1>4, <2>3, <3>1, <3>2 DEF Elements
  <2> QED BY <1>1, <1>2, <2>1, <2>2, <2>3
<1> QED BY <1>1, <1>4, <1>5, <1>6 DEF Elements

LEMMA SeenAtMost ==
    ASSUME NEW S, NEW s \in Seq(S), NEW x \in S
    PROVE  Elements(SeenAfter(s, x)) \subseteq Elements(s) \cup {x}
<1>1. Append(s, x) \in Seq(S) /\ Append(s, x) # <<>>
  OBVIOUS
<1>2. Elements(Tail(Append(s, x))) \subseteq Elements(s) \cup {x}
  <2> DEFINE longer == Append(s, x)
  <2>1. longer \in Seq(S) /\ longer # <<>> /\ Elements(longer) = Elements(s) \cup {x}
    BY <1>1, ElementsAppended
  <2> HIDE DEF longer
  <2>2. Elements(Tail(longer)) \subseteq Elements(longer)
    BY <2>1, ElementsOfTail
  <2> QED BY <2>1, <2>2 DEF longer
<1> QED BY <1>2, ElementsAppended, ElementsRefreshed DEF SeenAfter, Accepts, Remembered

\* A filter with room for every id forgets none.
LEMMA SeenAll ==
    ASSUME MaxRows <= FilterCapacity, NEW s \in Seq(Id), NEW x \in Id
    PROVE  Elements(SeenAfter(s, x)) = Elements(s) \cup {x}
<1>1. Elements(s) \cup {x} \subseteq 1..MaxRows
  BY DEF Elements, Id
<1>2. IsFiniteSet(1..MaxRows) /\ Cardinality(1..MaxRows) = MaxRows
  <2>1. 1 \in Int /\ MaxRows \in Int /\ (1 > MaxRows => MaxRows = 0) /\ (MaxRows - 1) + 1 = MaxRows
    OBVIOUS
  <2> QED BY <2>1, FS_Interval
<1>3. Cardinality(Elements(s) \cup {x}) <= MaxRows /\ Cardinality(Elements(s) \cup {x}) \in Nat
  BY <1>1, <1>2, FS_Subset, FS_CardinalityType
<1>4. ~(Cardinality(Elements(s) \cup {x}) > FilterCapacity)
  BY <1>3
<1> QED BY <1>4, ElementsAppended, ElementsRefreshed DEF SeenAfter, Accepts, Remembered

LEMMA OnceAppended ==
    ASSUME NEW S, NEW s \in Seq(S), NEW x \in S, NEW T, Once(s, T), x \in T => x \notin Elements(s)
    PROVE  Once(Append(s, x), T)
<1> SUFFICES ASSUME NEW j \in 1..(Len(s) + 1), NEW k \in 1..(Len(s) + 1),
                    Append(s, x)[j] = Append(s, x)[k], Append(s, x)[j] \in T
             PROVE  j = k
  BY DEF Once
<1>1. \A m \in 1..Len(s) : Append(s, x)[m] = s[m]
  OBVIOUS
<1>2. Append(s, x)[Len(s) + 1] = x
  OBVIOUS
<1>3. DOMAIN s = 1..Len(s) /\ Len(s) \in Nat
  OBVIOUS
<1>4. \A m \in 1..(Len(s) + 1) : m \in 1..Len(s) \/ m = Len(s) + 1
  BY <1>3
<1> QED BY <1>1, <1>2, <1>3, <1>4 DEF Once, Elements

LEMMA OnceEnqueued ==
    ASSUME NEW q \in Seq(Id), NEW i \in Id, NEW T, Once(q, T), i \in T => i \notin Elements(q)
    PROVE  Once(Enqueued(q, i), T)
<1>1. Once(<<i>>, T)
  BY DEF Once
<1> QED BY <1>1, OnceAppended DEF Enqueued

LEMMA OnceTail ==
    ASSUME NEW S, NEW s \in Seq(S), s # <<>>, NEW T, Once(s, T)
    PROVE  /\ Once(Tail(s), T)
           /\ Head(s) \in T => Head(s) \notin Elements(Tail(s))
<1>1. Len(s) \in Nat \ {0} /\ DOMAIN s = 1..Len(s) /\ DOMAIN Tail(s) = 1..(Len(s) - 1)
  OBVIOUS
<1>2. \A m \in 1..(Len(s) - 1) : Tail(s)[m] = s[m + 1] /\ m + 1 \in 1..Len(s) /\ m + 1 # 1
  BY <1>1
<1>3. Head(s) = s[1] /\ 1 \in 1..Len(s)
  BY <1>1
<1>4. Once(Tail(s), T)
  <2> SUFFICES ASSUME NEW j \in 1..(Len(s) - 1), NEW k \in 1..(Len(s) - 1),
                      Tail(s)[j] = Tail(s)[k], Tail(s)[j] \in T
               PROVE  j = k
    BY <1>1 DEF Once
  <2>1. j + 1 = k + 1
    BY <1>1, <1>2 DEF Once
  <2> QED BY <2>1
<1>5. ASSUME Head(s) \in T PROVE Head(s) \notin Elements(Tail(s))
  BY <1>1, <1>2, <1>3, <1>5 DEF Once, Elements
<1> QED BY <1>4, <1>5

LEMMA OnceWithout ==
    ASSUME NEW S, NEW q \in Seq(S), NEW k \in DOMAIN q, NEW T, Once(q, T)
    PROVE  Once(Without(q, k), T)
<1>1. Len(q) \in Nat /\ k \in 1..Len(q) /\ DOMAIN q = 1..Len(q)
  OBVIOUS
<1>2. DOMAIN Without(q, k) = 1..(Len(q) - 1)
  BY <1>1 DEF Without
<1> SUFFICES ASSUME NEW m \in 1..(Len(q) - 1), NEW n \in 1..(Len(q) - 1),
                    Without(q, k)[m] = Without(q, k)[n], Without(q, k)[m] \in T
             PROVE  m = n
  BY <1>2 DEF Once
<1> DEFINE old(j) == IF j < k THEN j ELSE j + 1
<1>3. \A j \in 1..(Len(q) - 1) : Without(q, k)[j] = q[old(j)] /\ old(j) \in 1..Len(q)
  BY <1>1 DEF Without
<1>4. old(m) = old(n)
  BY <1>1, <1>3 DEF Once
<1> QED BY <1>1, <1>4

-----------------------------------------------------------------------------
\* What a step can do to the rows in line and those handed over.
InputKept == UNCHANGED <<seen, pending, queue, handed, reached>>
InputTypes == \E i \in Id : /\ rows[i].st = "unused" /\ rows'[i].local = NoTurn
                            /\ handed' \in {handed, handed \cup {i}}
                            /\ reached' = reached \cup handed'
                            /\ UNCHANGED <<seen, pending, queue>>
InputReceives == \E i \in Ripe : /\ i \in Carried(downlink) \cup backfill.page
                                /\ Receive(i) /\ UNCHANGED <<rows, handed, reached>>
InputCleared == /\ CliRestart
                /\ seen' = <<>> /\ pending' = <<>> /\ queue' = <<>> /\ handed' = {}
                /\ UNCHANGED <<reached, rows>>

LEMMA EveryStepOnInput ==
    ASSUME TypeOK, NoneTravelsEarly, handed \subseteq reached, [Next]_vars
    PROVE  \/ InputKept \/ InputTypes \/ InputReceives \/ InputCleared
           \/ (DrainPending \/ TakeTurn \/ ReceiveCancel) /\ UNCHANGED rows
<1>t. HubType /\ NetType /\ BackfillType /\ InputType
  BY DEF TypeOK
<1>1. ASSUME NEW role \in {"user", "agent"}, CliPosts(role)
      PROVE  InputTypes
  <2>1. PICK i \in Id :
          /\ rows[i].st = "unused" /\ \E n \in Id : rows' = Inserted(rows, i, NoTurn, role, n)
          /\ handed' = handed \cup (IF role = "user" THEN {i} ELSE {})
          /\ reached' = reached \cup (IF role = "user" THEN {i} ELSE {})
    BY <1>1 DEF CliPosts, IsFresh
  <2>2. rows'[i].local = NoTurn
    BY <1>t, <2>1 DEF HubType, Inserted
  <2> QED BY <1>1, <2>1, <2>2 DEF CliPosts, InputTypes, inVars
<1>2. CASE ReceiveMessage
  <2> DEFINE p == Head(downlink)
  <2>1. p \in Packet /\ p \in Elements(downlink)
    BY <1>t, <1>2, ElementsOfTail DEF ReceiveMessage, NetType
  <2>2. p.id \in Id /\ p = Message(p.id)
    BY <1>2, <2>1 DEF ReceiveMessage, Packet, Message
  <2>3. p.id \in Ripe /\ p.id \in Carried(downlink)
    BY <2>1, <2>2 DEF NoneTravelsEarly, Travelling, Carried
  <2> QED BY <1>2, <2>2, <2>3 DEF ReceiveMessage, InputReceives, hubVars, pastVars
<1>3. CASE ReceiveCancel
  BY <1>3 DEF ReceiveCancel, hubVars
<1>4. ASSUME NEW i \in Id, PageStep(i)
      PROVE  InputReceives
  <2>1. i \in Ripe /\ i \in backfill.page
    BY <1>4 DEF PageStep, NoneTravelsEarly, Travelling
  <2> QED BY <1>4, <2>1 DEF PageStep, InputReceives, hubVars, pastVars
<1>5. CASE DrainPending \/ TakeTurn
  BY <1>5 DEF DrainPending, TakeTurn, hubVars
<1>6. CASE CliRestart
  BY <1>6 DEF CliRestart, InputCleared, hubVars
<1>7. ASSUME NEW t \in Turn, PostTurn(t) \/ BecomeDue(t) PROVE InputKept
  BY <1>7 DEF PostTurn, BecomeDue, InputKept, inVars, pastVars
<1>8. ASSUME NEW i \in Id, ReleaseMature(i) \/ \E r \in Request : RequestCancel(r, i) PROVE InputKept
  BY <1>8 DEF ReleaseMature, RequestCancel, InputKept, inVars, pastVars
<1>9. ASSUME NEW r \in Request, CancelTimesOut(r) PROVE InputKept
  BY <1>9 DEF CancelTimesOut, InputKept, inVars, pastVars
<1>10. CASE HubReceives \/ HubServesBackfill \/ Register \/ BeginPage \/ Connect \/ CliNoticesDrop
  BY <1>10 DEF HubReceives, HubServesBackfill, Register, BeginPage, Connect, CliNoticesDrop,
               InputKept, inVars, pastVars
<1>11. CASE BackfillFails \/ Drop \/ HubNoticesDrop \/ HubRestart \/ UNCHANGED vars
  BY <1>11 DEF BackfillFails, Drop, HubNoticesDrop, HubRestart, InputKept, inVars, pastVars, vars
<1> QED
  BY <1>1, <1>2, <1>3, <1>4, <1>5, <1>6, <1>7, <1>8, <1>9, <1>10, <1>11 DEF Next, CliStep

\* A row on its way has been inserted, so its localId is settled.
LEMMA TurnRowsStay ==
    ASSUME TypeOK, QueuedAreTurns, NoneTravelsEarly, [Next]_vars
    PROVE  \A i \in Travelling : i \in TurnRows' <=> i \in TurnRows
<1>1. \A i \in Travelling : i \in Id /\ rows[i].st # "unused"
  BY DEF NoneTravelsEarly, Ripe
<1> QED BY <1>1, EveryStepOnTable, TableAges DEF TurnRows

OnceInv == /\ TypeOK /\ QueuedAreTurns /\ NoneTravelsEarly
           /\ handed \subseteq reached /\ OnePlace /\ ReadFirst

LEMMA ReceiveOnce ==
    ASSUME MaxRows <= FilterCapacity, OnceInv, InputReceives
    PROVE  OnePlace' /\ ReadFirst'
<1>1. PICK i \in Id : Receive(i) /\ UNCHANGED <<rows, handed, reached>>
  BY DEF InputReceives, Ripe
<1>2. queue \in Seq(Id) /\ pending \in Seq(Id) /\ seen \in Seq(Id)
  BY DEF OnceInv, TypeOK, InputType
<1>3. Elements(seen') = Elements(seen) \cup {i} /\ TurnRows' = TurnRows
  BY <1>1, <1>2, SeenAll DEF Receive, TurnRows
<1>4. CASE UNCHANGED <<queue, pending>>
  BY <1>1, <1>3, <1>4 DEF OnceInv, OnePlace, ReadFirst, InLine
<1>5. ASSUME i \notin Elements(seen),
             \/ queue' = Enqueued(queue, i) /\ pending' = pending
             \/ pending' = Append(pending, i) /\ queue' = queue
      PROVE  OnePlace' /\ ReadFirst'
  <2>1. i \in TurnRows => i \notin handed \cup InLine
    BY <1>5 DEF OnceInv, ReadFirst
  <2>2. Once(queue', TurnRows) /\ Once(pending', TurnRows)
    <3>1. Once(queue, TurnRows) /\ Once(pending, TurnRows)
      BY DEF OnceInv, OnePlace
    <3>2. i \in TurnRows => i \notin Elements(queue) /\ i \notin Elements(pending)
      BY <2>1 DEF InLine
    <3>3. Once(Enqueued(queue, i), TurnRows)
      BY <1>2, <3>1, <3>2, OnceEnqueued
    <3>4. Once(Append(pending, i), TurnRows)
      BY <1>2, <3>1, <3>2, OnceAppended
    <3> QED BY <1>5, <3>1, <3>3, <3>4
  <2>3. \/ Elements(queue') \subseteq Elements(queue) \cup {i} /\ pending' = pending
        \/ Elements(pending') \subseteq Elements(pending) \cup {i} /\ queue' = queue
    BY <1>2, <1>5, EnqueuedElements, ElementsOfAppend
  <2> QED BY <1>1, <1>3, <2>1, <2>2, <2>3 DEF OnceInv, OnePlace, ReadFirst, InLine
<1> QED BY <1>1, <1>4, <1>5 DEF Receive, Accepts

LEMMA OneLeavesOnce ==
    ASSUME OnceInv, ReceiveCancel
    PROVE  OnePlace' /\ ReadFirst'
<1>1. UNCHANGED <<seen, pending, handed>> /\ TurnRows' = TurnRows
  BY DEF ReceiveCancel, hubVars, pastVars, TurnRows
<1>2. Once(queue', TurnRows) /\ Elements(queue') \subseteq Elements(queue)
  <2>1. queue' = queue \/ \E k \in DOMAIN queue : queue' = Without(queue, k)
    BY DEF ReceiveCancel, Places
  <2>2. queue \in Seq(Id) /\ Once(queue, TurnRows)
    BY DEF OnceInv, OnePlace, TypeOK, InputType
  <2> QED BY <2>1, <2>2, OnceWithout, ElementsOfWithout
<1> QED BY <1>1, <1>2 DEF OnceInv, OnePlace, ReadFirst, InLine

LEMMA DrainOnce ==
    ASSUME OnceInv, DrainPending
    PROVE  OnePlace' /\ ReadFirst'
<1> DEFINE i == Head(pending)
<1>1. queue \in Seq(Id) /\ pending \in Seq(Id) /\ pending # <<>>
  BY DEF OnceInv, TypeOK, InputType, DrainPending
<1>2. /\ i \in Id /\ i \in Elements(pending) /\ Elements(pending') \subseteq Elements(pending)
      /\ Once(pending', TurnRows) /\ (i \in TurnRows => i \notin Elements(pending'))
  BY <1>1, ElementsOfTail, OnceTail DEF OnceInv, OnePlace, DrainPending
<1>3. /\ Once(queue', TurnRows) /\ Elements(queue') \subseteq Elements(queue) \cup {i}
  BY <1>1, <1>2, OnceEnqueued, EnqueuedElements DEF OnceInv, OnePlace, DrainPending
<1>4. UNCHANGED <<seen, handed>> /\ TurnRows' = TurnRows
  BY DEF DrainPending, hubVars, pastVars, TurnRows
<1> HIDE DEF i
<1> QED BY <1>2, <1>3, <1>4 DEF OnceInv, OnePlace, ReadFirst, InLine

LEMMA TakeOnce ==
    ASSUME OnceInv, TakeTurn
    PROVE  OnePlace' /\ ReadFirst'
<1> DEFINE i == Head(queue)
<1>1. queue \in Seq(Id) /\ queue # <<>>
  BY DEF OnceInv, TypeOK, InputType, TakeTurn
<1>2. /\ i \in Elements(queue) /\ Elements(queue') \subseteq Elements(queue)
      /\ Once(queue', TurnRows) /\ (i \in TurnRows => i \notin Elements(queue'))
  BY <1>1, ElementsOfTail, OnceTail DEF OnceInv, OnePlace, TakeTurn
<1>3. UNCHANGED <<seen, pending>> /\ handed' = handed \cup {i} /\ TurnRows' = TurnRows
  BY DEF TakeTurn, hubVars, TurnRows
<1> HIDE DEF i
<1> QED BY <1>2, <1>3 DEF OnceInv, OnePlace, ReadFirst, InLine

LEMMA OnceStep ==
    ASSUME MaxRows <= FilterCapacity, OnceInv, [Next]_vars
    PROVE  OnceInv'
<1>1. TypeOK' /\ QueuedAreTurns' /\ NoneTravelsEarly'
  BY NextType, QueuedAreTurnsStep, RipeStays, EveryStepTravels DEF OnceInv, NoneTravelsEarly
<1>2. \/ InputKept \/ InputTypes \/ InputReceives \/ InputCleared
      \/ (DrainPending \/ TakeTurn \/ ReceiveCancel) /\ UNCHANGED rows
  BY EveryStepOnInput DEF OnceInv
<1>3. \A i \in handed \cup InLine : i \in TurnRows' <=> i \in TurnRows
  BY TurnRowsStay DEF OnceInv, Travelling, InLine
<1>4. CASE InputKept
  <2>1. UNCHANGED <<seen, pending, queue, handed>> /\ InLine' = InLine
    BY <1>4 DEF InputKept, InLine
  <2>2. \A i \in Elements(queue) \cup Elements(pending) : i \in TurnRows' <=> i \in TurnRows
    BY <1>3 DEF InLine
  <2>3. Once(queue, TurnRows') /\ Once(pending, TurnRows')
    BY <2>2 DEF OnceInv, OnePlace, Once, Elements
  <2> QED BY <1>3, <2>1, <2>3, <1>1, <1>4 DEF OnceInv, OnePlace, ReadFirst, InputKept, InLine
<1>5. CASE InputTypes
  <2>1. PICK i \in Id : /\ rows'[i].local = NoTurn
                        /\ handed' \in {handed, handed \cup {i}}
                        /\ reached' = reached \cup handed'
                        /\ UNCHANGED <<seen, pending, queue>>
    BY <1>5 DEF InputTypes
  <2>2. i \notin TurnRows'
    BY <2>1 DEF TurnRows
  <2>3. \A k \in Elements(queue) \cup Elements(pending) : k \in TurnRows' <=> k \in TurnRows
    BY <1>3 DEF InLine
  <2>4. Once(queue, TurnRows') /\ Once(pending, TurnRows')
    BY <2>3 DEF OnceInv, OnePlace, Once, Elements
  <2>5. InLine' = InLine /\ handed' \subseteq handed \cup {i} /\ handed' \subseteq reached'
    BY <2>1 DEF InLine
  <2> QED BY <1>1, <1>3, <2>1, <2>2, <2>4, <2>5 DEF OnceInv, OnePlace, ReadFirst, InLine
<1>6. CASE InputReceives
  BY <1>1, <1>6, ReceiveOnce DEF InputReceives, OnceInv
<1>7. CASE ReceiveCancel
  BY <1>1, <1>7, OneLeavesOnce DEF ReceiveCancel, pastVars, OnceInv
<1>8. CASE InputCleared
  <2>1. Elements(<<>>) = {} /\ Once(<<>>, TurnRows')
    BY DEF Elements, Once
  <2> QED BY <1>1, <1>8, <2>1 DEF InputCleared, OnceInv, OnePlace, ReadFirst, InLine
<1>9. CASE DrainPending
  BY <1>1, <1>9, DrainOnce DEF DrainPending, pastVars, OnceInv
<1>10. CASE TakeTurn
  BY <1>1, <1>10, TakeOnce DEF TakeTurn, OnceInv
<1> QED BY <1>2, <1>4, <1>5, <1>6, <1>7, <1>8, <1>9, <1>10

LEMMA InitOnce == Init => OnceInv
<1> SUFFICES ASSUME Init PROVE OnceInv
  OBVIOUS
<1>1. NoneTravelsEarly
  BY DEF Init, NoneTravelsEarly, Travelling, Elements, NoRun
<1>2. OnePlace /\ ReadFirst
  BY DEF Init, OnePlace, ReadFirst, Once, InLine, Elements
<1> QED BY <1>1, <1>2, InitType, InitQueuedAreTurns DEF OnceInv, Init

\* A row in one place is counted once.
LEMMA OnePlaceOnce ==
    ASSUME TypeOK, OnePlace
    PROVE  TurnsRunOnce
<1> SUFFICES ASSUME NEW i \in TurnRows
             PROVE  RunsOnce(i)
  BY DEF TurnsRunOnce, TurnRows
<1> DEFINE line == pending \o queue
           places == {k \in DOMAIN line : line[k] = i}
           m == Len(pending)
           n == Len(queue)
<1>1. pending \in Seq(Id) /\ queue \in Seq(Id) /\ m \in Nat /\ n \in Nat
  BY DEF TypeOK, InputType
<1>2. /\ DOMAIN line = 1..(m + n)
      /\ \A k \in 1..(m + n) : line[k] = IF k <= m THEN pending[k] ELSE queue[k - m]
  BY <1>1
<1>3. DOMAIN pending = 1..m /\ DOMAIN queue = 1..n
  BY <1>1
<1>4. ASSUME NEW j \in places, NEW k \in places PROVE j = k
  <2>1. CASE j <= m /\ k <= m
    <3>1. j \in 1..m /\ k \in 1..m /\ pending[j] = i /\ pending[k] = i
      BY <1>1, <1>2, <2>1
    <3> QED BY <1>3, <3>1 DEF OnePlace, Once
  <2>2. CASE j > m /\ k > m
    <3>1. j - m \in 1..n /\ k - m \in 1..n /\ queue[j - m] = i /\ queue[k - m] = i
      BY <1>1, <1>2, <2>2
    <3>2. j - m = k - m
      BY <1>3, <3>1 DEF OnePlace, Once
    <3> QED BY <1>1, <1>2, <3>2
  <2>3. \A x, y \in places : ~(x <= m /\ y > m)
    <3> SUFFICES ASSUME NEW x \in places, NEW y \in places, x <= m, y > m
                 PROVE  FALSE
      OBVIOUS
    <3>1. x \in 1..m /\ pending[x] = i /\ y - m \in 1..n /\ queue[y - m] = i
      BY <1>1, <1>2
    <3> QED BY <1>3, <3>1 DEF OnePlace, Elements
  <2> QED BY <1>1, <1>2, <2>1, <2>2, <2>3
<1>5. places # {} => i \in InLine
  <2> SUFFICES ASSUME NEW x \in places
               PROVE  i \in InLine
    OBVIOUS
  <2>1. \/ x \in 1..m /\ pending[x] = i
        \/ x - m \in 1..n /\ queue[x - m] = i
    BY <1>1, <1>2
  <2> QED BY <1>3, <2>1 DEF InLine, Elements
<1>8. RunsOnce(i) <=> Cardinality(places) + (IF i \in handed THEN 1 ELSE 0) <= 1
  BY Zenon DEF RunsOnce
<1> HIDE DEF places
<1>6. CASE places = {}
  <2>1. Cardinality(places) = 0
    BY <1>6, FS_EmptySet
  <2> QED BY <1>8, <2>1
<1>7. CASE places # {}
  <2>1. PICK x : places = {x}
    BY <1>4, <1>7
  <2>2. Cardinality(places) = 1
    BY <2>1, FS_Singleton
  <2>3. i \notin handed
    BY <1>5, <1>7 DEF OnePlace
  <2> QED BY <1>8, <2>2, <2>3
<1> QED BY <1>6, <1>7

(***************************************************************************)
(* One process runs a turn at most once, whatever retried POSTs, repeated  *)
(* ticks and backfilled copies reach it, as long as the filter has room    *)
(* for the rows there are: run reconnect's property.                       *)
(***************************************************************************)
THEOREM RunOnceWithinFilter ==
    ASSUME MaxRows <= FilterCapacity
    PROVE  Spec => []TurnsRunOnce
<1>1. OnceInv /\ [Next]_vars => OnceInv'
  BY OnceStep
<1>2. OnceInv => TurnsRunOnce
  BY OnePlaceOnce DEF OnceInv
<1> QED BY <1>1, <1>2, InitOnce, PTL DEF Spec

-----------------------------------------------------------------------------
(***************************************************************************)
(* SentAnswersAreTrue, for sessions without /clear and /compact, which     *)
(* drop turns of the queue.  A row that was read and is nowhere any more   *)
(* was removed by a cancel (Accounted), and that cancel is Spent: it can   *)
(* never be answered "sent" again, because each cancel is asked once and   *)
(* answered once (AskedOnce), whatever transports are lost meanwhile.      *)
(***************************************************************************)

Asks == {Cancel(r) : r \in Request}
Asked(r) == Cancel(r) \in Elements(downlink)
Declined(r) == Ack(r, FALSE) \in Elements(uplink) \cup Elements(unsent)

AskedOnce ==
    /\ Once(downlink, Asks)
    /\ \A r \in Request :
         /\ Asked(r) => cancels[r].st \notin {"idle", "sent"} /\ ~Declined(r)
         /\ cancels[r].st = "idle" => ~Declined(r)
         /\ cancels[r].st # "idle" => cancels[r].id \in Id /\ rows[cancels[r].id].st # "unused"

Spent(r) == cancels[r].st \notin {"idle", "sent"} /\ ~Asked(r) /\ ~Declined(r)
About(r, i) == rows[cancels[r].id].local = rows[i].local

TurnsAreUsers == \A i \in TurnRows : rows[i].role = "user"

Accounted ==
    \A i \in Elements(seen) :
        /\ rows[i].st # "unused"
        /\ i \in TurnRows \ (reached \cup InLine) => \E r \in Request : Spent(r) /\ About(r, i)

CallInv == TypeOK /\ QueuedAreTurns /\ AskedOnce
SentInv == CallInv /\ NoneTravelsEarly /\ handed \subseteq reached /\ TurnsAreUsers /\ Accounted

-----------------------------------------------------------------------------
(* The calls. *)

NothingAsked == Once(downlink', Asks) /\ \A r \in Request : Asked(r)' => Asked(r)
NothingDeclined == \A r \in Request : Declined(r)' => Declined(r)

\* What becomes of a call in a step.
CallAges(r) ==
    /\ \/ cancels'[r].st = cancels[r].st
       \/ cancels[r].st = "asked" /\ cancels'[r].st \in {"cancelled", "unconfirmed"}
       \/ cancels[r].st = "asked" /\ cancels'[r].st = "sent" /\ Declined(r)
       \/ /\ cancels[r].st = "idle" /\ cancels'[r].st # "idle"
          /\ cancels'[r].id \in Id /\ rows[cancels'[r].id].st # "unused"
    /\ cancels[r].st # "idle" => cancels'[r].id = cancels[r].id
CallsAge == \A r \in Request : CallAges(r)

\* What never changes back.
CallStays(r) ==
    /\ Spent(r) => Spent(r)'
    /\ cancels[r].st # "idle" => cancels'[r].st # "idle" /\ cancels'[r].id = cancels[r].id

LEMMA MessagesAskNothing ==
    ASSUME NetType, AskedOnce, NEW j \in Id, EmitToRoom(Message(j)) \/ downlink' = downlink
    PROVE  NothingAsked
<1>1. Message(j) \in Packet /\ downlink \in Seq(Packet) /\ Message(j) \notin Asks
  BY DEF Message, Packet, Asks, Cancel, NetType
<1>2. Once(downlink, Asks)
  BY DEF AskedOnce
<1>3. Once(Append(downlink, Message(j)), Asks)
  BY <1>1, <1>2, OnceAppended
<1>4. Elements(Append(downlink, Message(j))) = Elements(downlink) \cup {Message(j)}
  BY <1>1, ElementsAppended
<1>5. \A r \in Request : Cancel(r) # Message(j)
  BY <1>1 DEF Asks
<1> QED BY <1>2, <1>3, <1>4, <1>5 DEF NothingAsked, Asked, EmitToRoom

LEMMA ReadingAsksNothing ==
    ASSUME NetType, AskedOnce, downlink # <<>>, downlink' = Tail(downlink)
    PROVE  NothingAsked
<1>1. downlink \in Seq(Packet) /\ Once(downlink, Asks)
  BY DEF NetType, AskedOnce
<1> QED BY <1>1, OnceTail, ElementsOfTail DEF NothingAsked, Asked

LEMMA ClosedAsksNothing ==
    ASSUME downlink' = <<>>
    PROVE  NothingAsked
BY DEF NothingAsked, Asked, Once, Elements

LEMMA NoElements == Elements(<<>>) = {}
BY DEF Elements

LEMMA EmittedReply ==
    ASSUME NetType, NEW p \in Reply, EmitToHub(p)
    PROVE  Elements(uplink') \cup Elements(unsent') \subseteq Elements(uplink) \cup Elements(unsent) \cup {p}
BY ElementsAppended DEF NetType, EmitToHub

LEMMA SettledCall ==
    ASSUME HubType, NEW r \in Request, NEW q \in Request, NEW result
    PROVE  /\ Settled(r, result)[q].st = IF q = r THEN result ELSE cancels[q].st
           /\ Settled(r, result)[q].id = cancels[q].id
BY DEF HubType, Settled, Call

\* A step that asks and declines nothing.
LEMMA QuietCalls ==
    ASSUME CallInv, [Next]_vars, NothingAsked, NothingDeclined, CallsAge
    PROVE  AskedOnce' /\ \A r \in Request : CallStays(r)
<1>1. \A i \in Id : rows[i].st # "unused" => rows'[i].st # "unused"
  BY EveryStepOnTable, TableAges DEF CallInv
<1>2. ASSUME NEW r \in Request
      PROVE  /\ Asked(r)' => cancels'[r].st \notin {"idle", "sent"} /\ ~Declined(r)'
             /\ cancels'[r].st = "idle" => ~Declined(r)'
             /\ cancels'[r].st # "idle" => cancels'[r].id \in Id /\ rows'[cancels'[r].id].st # "unused"
             /\ CallStays(r)
  <2> CallAges(r) /\ (Asked(r)' => Asked(r)) /\ (Declined(r)' => Declined(r))
    BY DEF CallsAge, NothingAsked, NothingDeclined
  <2> /\ Asked(r) => cancels[r].st \notin {"idle", "sent"} /\ ~Declined(r)
      /\ cancels[r].st = "idle" => ~Declined(r)
      /\ cancels[r].st # "idle" => cancels[r].id \in Id /\ rows[cancels[r].id].st # "unused"
    BY DEF CallInv, AskedOnce
  <2> HIDE DEF Asked, Declined
  <2>1. /\ Asked(r)' => cancels'[r].st \notin {"idle", "sent"} /\ ~Declined(r)'
        /\ cancels'[r].st = "idle" => ~Declined(r)'
    BY DEF CallAges
  <2>2. cancels'[r].st # "idle" => cancels'[r].id \in Id /\ rows'[cancels'[r].id].st # "unused"
    BY <1>1 DEF CallAges
  <2>3. CallStays(r)
    BY DEF CallAges, CallStays, Spent
  <2> QED BY <2>1, <2>2, <2>3
<1> QED BY <1>2 DEF AskedOnce, NothingAsked

LEMMA HubReceivesCalls ==
    ASSUME CallInv, HubReceives
    PROVE  CallsAge
<1>t. HubType /\ NetType
  BY DEF CallInv, TypeOK
<1>1. Head(uplink) \in Reply /\ Head(uplink) \in Elements(uplink)
  BY <1>t, ElementsOfTail DEF HubReceives, NetType
<1>2. CASE cancels' = cancels
  BY <1>2 DEF CallsAge, CallAges
<1>3. CASE Head(uplink).kind = "ack" /\ cancels[Head(uplink).req].st = "asked"
  <2> DEFINE r == Head(uplink).req
             b == Head(uplink).removed
  <2>1. r \in Request /\ b \in BOOLEAN /\ Head(uplink) = Ack(r, b)
    BY <1>1, <1>3 DEF Reply, Ack
  <2> SUFFICES ASSUME NEW q \in Request
               PROVE  CallAges(q)
    BY DEF CallsAge
  <2>2. CASE cancels[r].wide
    <3>1. \E g : cancels' = [cancels EXCEPT ![r].got = g]
      BY <1>3, <2>2, Zenon DEF HubReceives
    <3>2. cancels'[q].st = cancels[q].st /\ cancels'[q].id = cancels[q].id
      BY <1>t, <2>1, <3>1 DEF HubType, Call
    <3> QED BY <3>2 DEF CallAges
  <2>3. CASE ~cancels[r].wide
    <3>1. IF b THEN ConfirmRemoved(r) ELSE AssumeConsumed(r)
      BY <1>3, <2>3, Zenon DEF HubReceives
    <3>2. cancels' = Settled(r, "cancelled") \/ (cancels' = Settled(r, "sent") /\ ~b)
      BY <3>1 DEF ConfirmRemoved, AssumeConsumed
    <3>3. ~b => Declined(r)
      BY <1>1, <2>1 DEF Declined
    <3>4. cancels[r].st = "asked"
      BY <1>3
    <3> HIDE DEF r, b
    <3> QED BY <1>t, <2>1, <3>2, <3>3, <3>4, SettledCall DEF CallAges
  <2> QED BY <2>2, <2>3
<1> QED BY <1>1, <1>2, <1>3 DEF HubReceives, Reply

LEMMA RequestCancelCalls ==
    ASSUME CallInv, [Next]_vars, NEW r \in Request, NEW i \in Id, RequestCancel(r, i)
    PROVE  AskedOnce' /\ \A q \in Request : CallStays(q)
<1>t. HubType /\ NetType /\ cancels[r].st = "idle" /\ rows[i].st # "unused"
  BY DEF CallInv, TypeOK, RequestCancel
<1>1. NothingDeclined
  BY DEF RequestCancel, NothingDeclined, Declined
<1>2. CASE downlink' = downlink /\ \E result \in {"cancelled", "sent"} :
              cancels' = [Settled(r, result) EXCEPT ![r].id = i]
  <2>1. ASSUME NEW q \in Request PROVE CallAges(q)
    <3>1. PICK result \in {"cancelled", "sent"} : cancels' = [Settled(r, result) EXCEPT ![r].id = i]
      BY <1>2
    <3>2. /\ cancels'[q].st = IF q = r THEN result ELSE cancels[q].st
          /\ cancels'[q].id = IF q = r THEN i ELSE cancels[q].id
      BY <1>t, <3>1 DEF Settled, HubType, Call
    <3> QED BY <1>t, <3>2 DEF CallAges
  <2>2. NothingAsked
    BY <1>2 DEF NothingAsked, Asked, CallInv, AskedOnce
  <2> QED BY <1>1, <2>1, <2>2, QuietCalls DEF CallsAge
<1>3. CASE /\ cancels' = [cancels EXCEPT ![r] =
                [st |-> "asked", id |-> i, wide |-> stale, got |-> "none"]]
           /\ EmitToRoom(Cancel(r))
  <2>1. \A q \in Request : /\ cancels'[q].st = IF q = r THEN "asked" ELSE cancels[q].st
                           /\ cancels'[q].id = IF q = r THEN i ELSE cancels[q].id
    BY <1>t, <1>3 DEF HubType
  <2>2. Cancel(r) \in Packet /\ downlink \in Seq(Packet) /\ Cancel(r) \notin Elements(downlink)
    BY <1>t DEF Cancel, Packet, NetType, CallInv, AskedOnce, Asked
  <2>3. Once(Append(downlink, Cancel(r)), Asks) /\ Once(downlink, Asks)
    BY <2>2, OnceAppended DEF CallInv, AskedOnce
  <2>4. Elements(downlink') \subseteq Elements(downlink) \cup {Cancel(r)} /\ Once(downlink', Asks)
    BY <1>3, <2>2, <2>3, ElementsAppended DEF EmitToRoom
  <2>5. \A q \in Request : Asked(q)' => Asked(q) \/ q = r
    BY <2>4 DEF Asked, Cancel
  <2>6. \A k \in Id : rows[k].st # "unused" => rows'[k].st # "unused"
    BY EveryStepOnTable, TableAges DEF CallInv
  <2>7. \A q \in Request : CallStays(q)
    BY <1>1, <1>t, <2>1, <2>5 DEF Spent, CallStays, NothingDeclined
  <2> QED BY <1>1, <1>t, <2>1, <2>4, <2>5, <2>6, <2>7 DEF NothingDeclined, CallInv, AskedOnce
<1>4. \/ downlink' = downlink /\ \E result \in {"cancelled", "sent"} :
              cancels' = [Settled(r, result) EXCEPT ![r].id = i]
      \/ /\ cancels' = [cancels EXCEPT ![r] =
                [st |-> "asked", id |-> i, wide |-> stale, got |-> "none"]]
         /\ EmitToRoom(Cancel(r))
  BY Zenon DEF RequestCancel
<1> QED BY <1>2, <1>3, <1>4

\* The request that is answered is not asked any more, and was not before it.
LEMMA ReceiveCancelCalls ==
    ASSUME CallInv, ReceiveCancel
    PROVE  /\ AskedOnce' /\ \A q \in Request : CallStays(q)
           /\ \/ queue' = queue
              \/ \E r \in Request, k \in DOMAIN queue :
                    Spent(r)' /\ About(r, queue[k]) /\ queue' = Without(queue, k)
<1>t. NetType /\ HubType /\ InputType
  BY DEF CallInv, TypeOK
<1>1. PICK r \in Request : r = Head(downlink).req /\ Head(downlink) = Cancel(r)
  BY <1>t DEF ReceiveCancel, NetType, Packet, Cancel
<1>2. downlink \in Seq(Packet) /\ downlink # <<>> /\ downlink' = Tail(downlink)
  BY <1>t DEF ReceiveCancel, NetType
<1>3. Once(downlink, Asks) /\ Cancel(r) \in Asks
  BY <1>1 DEF CallInv, AskedOnce, Asks
<1>4. Once(downlink', Asks) /\ Cancel(r) \notin Elements(downlink')
  BY <1>1, <1>2, <1>3, OnceTail
<1>5. Elements(downlink') \subseteq Elements(downlink) /\ Asked(r)
  BY <1>1, <1>2, ElementsOfTail DEF Asked
<1>6. PICK b \in BOOLEAN : /\ EmitToHub(Ack(r, b))
                           /\ ~b => queue' = queue
                           /\ b => \E k \in Places(queue, rows[cancels[r].id].local) :
                                      queue' = Without(queue, k)
  BY <1>1 DEF ReceiveCancel
<1>7. cancels' = cancels /\ rows' = rows
  BY DEF ReceiveCancel, hubVars
<1>8. Ack(r, b) \in Reply
  BY <1>1, Zenon DEF Ack, Reply
<1>9. \A q \in Request : Declined(q)' => Declined(q) \/ (q = r /\ ~b)
  <2>1. Elements(uplink') \cup Elements(unsent') \subseteq
          Elements(uplink) \cup Elements(unsent) \cup {Ack(r, b)}
    BY <1>t, <1>6, <1>8, EmittedReply
  <2>2. \A q \in Request : Ack(q, FALSE) = Ack(r, b) => q = r /\ ~b
    BY <1>6 DEF Ack
  <2> QED BY <2>1, <2>2 DEF Declined
<1>10. cancels[r].st \notin {"idle", "sent"} /\ ~Declined(r)
  BY <1>1, <1>5 DEF CallInv, AskedOnce
<1>11. \A q \in Request : Asked(q)' => Asked(q) /\ q # r
  BY <1>4, <1>5 DEF Asked
<1>12. ASSUME NEW q \in Request PROVE CallStays(q)
  BY <1>5, <1>7, <1>9, <1>11, <1>12 DEF Spent, CallStays
<1>13. AskedOnce'
  BY <1>4, <1>7, <1>9, <1>10, <1>11 DEF CallInv, AskedOnce
<1>14. b => Spent(r)'
  BY <1>1, <1>7, <1>9, <1>10, <1>11 DEF Spent
<1>15. b => \E k \in DOMAIN queue : About(r, queue[k]) /\ queue' = Without(queue, k)
  BY <1>6 DEF Places, About
<1> QED BY <1>1, <1>6, <1>12, <1>13, <1>14, <1>15

LEMMA EveryStepOnCalls ==
    ASSUME CallInv, [Next]_vars
    PROVE  AskedOnce' /\ \A r \in Request : CallStays(r)
<1>t. HubType /\ NetType /\ AskedOnce
  BY DEF CallInv, TypeOK
<1>1. ASSUME NEW t \in Turn, PostTurn(t)
      PROVE  NothingAsked /\ NothingDeclined /\ CallsAge
  <2>1. \E i \in Id : EmitToRoom(Message(i)) \/ downlink' = downlink
    BY <1>1 DEF PostTurn
  <2> QED BY <1>1, <1>t, <2>1, MessagesAskNothing
          DEF PostTurn, NothingDeclined, Declined, CallsAge, CallAges
<1>2. ASSUME NEW i \in Id, ReleaseMature(i)
      PROVE  NothingAsked /\ NothingDeclined /\ CallsAge
  BY <1>2, <1>t, MessagesAskNothing
  DEF ReleaseMature, NothingDeclined, Declined, CallsAge, CallAges
<1>3. ASSUME NEW r \in Request, CancelTimesOut(r)
      PROVE  NothingAsked /\ NothingDeclined /\ CallsAge
  <2>1. cancels[r].st = "asked" /\ (cancels' = Settled(r, "cancelled") \/ cancels' = Settled(r, "unconfirmed"))
    BY <1>3 DEF CancelTimesOut, ConfirmRemoved
  <2>2. CallsAge
    BY <1>t, <2>1, SettledCall DEF CallsAge, CallAges
  <2> QED BY <1>3, <1>t, <2>2
          DEF CancelTimesOut, netVars, NothingAsked, AskedOnce, Asked, NothingDeclined, Declined
<1>4. CASE HubReceives
  <2>1. Elements(uplink') \subseteq Elements(uplink)
    BY <1>4, <1>t, ElementsOfTail DEF HubReceives, NetType
  <2>2. NothingAsked
    BY <1>4, <1>t DEF HubReceives, NothingAsked, AskedOnce, Asked
  <2> QED BY <1>4, <2>1, <2>2, HubReceivesCalls, QuietCalls DEF HubReceives, NothingDeclined, Declined
<1>5. CASE ReceiveMessage
  BY <1>5, <1>t, ReadingAsksNothing, QuietCalls
  DEF ReceiveMessage, NothingDeclined, Declined, CallsAge, CallAges, hubVars
<1>6. CASE TakeTurn
  <2>1. NothingDeclined
    <3>1. CASE rows[Head(queue)].local \in Turn
      <4> DEFINE p == Consumed(rows[Head(queue)].local)
      <4>1. p \in Reply /\ EmitToHub(p) /\ \A r \in Request : p # Ack(r, FALSE)
        BY <1>6, <3>1 DEF TakeTurn, Reply, Consumed, Ack
      <4> HIDE DEF p
      <4> QED BY <1>t, <4>1, EmittedReply DEF NothingDeclined, Declined
    <3>2. CASE rows[Head(queue)].local \notin Turn
      BY <1>6, <3>2 DEF TakeTurn, NothingDeclined, Declined
    <3> QED BY <3>1, <3>2
  <2> QED BY <1>6, <1>t, <2>1, QuietCalls
          DEF TakeTurn, hubVars, CallsAge, CallAges, NothingAsked, AskedOnce, Asked
<1>7. CASE Connect
  <2>1. NothingDeclined
    BY <1>7, NoElements DEF Connect, NothingDeclined, Declined
  <2>2. CallsAge /\ NothingAsked
    BY <1>7, <1>t DEF Connect, hubVars, CallsAge, CallAges, NothingAsked, AskedOnce, Asked
  <2> QED BY <2>1, <2>2, QuietCalls
<1>8. CASE Drop \/ CliRestart
  <2>1. NothingDeclined
    BY <1>8, NoElements DEF Drop, CliRestart, NothingDeclined, Declined
  <2>2. CallsAge /\ downlink' = <<>>
    BY <1>8 DEF Drop, CliRestart, hubVars, CallsAge, CallAges
  <2> QED BY <2>1, <2>2, QuietCalls, ClosedAsksNothing
<1>9. CASE HubRestart
  <2>1. CallsAge
    BY <1>9, <1>t DEF HubRestart, CallsAge, CallAges, HubType, Call
  <2>2. NothingDeclined /\ downlink' = <<>>
    BY <1>9, NoElements DEF HubRestart, NothingDeclined, Declined
  <2> QED BY <2>1, <2>2, QuietCalls, ClosedAsksNothing
<1>10. CASE UNCHANGED <<cancels, downlink, uplink, unsent>>
  BY <1>10, <1>t, QuietCalls
  DEF CallsAge, CallAges, NothingAsked, AskedOnce, Asked, NothingDeclined, Declined
<1>11. ASSUME NEW t \in Turn, BecomeDue(t) PROVE UNCHANGED <<cancels, downlink, uplink, unsent>>
  BY <1>11 DEF BecomeDue, netVars
<1>12. ASSUME NEW role \in {"user", "agent"}, CliPosts(role)
       PROVE  UNCHANGED <<cancels, downlink, uplink, unsent>>
  BY <1>12 DEF CliPosts, netVars
<1>13. CASE HubServesBackfill \/ Register \/ DrainPending \/ BeginPage \/ (\E i \in Id : PageStep(i))
            \/ CliNoticesDrop \/ BackfillFails \/ HubNoticesDrop \/ UNCHANGED vars
  BY <1>10, <1>13
  DEF HubServesBackfill, Register, DrainPending, BeginPage, PageStep, CliNoticesDrop,
      BackfillFails, HubNoticesDrop, vars, hubVars, netVars
<1> QED
  BY <1>1, <1>2, <1>3, <1>4, <1>5, <1>6, <1>7, <1>8, <1>9, <1>10, <1>11, <1>12, <1>13,
     QuietCalls, RequestCancelCalls, ReceiveCancelCalls DEF Next, CliStep

-----------------------------------------------------------------------------
(* The rows that were read. *)

LEMMA TurnsAreUsersStep ==
    ASSUME TypeOK, QueuedAreTurns, TurnsAreUsers, [Next]_vars
    PROVE  TurnsAreUsers'
<1>1. rows \in [Id -> Row] /\ TableStep
  BY EveryStepOnTable DEF TypeOK, HubType
<1>2. \A i \in Id : rows'[i].local \in Turn =>
         \/ rows[i].local \in Turn /\ rows'[i].role = rows[i].role
         \/ rows'[i].role = "user"
  BY <1>1 DEF TableStep, Inserted, MarkedInvoked, DeletedIfQueued, Row
<1> QED BY <1>2 DEF TurnsAreUsers, TurnRows

\* A row is still accounted for when it stays where it was; a spent cancel
\* stays so, and stays about the same turn.
LEMMA StaysAccounted ==
    ASSUME SentInv, [Next]_vars, NEW i \in Elements(seen),
           i \in reached \cup InLine => i \in reached' \cup InLine'
    PROVE  /\ rows'[i].st # "unused"
           /\ i \in TurnRows' \ (reached' \cup InLine')
                 => \E r \in Request : Spent(r)' /\ About(r, i)'
<1>1. i \in Id /\ rows[i].st # "unused"
  BY DEF SentInv, CallInv, Accounted, TypeOK, InputType, Elements
<1>2. TableStep /\ TypeOK
  BY EveryStepOnTable DEF SentInv, CallInv
<1>3. rows'[i].st # "unused" /\ rows'[i].local = rows[i].local
  BY <1>1, <1>2, TableAges
<1>4. i \in TurnRows' => i \in TurnRows
  BY <1>3 DEF TurnRows
<1>5. ASSUME NEW r \in Request, Spent(r), About(r, i)
      PROVE  Spent(r)' /\ About(r, i)'
  <2>1. Spent(r)' /\ cancels'[r].id = cancels[r].id
    BY <1>5, EveryStepOnCalls DEF CallStays, Spent, SentInv
  <2>2. cancels[r].id \in Id /\ rows[cancels[r].id].st # "unused"
    BY <1>5 DEF Spent, SentInv, CallInv, AskedOnce
  <2>3. rows'[cancels[r].id].local = rows[cancels[r].id].local
    BY <1>2, <2>2, TableAges
  <2> QED BY <1>3, <1>5, <2>1, <2>2, <2>3 DEF About
<1> QED BY <1>1, <1>3, <1>4, <1>5 DEF SentInv, CallInv, Accounted

LEMMA ReceiveAccounts ==
    ASSUME ClearTurn = {}, SentInv, [Next]_vars, InputReceives
    PROVE  Accounted'
<1>1. PICK j \in Id : Receive(j) /\ j \in Ripe /\ UNCHANGED <<rows, handed, reached>>
  BY DEF InputReceives, Ripe
<1>2. queue \in Seq(Id) /\ pending \in Seq(Id) /\ seen \in Seq(Id)
  BY DEF SentInv, CallInv, TypeOK, InputType
<1>3. Elements(seen') \subseteq Elements(seen) \cup {j}
  BY <1>1, <1>2, SeenAtMost DEF Receive
<1>4. /\ Elements(Append(queue, j)) = Elements(queue) \cup {j}
      /\ Elements(Append(pending, j)) = Elements(pending) \cup {j}
      /\ Enqueued(queue, j) = Append(queue, j)
  BY <1>2, ElementsAppended DEF Enqueued
<1>5. InLine \subseteq InLine'
  BY <1>1, <1>4 DEF Receive, InLine
<1>6. ASSUME j \notin Elements(seen), j \in TurnRows PROVE j \in InLine'
  <2>1. rows[j].role = "user"
    BY <1>6 DEF SentInv, CallInv, TurnsAreUsers
  <2> QED BY <1>1, <1>4, <1>6, <2>1 DEF Receive, Accepts, InLine
<1>7. rows'[j].st # "unused" /\ TurnRows' = TurnRows
  BY <1>1 DEF Ripe, TurnRows
<1>8. \A i \in Elements(seen) :
        /\ rows'[i].st # "unused"
        /\ i \in TurnRows' \ (reached' \cup InLine') => \E r \in Request : Spent(r)' /\ About(r, i)'
  BY <1>1, <1>5, StaysAccounted
<1> QED BY <1>3, <1>6, <1>7, <1>8 DEF Accounted

LEMMA ElementsHeadTail ==
    ASSUME NEW S, NEW s \in Seq(S), s # <<>>
    PROVE  Elements(s) = Elements(Tail(s)) \cup {Head(s)}
<1>1. Len(s) \in Nat \ {0} /\ DOMAIN s = 1..Len(s) /\ DOMAIN Tail(s) = 1..(Len(s) - 1)
  OBVIOUS
<1>2. ASSUME NEW k \in 1..Len(s) PROVE s[k] \in Elements(Tail(s)) \cup {Head(s)}
  <2>1. CASE k = 1
    BY <2>1
  <2>2. CASE k # 1
    <3>1. k - 1 \in 1..(Len(s) - 1) /\ Tail(s)[k - 1] = s[k]
      BY <1>1, <2>2
    <3> QED BY <1>1, <3>1 DEF Elements
  <2> QED BY <2>1, <2>2
<1> QED BY <1>1, <1>2, ElementsOfTail DEF Elements

LEMMA ElementsLeft ==
    ASSUME NEW S, NEW q \in Seq(S), NEW k \in DOMAIN q
    PROVE  Elements(q) \subseteq Elements(Without(q, k)) \cup {q[k]}
<1>1. Len(q) \in Nat /\ k \in 1..Len(q) /\ DOMAIN q = 1..Len(q)
  OBVIOUS
<1>2. /\ DOMAIN Without(q, k) = 1..(Len(q) - 1)
      /\ \A j \in 1..(Len(q) - 1) : Without(q, k)[j] = IF j < k THEN q[j] ELSE q[j + 1]
  BY <1>1 DEF Without
<1>3. ASSUME NEW j \in 1..Len(q), j # k PROVE q[j] \in Elements(Without(q, k))
  <2>1. CASE j < k
    <3>1. j \in 1..(Len(q) - 1)
      BY <1>1, <2>1
    <3> QED BY <1>2, <2>1, <3>1 DEF Elements
  <2>2. CASE j > k
    <3>1. j - 1 \in 1..(Len(q) - 1) /\ ~(j - 1 < k) /\ (j - 1) + 1 = j
      BY <1>1, <2>2
    <3>2. Without(q, k)[j - 1] = q[j]
      BY <1>2, <3>1
    <3> QED BY <1>2, <3>1, <3>2 DEF Elements
  <2> QED BY <1>1, <1>3, <2>1, <2>2
<1> QED BY <1>1, <1>3 DEF Elements

LEMMA AccountedStep ==
    ASSUME ClearTurn = {}, SentInv, [Next]_vars
    PROVE  Accounted'
<1>t. queue \in Seq(Id) /\ pending \in Seq(Id)
  BY DEF SentInv, CallInv, TypeOK, InputType
<1>1. \/ InputKept \/ InputTypes \/ InputReceives \/ InputCleared
      \/ (DrainPending \/ TakeTurn \/ ReceiveCancel) /\ UNCHANGED rows
  BY EveryStepOnInput DEF SentInv, CallInv
<1>2. ASSUME seen' = seen, reached \cup InLine \subseteq reached' \cup InLine'
      PROVE  Accounted'
  BY <1>2, StaysAccounted DEF Accounted
<1>3. CASE InputKept \/ InputTypes
  BY <1>2, <1>3 DEF InputKept, InputTypes, InLine
<1>4. CASE InputCleared
  BY <1>4 DEF InputCleared, Accounted, Elements
<1>5. CASE DrainPending
  <2>1. /\ pending # <<>> /\ pending' = Tail(pending) /\ seen' = seen /\ reached' = reached
        /\ queue' = Append(queue, Head(pending))
    BY <1>5 DEF DrainPending, Enqueued, pastVars
  <2>2. Head(pending) \in Id
    BY <1>t, <2>1
  <2>3. Elements(pending) = Elements(pending') \cup {Head(pending)}
    BY <1>t, <2>1, ElementsHeadTail
  <2>4. Elements(queue') = Elements(queue) \cup {Head(pending)}
    BY <1>t, <2>1, <2>2, ElementsAppended
  <2> QED BY <1>2, <2>1, <2>3, <2>4 DEF InLine
<1>6. CASE TakeTurn
  <2>1. /\ queue # <<>> /\ queue' = Tail(queue) /\ seen' = seen /\ pending' = pending
        /\ reached' = reached \cup {Head(queue)}
    BY <1>6 DEF TakeTurn
  <2>2. Elements(queue) = Elements(queue') \cup {Head(queue)}
    BY <1>t, <2>1, ElementsHeadTail
  <2> QED BY <1>2, <2>1, <2>2 DEF InLine
<1>7. CASE ReceiveCancel
  <2>1. seen' = seen /\ pending' = pending /\ reached' = reached /\ rows' = rows /\ cancels' = cancels
    BY <1>7 DEF ReceiveCancel, pastVars, hubVars
  <2>2. CASE queue' = queue
    BY <1>2, <2>1, <2>2 DEF InLine
  <2>3. ASSUME NEW r \in Request, NEW k \in DOMAIN queue,
               Spent(r)', About(r, queue[k]), queue' = Without(queue, k)
        PROVE  Accounted'
    <3>1. Elements(queue) \subseteq Elements(queue') \cup {queue[k]}
      BY <1>t, <2>3, ElementsLeft
    <3>2. \A i \in Elements(seen) : i = queue[k] \/ (i \in reached \cup InLine => i \in reached' \cup InLine')
      BY <2>1, <3>1 DEF InLine
    <3>3. \A i \in Elements(seen) : rows'[i].st # "unused"
      BY <2>1 DEF SentInv, CallInv, Accounted
    <3>4. \A i \in Elements(seen) : i = queue[k] => About(r, i)'
      BY <2>1, <2>3 DEF About
    <3> QED BY <2>1, <2>3, <3>2, <3>3, <3>4, StaysAccounted DEF Accounted
  <2> QED BY <1>7, <2>2, <2>3, ReceiveCancelCalls DEF SentInv
<1> QED BY <1>1, <1>3, <1>4, <1>5, <1>6, <1>7, ReceiveAccounts

LEMMA InitSent == Init => SentInv
<1> SUFFICES ASSUME Init PROVE SentInv
  OBVIOUS
<1>1. NoneTravelsEarly
  BY DEF Init, NoneTravelsEarly, Travelling, Elements, NoRun
<1>2. AskedOnce
  BY DEF Init, AskedOnce, Once, Asked, Declined, Elements, NoCall
<1>3. TurnsAreUsers /\ Accounted
  BY DEF Init, TurnsAreUsers, TurnRows, EmptyTable, Accounted, Elements
<1> QED BY <1>1, <1>2, <1>3, InitType, InitQueuedAreTurns DEF SentInv, CallInv, Init

LEMMA SentStep ==
    ASSUME ClearTurn = {}, SentInv, [Next]_vars
    PROVE  SentInv'
<1>1. TypeOK' /\ QueuedAreTurns' /\ NoneTravelsEarly'
  BY NextType, QueuedAreTurnsStep, RipeStays, EveryStepTravels DEF SentInv, CallInv, NoneTravelsEarly
<1>2. handed' \subseteq reached'
  <2>1. \/ InputKept \/ InputTypes \/ InputReceives \/ InputCleared
        \/ (DrainPending \/ TakeTurn \/ ReceiveCancel) /\ UNCHANGED rows
    BY EveryStepOnInput DEF SentInv, CallInv
  <2> QED BY <2>1 DEF SentInv, CallInv, InputKept, InputTypes, InputReceives, InputCleared,
                  DrainPending, TakeTurn, ReceiveCancel, pastVars
<1> QED BY <1>1, <1>2, AccountedStep, EveryStepOnCalls, TurnsAreUsersStep DEF SentInv, CallInv

(***************************************************************************)
(* A turn that was read, and of which the hub told every canceller that it *)
(* had been sent, did reach an agent or sits where it will, whatever is    *)
(* lost, repeated or restarted, as long as no turn empties the queue: run  *)
(* cancel's property.                                                      *)
(***************************************************************************)
THEOREM AnswersAreTrue ==
    ASSUME ClearTurn = {}
    PROVE  Spec => []SentAnswersAreTrue
<1>1. SentInv /\ [Next]_vars => SentInv'
  BY SentStep
<1>2. SentInv => SentAnswersAreTrue
  BY DEF SentInv, CallInv, Accounted, SentAnswersAreTrue, InvokedTurnArrives, OnItsWay, Spent, About,
         TurnRows, InLine, TypeOK, InputType, Elements
<1> QED BY <1>1, <1>2, InitSent, PTL DEF Spec

-----------------------------------------------------------------------------
(***************************************************************************)
(* NoRunAfterCancel, while no transport is lost and no process restarts (a *)
(* CLI that is offline is not asked, and may have the turn in its queue).  *)
(* The link then comes up once and no backfill runs (Calm).  A deleted row *)
(* is in no queue and cannot come back (Gone): its copies on the way down  *)
(* meet a filter that has seen it.  Before the hub deletes a row that the  *)
(* CLI granted, that must hold already (GrantedIsGone); that the item the  *)
(* CLI removed is the row that the hub deletes takes OnePerTurn, since the *)
(* request names a localId.                                                *)
(***************************************************************************)

Calm ==
    /\ ~stale /\ link \in {"up", "down"} /\ backfill = NoRun /\ ~needsBackfill /\ unsent = <<>>
    /\ link = "down" => /\ ~connectedOnce /\ downlink = <<>> /\ uplink = <<>>
                        /\ pending = <<>> /\ queue = <<>> /\ reached = {}
    /\ \A r \in Request : ~cancels[r].wide /\ cancels[r].got = "none"
    /\ handed = reached

OnePerTurn == \A i, j \in Present(rows) :
    i \in TurnRows /\ rows[i].local = rows[j].local => i = j

Left(i) == i \notin reached \cup InLine
Gone(i) == Left(i) /\ (i \in Elements(seen) \/ i \notin Carried(downlink))
DeletedIsGone == \A i \in Id : rows[i].st = "deleted" => Gone(i)

Granted(r) == Ack(r, TRUE) \in Elements(uplink)
GrantedIsGone == \A r \in Request : Granted(r) =>
    /\ cancels[r].st # "idle"
    /\ rows[cancels[r].id].st = "queued" =>
         cancels[r].id \in Elements(seen) /\ Left(cancels[r].id)

Undisturbed == MaxRows <= FilterCapacity /\ MaxDrops = 0 /\ MaxRestarts = 0

CancelInv == OnceInv /\ AskedOnce /\ Calm /\ OnePerTurn /\ DeletedIsGone /\ GrantedIsGone

LEMMA NothingLost ==
    ASSUME Undisturbed, CancelInv
    PROVE  ~Drop /\ ~HubRestart /\ ~CliRestart
<1>1. faults["drops"] \in Nat /\ faults["restarts"] \in Nat
  BY DEF CancelInv, OnceInv, TypeOK, FaultsType, FaultKind
<1>2. MaxFaults["drops"] = 0 /\ MaxFaults["restarts"] = 0
  BY DEF MaxFaults, Undisturbed
<1> QED BY <1>1, <1>2 DEF Drop, HubRestart, CliRestart, Fault

LEMMA EmptyRoom == Calm /\ RoomIsEmpty => link = "down"
BY DEF Calm, RoomIsEmpty

LEMMA CallsStayNarrow ==
    ASSUME CancelInv, NEW r \in Request, NEW i \in Id, NEW result
    PROVE  \A q \in Request :
             /\ ~Settled(r, result)[q].wide /\ Settled(r, result)[q].got = "none"
             /\ ~[Settled(r, result) EXCEPT ![r].id = i][q].wide
             /\ [Settled(r, result) EXCEPT ![r].id = i][q].got = "none"
<1>1. cancels \in [Request -> Call]
  BY DEF CancelInv, OnceInv, TypeOK, HubType
<1>2. \A q \in Request : ~cancels[q].wide /\ cancels[q].got = "none"
  BY DEF CancelInv, Calm
<1> QED BY <1>1, <1>2 DEF Settled, Call

LEMMA CalmStep ==
    ASSUME Undisturbed, CancelInv, [Next]_vars
    PROVE  Calm'
<1>c. Calm /\ ~Drop /\ ~HubRestart /\ ~CliRestart
  BY NothingLost DEF CancelInv
<1>t. HubType /\ NetType /\ InputType
  BY DEF CancelInv, OnceInv, TypeOK
<1>1. ASSUME NEW t \in Turn, PostTurn(t) PROVE Calm'
  BY <1>c, <1>1 DEF PostTurn, EmitToRoom, Calm, bfVars, inVars, pastVars
<1>2. ASSUME NEW t \in Turn, BecomeDue(t) PROVE Calm'
  BY <1>c, <1>2 DEF BecomeDue, Calm, netVars, bfVars, inVars, pastVars
<1>3. ASSUME NEW role \in {"user", "agent"}, CliPosts(role) PROVE Calm'
  <2>1. link = "up" /\ handed' = reached'
    BY <1>c, <1>3 DEF CliPosts, Calm
  <2> QED BY <1>c, <1>3, <2>1 DEF CliPosts, Calm, netVars, bfVars, inVars
<1>4. ASSUME NEW i \in Id, ReleaseMature(i) PROVE Calm'
  BY <1>c, <1>4 DEF ReleaseMature, EmitToRoom, Calm, bfVars, inVars, pastVars
<1>5. ASSUME NEW i \in Id, NEW r \in Request, RequestCancel(r, i) PROVE Calm'
  <2>1. \/ \E result \in {"cancelled", "sent"} : cancels' = [Settled(r, result) EXCEPT ![r].id = i]
        \/ cancels' = [cancels EXCEPT ![r] =
                [st |-> "asked", id |-> i, wide |-> stale, got |-> "none"]]
    BY <1>5, Zenon DEF RequestCancel
  <2>2. \A q \in Request : ~cancels'[q].wide /\ cancels'[q].got = "none"
    <3>1. CASE \E result \in {"cancelled", "sent"} : cancels' = [Settled(r, result) EXCEPT ![r].id = i]
      BY <3>1, CallsStayNarrow
    <3>2. CASE cancels' = [cancels EXCEPT ![r] =
                [st |-> "asked", id |-> i, wide |-> stale, got |-> "none"]]
      BY <1>c, <1>t, <3>2 DEF Calm, HubType
    <3> QED BY <2>1, <3>1, <3>2
  <2>3. downlink' = IF link = "up" THEN downlink' ELSE downlink
    BY <1>5 DEF RequestCancel, EmitToRoom
  <2> QED BY <1>c, <1>5, <2>2, <2>3 DEF RequestCancel, Calm, bfVars, inVars, pastVars
<1>6. ASSUME NEW r \in Request, CancelTimesOut(r) PROVE Calm'
  <2>1. cancels' = Settled(r, "unconfirmed")
    BY <1>c, <1>6 DEF CancelTimesOut, Calm
  <2>2. 1 \in Nat /\ \A q \in Request : ~cancels'[q].wide /\ cancels'[q].got = "none"
    BY <1>c, <1>t, <2>1 DEF Calm, HubType, Settled, Call
  <2> QED BY <1>c, <1>6, <2>2 DEF CancelTimesOut, Calm, netVars, bfVars, inVars, pastVars
<1>7. CASE HubReceives
  <2>1. \A q \in Request : ~cancels'[q].wide /\ cancels'[q].got = "none"
    <3>1. CASE cancels' = cancels
      BY <1>c, <3>1 DEF Calm
    <3>2. CASE cancels' # cancels
      <4> DEFINE r == Head(uplink).req
      <4>1. Head(uplink) \in Reply /\ Head(uplink).kind = "ack"
        BY <1>7, <1>t, <3>2 DEF HubReceives, NetType
      <4>2. r \in Request /\ ~cancels[r].wide
        BY <1>c, <4>1 DEF Calm, Reply
      <4>3. \E result : cancels' = Settled(r, result)
        BY <1>7, <3>2, <4>1, <4>2, Zenon DEF HubReceives, ConfirmRemoved, AssumeConsumed
      <4> HIDE DEF r
      <4> QED BY <1>c, <1>t, <4>2, <4>3 DEF Calm, HubType, Settled, Call
    <3> QED BY <3>1, <3>2
  <2>2. link = "up"
    BY <1>c, <1>7 DEF Calm, HubReceives
  <2> QED BY <1>c, <1>7, <2>1, <2>2 DEF HubReceives, Calm, bfVars, inVars, pastVars
<1>8. CASE ReceiveMessage \/ ReceiveCancel
  <2>1. link = "up"
    BY <1>c, <1>8 DEF Calm, ReceiveMessage, ReceiveCancel
  <2>2. unsent' = unsent
    BY <1>8, <2>1 DEF ReceiveMessage, ReceiveCancel, EmitToHub
  <2>3. UNCHANGED <<link, stale, cancels, backfill, needsBackfill, handed, reached>>
    BY <1>8 DEF ReceiveMessage, ReceiveCancel, hubVars, bfVars, pastVars
  <2> QED BY <1>c, <2>1, <2>2, <2>3 DEF Calm
<1>9. CASE Register \/ DrainPending
  <2>1. link = "down" => pending' = <<>> /\ queue' = <<>>
    BY <1>c, <1>9 DEF Register, DrainPending, Calm
  <2> QED BY <1>c, <1>9, <2>1 DEF Register, DrainPending, Calm, hubVars, netVars, bfVars, pastVars
<1>10. CASE TakeTurn
  <2>1. link = "up"
    BY <1>c, <1>10 DEF Calm, TakeTurn
  <2>2. unsent' = unsent /\ handed' = reached'
    BY <1>c, <1>10, <2>1 DEF TakeTurn, EmitToHub, Calm
  <2> QED BY <1>c, <1>10, <2>1, <2>2 DEF TakeTurn, Calm, hubVars, bfVars
<1>11. CASE Connect
  <2>1. link' = "up" /\ unsent' = <<>> /\ backfill' = backfill /\ ~needsBackfill'
    BY <1>c, <1>11 DEF Connect, Calm
  <2> QED BY <1>c, <1>11, <2>1 DEF Connect, Calm, hubVars, inVars, pastVars
<1>12. ~HubServesBackfill /\ ~BeginPage /\ ~BackfillFails /\ ~CliNoticesDrop /\ ~HubNoticesDrop
       /\ \A i \in Id : ~PageStep(i)
  BY <1>c DEF HubServesBackfill, BeginPage, BackfillFails, CliNoticesDrop, HubNoticesDrop,
              PageStep, Calm, NoRun
<1>13. CASE UNCHANGED vars
  BY <1>c, <1>13 DEF Calm, vars, pastVars
<1> QED
  BY <1>c, <1>1, <1>2, <1>3, <1>4, <1>5, <1>6, <1>7, <1>8, <1>9, <1>10, <1>11, <1>12, <1>13
  DEF Next, CliStep

LEMMA OnePerTurnStep ==
    ASSUME TypeOK, QueuedAreTurns, OnePerTurn, [Next]_vars
    PROVE  OnePerTurn'
<1>1. rows \in [Id -> Row] /\ TableStep
  BY EveryStepOnTable DEF TypeOK, HubType
<1>2. CASE \A i \in Id : rows'[i].local = rows[i].local /\ (i \in Present(rows') => i \in Present(rows))
  BY <1>2 DEF OnePerTurn, TurnRows, Present
<1>3. ASSUME NEW k \in Id, NEW n \in Id, NEW t \in Turn \cup {NoTurn}, NEW role \in {"user", "agent"},
             rows' = Inserted(rows, k, t, role, n),
             t \in Turn => Existing(rows, t) = {}
      PROVE  OnePerTurn'
  <2>1. \A i \in Id : i # k => rows'[i] = rows[i]
    BY <1>1, <1>3 DEF Inserted
  <2>2. rows'[k].local = t
    BY <1>1, <1>3 DEF Inserted
  <2>3. \A i \in Present(rows) : rows[i].local = t => t \notin Turn
    BY <1>3 DEF Existing
  <2> QED BY <2>1, <2>2, <2>3 DEF OnePerTurn, TurnRows, Present
<1> QED BY <1>1, <1>2, <1>3 DEF TableStep, MarkedInvoked, DeletedIfQueued, Present, Row

-----------------------------------------------------------------------------
(* Rows that are gone stay so. *)

LEMMA SeenGrows ==
    ASSUME Undisturbed, CancelInv, [Next]_vars
    PROVE  Elements(seen) \subseteq Elements(seen')
<1>1. \/ InputKept \/ InputTypes \/ InputReceives \/ InputCleared
      \/ DrainPending \/ TakeTurn \/ ReceiveCancel
  BY EveryStepOnInput DEF CancelInv, OnceInv
<1>2. CASE InputReceives
  <2>1. PICK i \in Id : Receive(i)
    BY <1>2 DEF InputReceives, Ripe
  <2> QED BY <2>1, SeenAll DEF Receive, Undisturbed, CancelInv, OnceInv, TypeOK, InputType
<1> QED BY <1>1, <1>2, NothingLost
        DEF InputCleared, InputKept, InputTypes, DrainPending, TakeTurn, ReceiveCancel

\* What enters the line was on its way down and not seen before.
LEMMA LineGrows ==
    ASSUME Undisturbed, CancelInv, [Next]_vars, NEW i, ~Left(i)'
    PROVE  ~Left(i) \/ rows[i].st = "unused" \/ i \in Carried(downlink) \ Elements(seen)
<1>t. queue \in Seq(Id) /\ pending \in Seq(Id)
  BY DEF CancelInv, OnceInv, TypeOK, InputType
<1>1. \/ InputKept \/ InputTypes \/ InputReceives \/ InputCleared
      \/ DrainPending \/ TakeTurn \/ ReceiveCancel
  BY EveryStepOnInput DEF CancelInv, OnceInv
<1>2. CASE InputKept \/ InputTypes
  BY <1>2 DEF InputKept, InputTypes, CancelInv, Calm, Left, InLine
<1>3. CASE InputReceives
  <2>1. PICK j \in Id : /\ j \in Carried(downlink) \cup backfill.page
                        /\ Receive(j) /\ UNCHANGED <<handed, reached>>
    BY <1>3 DEF InputReceives, Ripe
  <2>2. backfill.page = {}
    BY EmptyRuns DEF CancelInv, Calm
  <2>3. /\ Elements(Enqueued(queue, j)) \subseteq Elements(queue) \cup {j}
        /\ Elements(Append(pending, j)) \subseteq Elements(pending) \cup {j}
    BY <1>t, EnqueuedElements, ElementsOfAppend
  <2>4. InLine' \subseteq InLine \/ (InLine' \subseteq InLine \cup {j} /\ j \notin Elements(seen))
    BY <2>1, <2>3 DEF Receive, Accepts, InLine
  <2> QED BY <2>1, <2>2, <2>4 DEF Left
<1>4. CASE DrainPending
  <2>1. /\ pending # <<>> /\ pending' = Tail(pending) /\ reached' = reached
        /\ queue' = Enqueued(queue, Head(pending))
    BY <1>4 DEF DrainPending, pastVars
  <2>2. /\ Head(pending) \in Id /\ Head(pending) \in Elements(pending)
        /\ Elements(pending') \subseteq Elements(pending)
    BY <1>t, <2>1, ElementsOfTail
  <2>3. Elements(queue') \subseteq Elements(queue) \cup {Head(pending)}
    BY <1>t, <2>1, <2>2, EnqueuedElements
  <2> QED BY <2>1, <2>2, <2>3 DEF Left, InLine
<1>5. CASE TakeTurn
  <2>1. /\ queue # <<>> /\ queue' = Tail(queue) /\ pending' = pending
        /\ reached' = reached \cup {Head(queue)}
    BY <1>5 DEF TakeTurn
  <2>2. Head(queue) \in Elements(queue) /\ Elements(queue') \subseteq Elements(queue)
    BY <1>t, <2>1, ElementsOfTail
  <2> QED BY <2>1, <2>2 DEF Left, InLine
<1>6. CASE ReceiveCancel
  <2>1. queue' = queue \/ \E k \in DOMAIN queue : queue' = Without(queue, k)
    BY <1>6 DEF ReceiveCancel, Places
  <2>2. Elements(queue') \subseteq Elements(queue)
    BY <1>t, <2>1, ElementsOfWithout
  <2>3. pending' = pending /\ reached' = reached
    BY <1>6 DEF ReceiveCancel, pastVars
  <2> QED BY <2>2, <2>3 DEF Left, InLine
<1> QED BY <1>1, <1>2, <1>3, <1>4, <1>5, <1>6, NothingLost DEF InputCleared

\* The hub sends rows of its table only.
LEMMA CarriedGrows ==
    ASSUME Undisturbed, CancelInv, [Next]_vars, NEW i \in Carried(downlink')
    PROVE  i \in Carried(downlink) \/ rows'[i].st # "deleted"
<1>t. HubType /\ NetType
  BY DEF CancelInv, OnceInv, TypeOK
<1>1. ASSUME NEW t \in Turn, PostTurn(t)
      PROVE  i \in Carried(downlink) \/ rows'[i].st # "deleted"
  <2>1. PICK j \in Id :
          /\ \/ j \in Existing(rows, t) /\ rows' = rows
             \/ \E n \in Id : rows' = Inserted(rows, j, t, "user", n)
          /\ downlink' = downlink \/ EmitToRoom(Message(j))
    BY <1>1 DEF PostTurn
  <2>2. rows'[j].st # "deleted"
    BY <1>t, <2>1 DEF Existing, Present, HubType, Inserted
  <2> QED BY <1>t, <2>1, <2>2, EmittedMessage
<1>2. ASSUME NEW j \in Id, ReleaseMature(j)
      PROVE  i \in Carried(downlink) \/ rows'[i].st # "deleted"
  BY <1>t, <1>2, EmittedMessage DEF ReleaseMature, Mature
<1>3. ASSUME NEW j \in Id, NEW r \in Request, RequestCancel(r, j)
      PROVE  i \in Carried(downlink)
  BY <1>t, <1>3, EmittedCancel DEF RequestCancel
<1>4. CASE ReceiveMessage \/ ReceiveCancel
  <2>1. downlink # <<>> /\ downlink' = Tail(downlink)
    BY <1>4 DEF ReceiveMessage, ReceiveCancel
  <2>2. Elements(downlink') \subseteq Elements(downlink)
    BY <1>t, <2>1, ElementsOfTail DEF NetType
  <2> QED BY <2>2 DEF Carried
<1>5. CASE downlink' = downlink
  BY <1>5
<1>6. ASSUME NEW t \in Turn, BecomeDue(t) PROVE downlink' = downlink
  BY <1>6 DEF BecomeDue, netVars
<1>7. ASSUME NEW role \in {"user", "agent"}, CliPosts(role) PROVE downlink' = downlink
  BY <1>7 DEF CliPosts, netVars
<1>8. ASSUME NEW r \in Request, CancelTimesOut(r) PROVE downlink' = downlink
  BY <1>8 DEF CancelTimesOut, netVars
<1>9. CASE HubReceives \/ HubServesBackfill \/ Register \/ DrainPending \/ TakeTurn \/ BeginPage
           \/ (\E j \in Id : PageStep(j)) \/ Connect \/ CliNoticesDrop \/ BackfillFails
           \/ HubNoticesDrop \/ UNCHANGED vars
  BY <1>9 DEF HubReceives, HubServesBackfill, Register, DrainPending, TakeTurn, BeginPage,
              PageStep, Connect, CliNoticesDrop, BackfillFails, HubNoticesDrop, vars, netVars
<1> QED BY <1>1, <1>2, <1>3, <1>4, <1>5, <1>6, <1>7, <1>8, <1>9, NothingLost DEF Next, CliStep

\* The three ways a row is deleted: before its time, with nobody connected, or
\* because the CLI has removed it.
LEMMA DeletionIsSafe ==
    ASSUME Undisturbed, CancelInv, [Next]_vars, NEW i \in Id,
           rows[i].st # "deleted", rows'[i].st = "deleted"
    PROVE  rows[i].st = "queued" /\ Gone(i)
<1>t. HubType /\ NetType
  BY DEF CancelInv, OnceInv, TypeOK
<1>1. ASSUME NEW j, rows' = DeletedIfQueued(rows, j)
      PROVE  i = j /\ rows[i].st = "queued"
  <2>1. j \in Id
    BY <1>1, <1>t, DeletedOutside DEF HubType
  <2> QED BY <1>1, <1>t, <2>1 DEF DeletedIfQueued, HubType
<1>2. ~\E t : rows' = MarkedInvoked(rows, t)
  BY <1>t DEF MarkedInvoked, HubType, Row
<1>3. rows' # rows
  OBVIOUS
<1>4. ~\E j, n \in Id, t \in Turn \cup {NoTurn}, role \in {"user", "agent"} :
          rows' = Inserted(rows, j, t, role, n)
  BY <1>t DEF Inserted, HubType
<1>5. ASSUME NEW j \in Id, NEW r \in Request, RequestCancel(r, j)
      PROVE  rows[i].st = "queued" /\ Gone(i)
  <2>1. rows' = DeletedIfQueued(rows, j) /\ (Future(rows, due, j) \/ RoomIsEmpty)
    BY <1>3, <1>5 DEF RequestCancel
  <2>2. i = j /\ rows[i].st = "queued"
    BY <1>1, <2>1
  <2>3. CASE Future(rows, due, j)
    <3>1. i \notin Travelling
      BY <2>2, <2>3 DEF CancelInv, OnceInv, NoneTravelsEarly, Ripe
    <3> QED BY <2>2, <3>1 DEF Travelling, Gone, Left, InLine, Carried
  <2>4. CASE RoomIsEmpty
    <3>1. downlink = <<>> /\ pending = <<>> /\ queue = <<>> /\ reached = {}
      BY <2>4, EmptyRoom DEF CancelInv, Calm
    <3> QED BY <2>2, <3>1, NoElements DEF Gone, Left, InLine, Carried
  <2> QED BY <2>1, <2>3, <2>4
<1>6. ASSUME NEW r \in Request, CancelTimesOut(r) PROVE FALSE
  BY <1>3, <1>6 DEF CancelTimesOut, CancelInv, Calm
<1>7. CASE HubReceives
  <2> DEFINE r == Head(uplink).req
  <2>1. Head(uplink) \in Reply /\ Head(uplink) \in Elements(uplink)
    BY <1>t, <1>7, ElementsOfTail DEF HubReceives, NetType
  <2>2. Head(uplink).kind = "ack" /\ cancels[r].st = "asked"
    BY <1>2, <1>3, <1>7, Zenon DEF HubReceives
  <2>3. r \in Request /\ Head(uplink) = Ack(r, Head(uplink).removed)
    BY <2>1, <2>2 DEF Reply, Ack
  <2>4. ~cancels[r].wide
    BY <2>3 DEF CancelInv, Calm
  <2>5. IF Head(uplink).removed THEN ConfirmRemoved(r) ELSE AssumeConsumed(r)
    BY <1>7, <2>2, <2>4, Zenon DEF HubReceives
  <2>6. Head(uplink).removed /\ rows' = DeletedIfQueued(rows, cancels[r].id)
    BY <1>2, <2>5 DEF ConfirmRemoved, AssumeConsumed
  <2>7. Head(uplink).removed \in BOOLEAN
    BY <2>1, <2>2 DEF Reply
  <2>8. Granted(r)
    BY <2>1, <2>3, <2>6, <2>7 DEF Granted
  <2> HIDE DEF r
  <2>9. i = cancels[r].id /\ rows[i].st = "queued"
    BY <1>1, <2>6
  <2> QED BY <2>3, <2>8, <2>9 DEF CancelInv, GrantedIsGone, Gone
<1>8. ASSUME NEW t \in Turn, PostTurn(t) PROVE FALSE
  BY <1>3, <1>4, <1>8 DEF PostTurn
<1>9. ASSUME NEW role \in {"user", "agent"}, CliPosts(role) PROVE FALSE
  BY <1>4, <1>9 DEF CliPosts
<1>10. ASSUME NEW t \in Turn, BecomeDue(t) PROVE FALSE
  BY <1>3, <1>10 DEF BecomeDue
<1>11. ASSUME NEW j \in Id, ReleaseMature(j) PROVE FALSE
  BY <1>3, <1>11 DEF ReleaseMature
<1>12. ~UNCHANGED hubVars
  BY <1>3 DEF hubVars
<1>13. [Next]_vars => \/ \E t \in Turn : PostTurn(t) \/ BecomeDue(t)
                      \/ \E role \in {"user", "agent"} : CliPosts(role)
                      \/ \E j \in Id : ReleaseMature(j) \/ \E r \in Request : RequestCancel(r, j)
                      \/ \E r \in Request : CancelTimesOut(r)
                      \/ HubReceives \/ UNCHANGED hubVars \/ HubRestart
  BY DEF Next, CliStep, HubServesBackfill, ReceiveMessage, ReceiveCancel, Register,
         DrainPending, TakeTurn, BeginPage, PageStep, Connect, CliNoticesDrop,
         BackfillFails, Drop, HubNoticesDrop, CliRestart, vars, hubVars
<1> QED BY <1>5, <1>6, <1>7, <1>8, <1>9, <1>10, <1>11, <1>12, <1>13, NothingLost

LEMMA DeletedIsGoneStep ==
    ASSUME Undisturbed, CancelInv, [Next]_vars
    PROVE  DeletedIsGone'
<1> SUFFICES ASSUME NEW i \in Id, rows'[i].st = "deleted"
             PROVE  Gone(i)'
  BY DEF DeletedIsGone
<1>1. rows[i].st # "unused" /\ Gone(i)
  BY DeletionIsSafe DEF CancelInv, DeletedIsGone
<1>2. Left(i)'
  BY <1>1, LineGrows DEF Gone
<1> QED BY <1>1, <1>2, SeenGrows, CarriedGrows DEF Gone

-----------------------------------------------------------------------------
(* The grants of the CLI. *)

LEMMA GrantsGrow ==
    ASSUME Undisturbed, CancelInv, [Next]_vars, NEW r \in Request, Granted(r)'
    PROVE  Granted(r) \/ ReceiveCancel
<1>t. NetType
  BY DEF CancelInv, OnceInv, TypeOK
<1>1. CASE uplink' = uplink
  BY <1>1 DEF Granted
<1>2. CASE HubReceives
  BY <1>2, <1>t, ElementsOfTail DEF HubReceives, NetType, Granted
<1>3. CASE TakeTurn
  <2> DEFINE p == Consumed(rows[Head(queue)].local)
  <2>1. uplink' = uplink \/ (p \in Reply /\ uplink' = Append(uplink, p))
    BY <1>3 DEF TakeTurn, EmitToHub, Reply, Consumed
  <2>2. p # Ack(r, TRUE)
    BY DEF Consumed, Ack
  <2> HIDE DEF p
  <2>3. CASE p \in Reply /\ uplink' = Append(uplink, p)
    <3>1. Elements(uplink') = Elements(uplink) \cup {p}
      BY <1>t, <2>3, ElementsAppended DEF NetType
    <3> QED BY <2>2, <3>1 DEF Granted
  <2> QED BY <1>1, <2>1, <2>3
<1>4. CASE Connect
  <2>1. uplink' = <<>>
    BY <1>4 DEF Connect, CancelInv, Calm
  <2> QED BY <2>1, NoElements DEF Granted
<1>5. ASSUME NEW t \in Turn, PostTurn(t) \/ BecomeDue(t) PROVE uplink' = uplink
  BY <1>5 DEF PostTurn, BecomeDue, netVars
<1>6. ASSUME NEW role \in {"user", "agent"}, CliPosts(role) PROVE uplink' = uplink
  BY <1>6 DEF CliPosts, netVars
<1>7. ASSUME NEW j \in Id, ReleaseMature(j) \/ \E q \in Request : RequestCancel(q, j)
      PROVE  uplink' = uplink
  BY <1>7 DEF ReleaseMature, RequestCancel
<1>8. ASSUME NEW q \in Request, CancelTimesOut(q) PROVE uplink' = uplink
  BY <1>8 DEF CancelTimesOut, netVars
<1>9. CASE HubServesBackfill \/ ReceiveMessage \/ Register \/ DrainPending \/ BeginPage
           \/ (\E j \in Id : PageStep(j)) \/ CliNoticesDrop \/ BackfillFails
           \/ HubNoticesDrop \/ UNCHANGED vars
  BY <1>9, <1>1 DEF HubServesBackfill, ReceiveMessage, Register, DrainPending, BeginPage,
              PageStep, CliNoticesDrop, BackfillFails, HubNoticesDrop, vars, netVars
<1> QED BY <1>1, <1>2, <1>3, <1>4, <1>5, <1>6, <1>7, <1>8, <1>9, NothingLost DEF Next, CliStep

LEMMA OnceRemoved ==
    ASSUME NEW S, NEW q \in Seq(S), NEW k \in DOMAIN q, NEW T, Once(q, T), q[k] \in T
    PROVE  q[k] \notin Elements(Without(q, k))
<1>1. Len(q) \in Nat /\ k \in 1..Len(q) /\ DOMAIN q = 1..Len(q)
  OBVIOUS
<1>2. /\ DOMAIN Without(q, k) = 1..(Len(q) - 1)
      /\ \A j \in 1..(Len(q) - 1) : Without(q, k)[j] = IF j < k THEN q[j] ELSE q[j + 1]
  BY <1>1 DEF Without
<1>3. ASSUME NEW j \in 1..(Len(q) - 1) PROVE Without(q, k)[j] # q[k]
  <2>1. PICK m \in 1..Len(q) : m # k /\ Without(q, k)[j] = q[m]
    <3>1. CASE j < k
      BY <1>1, <1>2, <3>1
    <3>2. CASE ~(j < k)
      <4>1. j + 1 \in 1..Len(q) /\ j + 1 # k
        BY <1>1, <3>2
      <4> QED BY <1>2, <3>2, <4>1
    <3> QED BY <3>1, <3>2
  <2> QED BY <1>1, <2>1 DEF Once
<1> QED BY <1>2, <1>3 DEF Elements

LEMMA GrantNeedsRequest ==
    ASSUME CancelInv, ReceiveCancel, NEW r \in Request, ~Asked(r), Granted(r)'
    PROVE  Granted(r)
<1>t. NetType
  BY DEF CancelInv, OnceInv, TypeOK
<1>1. PICK q \in Request : q = Head(downlink).req /\ Head(downlink) = Cancel(q)
  BY <1>t DEF ReceiveCancel, NetType, Packet, Cancel
<1>2. PICK b \in BOOLEAN : EmitToHub(Ack(q, b))
  BY <1>1 DEF ReceiveCancel
<1>3. Asked(q)
  BY <1>1, <1>t, ElementsOfTail DEF ReceiveCancel, NetType, Asked
<1>4. Ack(q, b) \in Reply
  BY <1>1, Zenon DEF Ack, Reply
<1>5. Elements(uplink') \subseteq Elements(uplink) \cup {Ack(q, b)}
  BY <1>2, <1>t, <1>4, ElementsAppended DEF EmitToHub, NetType
<1>6. Ack(r, TRUE) = Ack(q, b) => r = q
  BY DEF Ack
<1> QED BY <1>3, <1>5, <1>6 DEF Granted

\* The request names a localId; the item that is removed is its row.
LEMMA GrantIsSafe ==
    ASSUME Undisturbed, CancelInv, [Next]_vars, ReceiveCancel,
           NEW r \in Request, Granted(r)', ~Granted(r), rows[cancels[r].id].st = "queued"
    PROVE  /\ cancels[r].st # "idle"
           /\ cancels[r].id \in Elements(seen) /\ Left(cancels[r].id)'
<1>t. NetType /\ HubType /\ InputType
  BY DEF CancelInv, OnceInv, TypeOK
<1>1. PICK q \in Request : q = Head(downlink).req /\ Head(downlink) = Cancel(q)
  BY <1>t DEF ReceiveCancel, NetType, Packet, Cancel
<1>2. PICK b \in BOOLEAN : /\ EmitToHub(Ack(q, b))
                           /\ b => \E k \in Places(queue, rows[cancels[q].id].local) :
                                      queue' = Without(queue, k)
  BY <1>1 DEF ReceiveCancel
<1>3. r = q /\ b
  <2>1. Ack(q, b) \in Reply
    BY <1>1, Zenon DEF Ack, Reply
  <2>2. Elements(uplink') \subseteq Elements(uplink) \cup {Ack(q, b)}
    BY <1>2, <1>t, <2>1, ElementsAppended DEF EmitToHub, NetType
  <2>3. Ack(r, TRUE) = Ack(q, b)
    BY <2>2 DEF Granted
  <2> QED BY <2>3 DEF Ack
<1>4. Asked(r)
  BY <1>1, <1>3, <1>t, ElementsOfTail DEF ReceiveCancel, NetType, Asked
<1>5. cancels[r].st # "idle" /\ cancels[r].id \in Id
  BY <1>4 DEF CancelInv, AskedOnce
<1>6. PICK k \in DOMAIN queue :
        rows[queue[k]].local = rows[cancels[r].id].local /\ queue' = Without(queue, k)
  BY <1>2, <1>3 DEF Places
<1>7. queue[k] \in Id /\ queue[k] \in Elements(queue)
  BY <1>6, <1>t DEF InputType, Elements
<1>8. rows[queue[k]].st \notin {"unused", "deleted"}
  <2>1. queue[k] \in Ripe
    BY <1>7 DEF CancelInv, OnceInv, NoneTravelsEarly, Travelling
  <2>2. ~Left(queue[k])
    BY <1>7 DEF Left, InLine
  <2> QED BY <1>7, <2>1, <2>2 DEF Ripe, CancelInv, DeletedIsGone, Gone
<1>9. queue[k] \in TurnRows
  BY <1>5, <1>6, <1>7 DEF CancelInv, OnceInv, QueuedAreTurns, TurnRows
<1>10. queue[k] = cancels[r].id
  <2>1. queue[k] \in Present(rows) /\ cancels[r].id \in Present(rows)
    BY <1>5, <1>7, <1>8, <1>t DEF Present, HubType, Row
  <2> QED BY <1>6, <1>9, <2>1 DEF CancelInv, OnePerTurn
<1>11. queue[k] \in Elements(seen)
  BY <1>7, <1>9 DEF CancelInv, OnceInv, ReadFirst, InLine
<1>12. queue[k] \notin Elements(queue')
  BY <1>6, <1>9, <1>t, OnceRemoved DEF CancelInv, OnceInv, OnePlace, InputType
<1>13. queue[k] \notin Elements(pending) /\ queue[k] \notin reached
  BY <1>7, <1>9 DEF CancelInv, OnceInv, OnePlace, Calm, InLine
<1>14. pending' = pending /\ reached' = reached /\ cancels' = cancels
  BY DEF ReceiveCancel, pastVars, hubVars
<1> QED BY <1>5, <1>10, <1>11, <1>12, <1>13, <1>14 DEF Left, InLine

LEMMA GrantedIsGoneStep ==
    ASSUME Undisturbed, CancelInv, [Next]_vars
    PROVE  GrantedIsGone'
<1> SUFFICES ASSUME NEW r \in Request, Granted(r)'
             PROVE  /\ cancels'[r].st # "idle"
                    /\ \A i : i = cancels'[r].id /\ rows'[i].st = "queued" =>
                         i \in Elements(seen') /\ Left(i)'
  BY DEF GrantedIsGone, Left, InLine
<1>i. TypeOK /\ QueuedAreTurns /\ AskedOnce /\ CallInv
  BY DEF CancelInv, OnceInv, CallInv
<1>1. CASE cancels[r].st = "idle"
  <2>1. ~Granted(r) /\ ~Asked(r)
    BY <1>1 DEF CancelInv, GrantedIsGone, AskedOnce
  <2>2. ReceiveCancel
    BY <2>1, GrantsGrow
  <2> QED BY <1>1, <2>1, <2>2, GrantNeedsRequest
<1>2. CASE cancels[r].st # "idle"
  <2>1. cancels'[r].st # "idle" /\ cancels'[r].id = cancels[r].id
    BY <1>2, <1>i, EveryStepOnCalls DEF CallStays
  <2> SUFFICES ASSUME NEW i, i = cancels[r].id, rows'[i].st = "queued"
               PROVE  i \in Elements(seen') /\ Left(i)'
    BY <2>1
  <2>2. i \in Id /\ rows[i].st # "unused"
    BY <1>2, <1>i DEF AskedOnce
  <2>3. rows[i].st = "queued"
    BY <1>i, <2>2, EveryStepOnTable, TableAges DEF TypeOK, HubType, Row
  <2>4. CASE Granted(r)
    <3>1. i \in Elements(seen) /\ Left(i)
      BY <2>3, <2>4 DEF CancelInv, GrantedIsGone
    <3> QED BY <2>2, <3>1, LineGrows, SeenGrows
  <2>5. CASE ~Granted(r)
    <3>1. ReceiveCancel
      BY <2>5, GrantsGrow
    <3>2. i \in Elements(seen) /\ Left(i)'
      BY <2>1, <2>3, <2>5, <3>1, GrantIsSafe DEF Left, InLine
    <3> QED BY <3>2, SeenGrows
  <2> QED BY <2>4, <2>5
<1> QED BY <1>1, <1>2

LEMMA InitCancel == Init => CancelInv
<1> SUFFICES ASSUME Init PROVE CancelInv
  OBVIOUS
<1>1. Calm
  BY DEF Init, Calm, NoCall
<1>2. OnePerTurn /\ DeletedIsGone
  BY DEF Init, OnePerTurn, DeletedIsGone, Present, EmptyTable
<1>3. GrantedIsGone
  BY NoElements DEF Init, GrantedIsGone, Granted
<1>4. AskedOnce
  BY InitSent DEF SentInv, CallInv
<1> QED BY <1>1, <1>2, <1>3, <1>4, InitOnce DEF CancelInv

LEMMA CancelStep ==
    ASSUME Undisturbed, CancelInv, [Next]_vars
    PROVE  CancelInv'
<1>1. OnceInv'
  BY OnceStep DEF Undisturbed, CancelInv
<1>2. AskedOnce'
  BY EveryStepOnCalls DEF CancelInv, OnceInv, CallInv
<1>3. OnePerTurn'
  BY OnePerTurnStep DEF CancelInv, OnceInv
<1> QED BY <1>1, <1>2, <1>3, CalmStep, DeletedIsGoneStep, GrantedIsGoneStep DEF CancelInv

(***************************************************************************)
(* Once the row of a turn is deleted by a cancel no agent starts the turn, *)
(* however cancels, acknowledgements, time-outs, repeated POSTs and ticks  *)
(* interleave, as long as nothing is lost or restarts: run cancel's        *)
(* property.                                                               *)
(***************************************************************************)
THEOREM CancelledTurnsDoNotRun ==
    ASSUME MaxRows <= FilterCapacity, MaxDrops = 0, MaxRestarts = 0
    PROVE  Spec => NoRunAfterCancel
<1>0. Undisturbed
  BY DEF Undisturbed
<1>1. CancelInv /\ [Next]_vars => CancelInv'
  BY <1>0, CancelStep
<1>2. CancelInv /\ CancelInv' /\ [Next]_vars =>
        [\A i \in Id : rows[i].st = "deleted" /\ i \in handed' => i \in handed]_vars
  <2> SUFFICES ASSUME CancelInv, CancelInv', [Next]_vars,
                      NEW i \in Id, rows[i].st = "deleted", i \in handed'
               PROVE  FALSE
    OBVIOUS
  <2>1. rows'[i].st = "deleted"
    BY EveryStepOnTable, TableAges DEF CancelInv, OnceInv
  <2>2. Left(i)'
    BY <2>1 DEF CancelInv, DeletedIsGone, Gone
  <2> QED BY <2>2 DEF Left, CancelInv, Calm
<1> QED BY <1>1, <1>2, InitCancel, PTL DEF Spec, NoRunAfterCancel

-----------------------------------------------------------------------------
(***************************************************************************)
(* ReconnectPicksUp, for any number of lost transports and restarts.  A    *)
(* turn that the CLI has missed is always on its way (Covered): the next   *)
(* backfill will ask for it, because it is younger than the cursor; or the *)
(* run in flight has it on its page or will; or its packet is in flight    *)
(* with only older rows ahead of it, so that no packet moves the cursor    *)
(* past it before it is read.  That takes rows whose seqs grow (SeqOk).    *)
(***************************************************************************)

Missed == {i \in sinceRead \ Elements(seen) :
              rows[i].st = "queued" /\ rows[i].local \notin Scheduled}

Fetched(i) ==
    /\ link = "up"
    /\ \/ backfill.st = "asked" /\ backfill.after < rows[i].seq
       \/ backfill.st \in {"answered", "loop"} /\ i \in backfill.page
OlderAhead(i, p) ==
    /\ p \in DOMAIN downlink /\ downlink[p] = Message(i)
    /\ \A q \in 1..(p - 1), j \in Id : downlink[q] = Message(j) => rows[j].seq < rows[i].seq
InFlightInOrder(i) ==
    /\ link = "up" /\ cursor < rows[i].seq
    /\ \A j \in backfill.page : rows[j].seq < rows[i].seq
    /\ \E p \in DOMAIN downlink : OlderAhead(i, p)
ToBeAsked(i) == link # "up" /\ cursor < rows[i].seq
Cover(i) == Fetched(i) \/ InFlightInOrder(i) \/ ToBeAsked(i)
Covered == \A i \in Missed : Cover(i)

LinkOk ==
    /\ link # "up" => downlink = <<>> /\ backfill.st = "idle"
    /\ link = "up" \/ cursor > 0 => connectedOnce
    /\ sinceRead # {} => cursor > 0
    /\ backfill.after <= cursor

Used == {i \in Id : rows[i].st # "unused"}
SeqOk ==
    /\ sinceRead \subseteq Used
    /\ \A i \in Used : \E j \in Present(rows) : rows[i].seq <= rows[j].seq
    /\ \A i, j \in Present(rows) : rows[i].seq = rows[j].seq => i = j
    /\ cursor = 0 \/ \E i \in Used : cursor <= rows[i].seq

GapInv == TypeOK /\ QueuedAreTurns /\ NoneTravelsEarly /\ LinkOk /\ SeqOk /\ Covered

\* What the code does not survive: a backfill that is cut off or fails, and a
\* cancel of the youngest row, whose seq the next row gets.
BackfillsEnd == backfill.st # "idle" => ~(Drop \/ HubRestart \/ BackfillFails)
YoungestStays ==
    \A i \in Id : rows[i].st = "queued" /\ rows'[i].st = "deleted"
                     => \E j \in Present(rows') : rows[j].seq > rows[i].seq

-----------------------------------------------------------------------------
(* A page that is not full is whole. *)

LEMMA LeastNatural ==
    ASSUME NEW S, S \subseteq Nat, S # {}
    PROVE  \E x \in S : \A y \in S : x <= y
<1>1. IsWellFoundedOn(OpToRel(<, Nat), Nat)
  BY NatLessThanWellFounded
<1>2. PICK x \in S : \A y \in S : ~(<<y, x>> \in OpToRel(<, Nat))
  BY <1>1, WFMin
<1>3. \A y \in S : ~(y < x)
  BY <1>2 DEF OpToRel
<1> QED BY <1>3

LEMMA IdsFinite ==
    ASSUME NEW S \in SUBSET Id
    PROVE  IsFiniteSet(S) /\ Cardinality(S) \in Nat
<1>1. 1 \in Int /\ MaxRows \in Int
  OBVIOUS
<1>2. IsFiniteSet(1..MaxRows)
  BY <1>1, FS_Interval
<1>3. IsFiniteSet(S)
  BY <1>2, FS_Subset DEF Id
<1> QED BY <1>3, FS_CardinalityType

LEMMA WholePage ==
    ASSUME HubType, SeqOk, NEW a, Cardinality(Page(rows, due, a)) # PageLimit
    PROVE  Page(rows, due, a) = DeliverableAfter(rows, due, a)
<1> DEFINE all == DeliverableAfter(rows, due, a)
           L(i) == {j \in all : rows[j].seq < rows[i].seq}
           P == Page(rows, due, a)
<1>1. all \subseteq Present(rows) /\ all \subseteq Id /\ P \subseteq all
  BY DEF DeliverableAfter, Page, Present
<1>2. \A i \in Id : rows[i].seq \in Nat /\ rows[i].seq <= MaxRows
  BY DEF HubType, Row
<1>3. \A i \in all : i \in P <=> Cardinality(L(i)) < PageLimit
  BY DEF Page
<1>4. \A i \in all : IsFiniteSet(L(i)) /\ Cardinality(L(i)) \in Nat
  BY <1>1, IdsFinite
<1>5. \A i, j \in all : L(i) \subseteq L(j) => Cardinality(L(i)) <= Cardinality(L(j))
  BY <1>4, FS_Subset
<1>6. \A i, j \in all : rows[i].seq <= rows[j].seq => L(i) \subseteq L(j)
  BY <1>1, <1>2
<1>7. IsFiniteSet(P) /\ Cardinality(P) \in Nat
  BY <1>1, IdsFinite
<1> SUFFICES ASSUME P # all PROVE FALSE
  OBVIOUS
<1> HIDE DEF all, P
<1>8. PICK d \in all \ P : \A j \in all \ P : rows[d].seq <= rows[j].seq
  <2> DEFINE S == {rows[i].seq : i \in all \ P}
  <2>1. S \subseteq Nat /\ S # {}
    BY <1>1, <1>2
  <2>2. \E x \in S : \A y \in S : x <= y
    BY <2>1, LeastNatural
  <2> QED BY <2>2
<1>9. P = L(d)
  <2>1. ASSUME NEW j \in L(d) PROVE j \in P
    BY <1>1, <1>2, <1>8
  <2>2. ASSUME NEW j \in P PROVE j \in L(d)
    <3>0. j \in all /\ d \in all /\ d \notin P
      BY <1>1, <1>8
    <3>a. Cardinality(L(j)) < PageLimit /\ ~(Cardinality(L(d)) < PageLimit)
      BY <1>3, <3>0
    <3>b. Cardinality(L(j)) \in Nat /\ Cardinality(L(d)) \in Nat
      BY <1>4, <3>0
    <3>1. ~(Cardinality(L(d)) <= Cardinality(L(j)))
      BY <3>a, <3>b
    <3>2. ~(L(d) \subseteq L(j))
      BY <1>5, <3>0, <3>1
    <3>3. ~(rows[d].seq <= rows[j].seq)
      BY <1>1, <1>6, <1>8, <3>2
    <3> QED BY <1>1, <1>2, <1>8, <3>3
  <2> QED BY <2>1, <2>2
<1>10. Cardinality(P) >= PageLimit
  BY <1>3, <1>4, <1>7, <1>8, <1>9
<1>11. PICK e \in P : \A j \in P : rows[j].seq <= rows[e].seq
  <2> DEFINE S == {MaxRows - rows[i].seq : i \in P}
  <2>1. P # {}
    BY <1>7, <1>10, FS_EmptySet
  <2>2. S \subseteq Nat /\ S # {}
    BY <1>1, <1>2, <2>1
  <2>3. \E x \in S : \A y \in S : x <= y
    BY <2>2, LeastNatural
  <2>4. PICK e \in P : \A j \in P : MaxRows - rows[e].seq <= MaxRows - rows[j].seq
    BY <2>3
  <2> QED BY <1>1, <1>2, <2>4
<1>12. P \subseteq L(e) \cup {e}
  BY <1>1, <1>2, <1>11 DEF SeqOk
<1>13. Cardinality(P) <= PageLimit
  <2>1. e \in all /\ Cardinality(L(e)) < PageLimit
    BY <1>1, <1>3
  <2> DEFINE M == L(e)
  <2>2. IsFiniteSet(M) /\ Cardinality(M) \in Nat /\ Cardinality(M) < PageLimit
    BY <1>4, <2>1
  <2>3. P \subseteq M \cup {e}
    BY <1>12
  <2> HIDE DEF M
  <2>4. /\ IsFiniteSet(M \cup {e})
        /\ Cardinality(M \cup {e}) = IF e \in M THEN Cardinality(M) ELSE Cardinality(M) + 1
    BY <2>2, FS_AddElement
  <2>5. Cardinality(P) <= Cardinality(M \cup {e})
    BY <2>3, <2>4, FS_Subset
  <2> QED BY <1>7, <2>2, <2>4, <2>5
<1> QED BY <1>7, <1>10, <1>13 DEF P

-----------------------------------------------------------------------------
(* Seqs grow. *)

Inserts(k, n) ==
    /\ rows[k].st = "unused" /\ rows'[k].st \in {"queued", "invoked"} /\ rows'[k].seq = n
    /\ IsNextSeq(rows, n)
    /\ \A i \in Id : i # k => rows'[i] = rows[i]
InsertsNone ==
    \A i \in Id : /\ rows'[i].st # "unused" <=> rows[i].st # "unused"
                  /\ rows'[i].seq = rows[i].seq
                  /\ rows'[i].st = "queued" => rows[i].st = "queued"

LEMMA TableSeqs ==
    ASSUME TypeOK, TableStep
    PROVE  InsertsNone \/ \E k, n \in Id : Inserts(k, n)
<1>1. rows \in [Id -> Row]
  BY DEF TypeOK, HubType
<1>2. ASSUME NEW k \in Id, NEW n \in Id, NEW t \in Turn \cup {NoTurn}, NEW role \in {"user", "agent"},
             rows[k].st = "unused", IsNextSeq(rows, n), rows' = Inserted(rows, k, t, role, n)
      PROVE  Inserts(k, n)
  BY <1>1, <1>2 DEF Inserted, Inserts
<1>3. CASE rows' = rows \/ (\E t \in Turn : rows' = MarkedInvoked(rows, t))
           \/ (\E i \in Id : rows' = DeletedIfQueued(rows, i))
  BY <1>1, <1>3 DEF InsertsNone, MarkedInvoked, DeletedIfQueued, Row
<1> QED BY <1>2, <1>3 DEF TableStep

LEMMA NextSeqIsHighest ==
    ASSUME TypeOK, SeqOk, NEW n \in Id, IsNextSeq(rows, n)
    PROVE  (\A i \in Used : rows[i].seq < n) /\ cursor < n
<1>1. \A i \in Id : rows[i].seq \in Nat
  BY DEF TypeOK, HubType, Row
<1>2. \A i \in Used : rows[i].seq < n
  BY <1>1 DEF SeqOk, IsNextSeq, Used, Present, Id
<1>3. cursor \in Nat /\ n > 0
  BY DEF TypeOK, InputType, Id
<1> QED BY <1>1, <1>2, <1>3 DEF SeqOk, Used, Id

\* The cursor only ever moves to the seq of a row that has been inserted.
CursorMoves ==
    \/ cursor' = cursor \/ cursor' = 0
    \/ \E i \in Used : cursor' = rows[i].seq

LEMMA EveryStepOnCursor ==
    ASSUME TypeOK, NoneTravelsEarly, [Next]_vars
    PROVE  CursorMoves
<1>1. ASSUME NEW i \in Id, Receive(i), rows[i].st # "unused"
      PROVE  CursorMoves
  BY <1>1 DEF Receive, CursorAfter, CursorMoves, Used
<1>2. CASE ReceiveMessage
  <2> DEFINE p == Head(downlink)
  <2>1. p \in Packet /\ p \in Elements(downlink)
    BY <1>2, ElementsOfTail DEF ReceiveMessage, TypeOK, NetType
  <2>2. p.id \in Id /\ p = Message(p.id)
    BY <1>2, <2>1 DEF ReceiveMessage, Packet, Message
  <2>3. rows[p.id].st # "unused"
    BY <2>1, <2>2 DEF NoneTravelsEarly, Travelling, Ripe
  <2> QED BY <1>1, <1>2, <2>2, <2>3 DEF ReceiveMessage
<1>3. ASSUME NEW i \in Id, PageStep(i) PROVE CursorMoves
  <2>1. rows[i].st # "unused"
    BY <1>3 DEF PageStep, NoneTravelsEarly, Travelling, Ripe
  <2> QED BY <1>1, <1>3, <2>1 DEF PageStep
<1>4. CASE CliRestart
  BY <1>4 DEF CliRestart, CursorMoves
<1>5. CASE UNCHANGED cursor
  BY <1>5 DEF CursorMoves
<1>6. Next => UNCHANGED cursor \/ ReceiveMessage \/ (\E i \in Id : PageStep(i)) \/ CliRestart
  BY DEF Next, CliStep, PostTurn, BecomeDue, CliPosts, ReleaseMature, RequestCancel, CancelTimesOut,
         HubReceives, HubServesBackfill, ReceiveCancel, Register, DrainPending, TakeTurn, BeginPage,
         Connect, CliNoticesDrop, BackfillFails, Drop, HubNoticesDrop, HubRestart, inVars
<1> QED BY <1>2, <1>3, <1>4, <1>5, <1>6 DEF vars

LEMMA SinceReadStep ==
    ASSUME TypeOK, QueuedAreTurns, sinceRead \subseteq Used, [Next]_vars
    PROVE  sinceRead' \subseteq Used'
<1>1. Used \subseteq Used'
  BY EveryStepOnTable, TableAges DEF Used
<1>2. ASSUME NEW t \in Turn, PostTurn(t) PROVE sinceRead' \subseteq Used'
  <2>1. CASE sinceRead' = sinceRead
    BY <1>1, <2>1
  <2>2. ASSUME NEW i \in Id, NEW n \in Id, rows' = Inserted(rows, i, t, "user", n),
               sinceRead' = sinceRead \cup (IF cursor > 0 THEN {i} ELSE {})
        PROVE  sinceRead' \subseteq Used'
    <3>1. i \in Used'
      BY <2>2 DEF Used, Inserted, TypeOK, HubType
    <3> QED BY <1>1, <2>2, <3>1
  <2> QED BY <1>2, <2>1, <2>2 DEF PostTurn, pastVars
<1>3. CASE CliRestart
  BY <1>3 DEF CliRestart
<1>4. Next => sinceRead' = sinceRead \/ (\E t \in Turn : PostTurn(t)) \/ CliRestart
  BY DEF Next, CliStep, BecomeDue, CliPosts, ReleaseMature, RequestCancel, CancelTimesOut,
         HubReceives, HubServesBackfill, ReceiveMessage, ReceiveCancel, Register, DrainPending, TakeTurn,
         BeginPage, PageStep, Connect, CliNoticesDrop, BackfillFails, Drop, HubNoticesDrop, HubRestart,
         pastVars
<1> QED BY <1>1, <1>2, <1>3, <1>4 DEF vars, pastVars

LEMMA SeqStep ==
    ASSUME TypeOK, QueuedAreTurns, NoneTravelsEarly, SeqOk, [Next]_vars, YoungestStays
    PROVE  SeqOk'
<1>1. \A i \in Id : rows[i] \in Row /\ rows'[i] \in Row /\ rows[i].seq \in Nat /\ rows'[i].seq \in Nat
  BY NextType DEF TypeOK, HubType, Row
<1>2. CursorMoves /\ cursor \in Nat
  BY EveryStepOnCursor DEF TypeOK, InputType
<1>5. sinceRead' \subseteq Used'
  BY SinceReadStep DEF SeqOk
<1>3. CASE InsertsNone
  <2>1. Used' = Used /\ Present(rows') \subseteq Present(rows)
    BY <1>1, <1>3, EveryStepOnTable, TableAges DEF Used, InsertsNone, Present, Row
  <2>2. ASSUME NEW i \in Used PROVE \E j \in Present(rows') : rows'[i].seq <= rows'[j].seq
    <3>1. PICK j \in Present(rows) : rows[i].seq <= rows[j].seq
      BY DEF SeqOk
    <3>2. CASE j \in Present(rows')
      BY <1>3, <3>1, <3>2 DEF InsertsNone, Used, Present
    <3>3. CASE j \notin Present(rows')
      <4>1. j \in Id /\ rows[j].st \in {"queued", "invoked"}
        BY DEF Present
      <4>2. rows[j].st # "invoked"
        BY <3>3, <4>1, EveryStepOnTable, TableAges DEF Present
      <4>3. rows'[j].st = "deleted"
        BY <1>1, <1>3, <3>3, <4>1 DEF Present, InsertsNone, Row
      <4>4. PICK m \in Present(rows') : rows[m].seq > rows[j].seq
        BY <4>1, <4>2, <4>3 DEF YoungestStays
      <4>5. i \in Id /\ m \in Id
        BY DEF Present, Used
      <4> QED BY <1>1, <1>3, <3>1, <4>1, <4>4, <4>5 DEF InsertsNone
    <3> QED BY <3>2, <3>3
  <2>3. cursor' = 0 \/ \E i \in Used : cursor' <= rows'[i].seq
    BY <1>1, <1>2, <1>3 DEF CursorMoves, InsertsNone, Used, SeqOk
  <2>4. \A i, j \in Present(rows') : rows'[i].seq = rows'[j].seq => i = j
    BY <1>3, <2>1 DEF SeqOk, InsertsNone, Present
  <2> QED BY <1>5, <2>1, <2>2, <2>3, <2>4 DEF SeqOk
<1>4. ASSUME NEW k \in Id, NEW n \in Id, Inserts(k, n)
      PROVE  SeqOk'
  <2>1. (\A i \in Used : rows[i].seq < n) /\ cursor < n
    BY <1>4, NextSeqIsHighest DEF Inserts
  <2>2. Used' = Used \cup {k} /\ Present(rows') = Present(rows) \cup {k} /\ rows'[k].seq = n
    BY <1>4 DEF Used, Present, Inserts
  <2>3. \A i \in Used' : rows'[i].seq <= n
    BY <1>1, <1>4, <2>1, <2>2 DEF Inserts, Used
  <2>4. \A i \in Present(rows) : i # k /\ rows'[i].seq < n
    BY <1>4, <2>1 DEF Inserts, Used, Present
  <2>5. \A i, j \in Present(rows') : rows'[i].seq = rows'[j].seq => i = j
    BY <1>1, <1>4, <2>2, <2>4 DEF SeqOk, Inserts, Present
  <2>6. cursor' = 0 \/ \E i \in Used' : cursor' <= rows'[i].seq
    <3>1. n \in Nat
      BY DEF Id
    <3>2. cursor' <= n
      <4>1. CASE cursor' = cursor \/ cursor' = 0
        BY <1>2, <2>1, <3>1, <4>1
      <4>2. ASSUME NEW i \in Used, cursor' = rows[i].seq PROVE cursor' <= n
        BY <1>1, <2>1, <3>1, <4>2 DEF Used
      <4> QED BY <1>2, <4>1, <4>2 DEF CursorMoves
    <3> QED BY <2>2, <3>2
  <2>7. \A i \in Used' : \E j \in Present(rows') : rows'[i].seq <= rows'[j].seq
    BY <2>2, <2>3
  <2> QED BY <1>5, <2>5, <2>6, <2>7 DEF SeqOk
<1> QED BY <1>3, <1>4, TableSeqs, EveryStepOnTable

-----------------------------------------------------------------------------
(* The link and the run in flight. *)

LEMMA CursorGrows ==
    ASSUME TypeOK, NEW i \in Id, Receive(i)
    PROVE  cursor' \in Nat /\ cursor <= cursor'
BY DEF TypeOK, HubType, Row, InputType, Receive, CursorAfter

LEMMA LinkStep ==
    ASSUME TypeOK, LinkOk, NoneTravelsEarly, [Next]_vars, BackfillsEnd, ~backfill.full
    PROVE  LinkOk'
<1>t. cursor \in Nat /\ backfill \in Run /\ downlink \in Seq(Packet)
  BY DEF TypeOK, InputType, BackfillType, NetType
<1>1. CASE UNCHANGED <<link, downlink, backfill, connectedOnce, cursor>> /\ (sinceRead' # sinceRead => cursor > 0)
  BY <1>1 DEF LinkOk
<1>2. ASSUME NEW p, EmitToRoom(p), UNCHANGED <<link, backfill, connectedOnce, cursor>>,
             sinceRead' # sinceRead => cursor > 0
      PROVE  LinkOk'
  BY <1>2 DEF LinkOk, EmitToRoom
<1>3. ASSUME NEW t \in Turn, PostTurn(t) PROVE LinkOk'
  <2>1. \/ downlink' = downlink \/ \E i \in Id : EmitToRoom(Message(i))
    BY <1>3 DEF PostTurn
  <2>2. sinceRead' # sinceRead => cursor > 0
    BY <1>3 DEF PostTurn, pastVars
  <2> QED BY <1>1, <1>2, <1>3, <2>1, <2>2 DEF PostTurn, bfVars, inVars
<1>4. ASSUME NEW i \in Id, ReleaseMature(i) \/ \E r \in Request : RequestCancel(r, i) PROVE LinkOk'
  <2>1. downlink' = downlink \/ \E p : EmitToRoom(p)
    BY <1>4 DEF ReleaseMature, RequestCancel
  <2>2. UNCHANGED <<link, backfill, connectedOnce, cursor, sinceRead>>
    BY <1>4 DEF ReleaseMature, RequestCancel, bfVars, inVars, pastVars
  <2> QED BY <1>1, <1>2, <2>1, <2>2
<1>5. CASE ReceiveMessage \/ ReceiveCancel
  <2>1. link = "up" /\ connectedOnce /\ UNCHANGED <<link, backfill, connectedOnce, sinceRead>>
    BY <1>5 DEF LinkOk, ReceiveMessage, ReceiveCancel, bfVars, pastVars
  <2>2. cursor' \in Nat /\ cursor <= cursor'
    <3>1. CASE ReceiveMessage
      <4>1. Head(downlink) \in Packet
        BY <1>t, <3>1 DEF ReceiveMessage
      <4> QED BY <3>1, <4>1, CursorGrows DEF ReceiveMessage, Packet
    <3>2. CASE ReceiveCancel
      BY <1>t, <3>2 DEF ReceiveCancel
    <3> QED BY <1>5, <3>1, <3>2
  <2> QED BY <1>t, <2>1, <2>2 DEF LinkOk, Run
<1>6. CASE HubServesBackfill
  <2>1. backfill'.after = backfill.after /\ backfill.st = "asked"
    BY <1>t, <1>6 DEF HubServesBackfill, Run
  <2> QED BY <1>6, <2>1 DEF HubServesBackfill, LinkOk, netVars, inVars, pastVars
<1>7. CASE BeginPage
  <2>1. (backfill' = NoRun \/ backfill' = [backfill EXCEPT !.st = "loop"]) /\ backfill.st = "answered"
    BY <1>7 DEF BeginPage
  <2>2. backfill'.after <= cursor
    BY <1>t, <2>1 DEF NoRun, Run, LinkOk
  <2>3. link = "up"
    BY <2>1 DEF LinkOk
  <2> QED BY <1>7, <2>2, <2>3 DEF BeginPage, LinkOk, netVars, inVars, pastVars
<1>8. ASSUME NEW i \in Id, PageStep(i) PROVE LinkOk'
  <2>1. cursor' \in Nat /\ cursor <= cursor' /\ rows[i].seq \in Nat
    BY <1>8, CursorGrows DEF PageStep, TypeOK, HubType, Row
  <2>2. backfill'.after <= cursor'
    <3>1. \/ backfill' = [backfill EXCEPT !.page = @ \ {i}] \/ backfill' = NoRun
      BY <1>8 DEF PageStep
    <3>2. backfill' = [backfill EXCEPT !.page = @ \ {i}] => backfill'.after = backfill.after
      BY <1>t DEF Run
    <3> QED BY <1>t, <2>1, <3>1, <3>2 DEF NoRun, LinkOk, Run
  <2>3. link = "up" /\ connectedOnce
    BY <1>8 DEF PageStep, LinkOk
  <2> QED BY <1>t, <1>8, <2>1, <2>2, <2>3 DEF PageStep, LinkOk, netVars, pastVars
<1>9. CASE Connect
  <2>1. backfill' \in {backfill, NoRun, Asking(cursor)}
    BY <1>9 DEF Connect
  <2>2. backfill'.after <= cursor
    <3>1. NoRun.after = 0 /\ Asking(cursor).after = cursor
      BY DEF NoRun, Asking
    <3> QED BY <1>t, <2>1, <3>1 DEF LinkOk
  <2> QED BY <1>9, <2>2 DEF Connect, LinkOk, inVars, pastVars
<1>10. CASE Drop \/ HubRestart
  <2>1. backfill.st = "idle" /\ UNCHANGED backfill
    BY <1>10 DEF BackfillsEnd, Drop, HubRestart
  <2> QED BY <1>10, <2>1 DEF Drop, HubRestart, LinkOk, inVars, pastVars
<1>11. CASE CliRestart
  BY <1>11 DEF CliRestart, LinkOk, NoRun
<1>12. ~BackfillFails
  BY DEF BackfillsEnd, BackfillFails
<1>13. CASE CliNoticesDrop
  BY <1>13 DEF CliNoticesDrop, LinkOk, inVars, pastVars
<1>14. Next => \/ UNCHANGED <<link, downlink, backfill, connectedOnce, cursor, sinceRead>>
               \/ \E t \in Turn : PostTurn(t)
               \/ \E i \in Id : ReleaseMature(i) \/ \E r \in Request : RequestCancel(r, i)
               \/ ReceiveMessage \/ ReceiveCancel \/ HubServesBackfill \/ BeginPage
               \/ \E i \in Id : PageStep(i)
               \/ Connect \/ Drop \/ HubRestart \/ CliRestart \/ BackfillFails \/ CliNoticesDrop
  BY DEF Next, CliStep, BecomeDue, CliPosts, CancelTimesOut, HubReceives, Register, DrainPending,
         TakeTurn, HubNoticesDrop, netVars, bfVars, inVars, pastVars
<1> QED
  BY <1>1, <1>3, <1>4, <1>5, <1>6, <1>7, <1>8, <1>9, <1>10, <1>11, <1>12, <1>13, <1>14
  DEF vars, pastVars

-----------------------------------------------------------------------------
(* A missed turn stays on its way until it is read. *)

LEMMA UsedKeeps ==
    ASSUME TypeOK, TableStep, NEW i \in Used
    PROVE  /\ i \in Used' /\ rows'[i].seq = rows[i].seq /\ rows'[i].local = rows[i].local
           /\ rows'[i].st = "queued" => rows[i].st = "queued"
<1>1. i \in Id /\ rows[i].st # "unused"
  BY DEF Used
<1>2. CASE InsertsNone
  BY <1>1, <1>2, TableAges DEF InsertsNone, Used
<1>3. ASSUME NEW k \in Id, NEW n \in Id, Inserts(k, n)
      PROVE  rows'[i] = rows[i]
  BY <1>1, <1>3 DEF Inserts
<1> QED BY <1>1, <1>2, <1>3, TableSeqs DEF Used

LEMMA OnTheWayIsUsed ==
    ASSUME NoneTravelsEarly
    PROVE  /\ backfill.page \subseteq Used
           /\ \A q \in DOMAIN downlink, j \in Id : downlink[q] = Message(j) => j \in Used
BY DEF NoneTravelsEarly, Travelling, Ripe, Used, Elements

\* Only a POST makes a turn that was not missed a missed one.
LEMMA MissedShrinks ==
    ASSUME TypeOK, TableStep, SeqOk, sinceRead' \subseteq sinceRead,
           Elements(seen) \subseteq Elements(seen')
    PROVE  Missed' \subseteq Missed
<1> SUFFICES ASSUME NEW i \in Missed' PROVE i \in Missed
  OBVIOUS
<1>1. i \in sinceRead \ Elements(seen) /\ rows'[i].st = "queued" /\ rows'[i].local \notin Scheduled
  BY DEF Missed
<1>2. i \in Used
  BY <1>1 DEF SeqOk
<1> QED BY <1>1, <1>2, UsedKeeps DEF Missed

LEMMA CoverKept ==
    ASSUME TypeOK, TableStep, NoneTravelsEarly, NEW i \in Used, Cover(i),
           UNCHANGED <<link, backfill, cursor>>,
           downlink' = downlink \/ \E x \in Packet : downlink' = Append(downlink, x)
    PROVE  Cover(i)'
<1>1. downlink \in Seq(Packet)
  BY DEF TypeOK, NetType
<1>2. rows'[i].seq = rows[i].seq
  BY UsedKeeps
<1>3. \A j \in backfill.page : rows'[j].seq = rows[j].seq
  BY OnTheWayIsUsed, UsedKeeps
<1>4. \A q \in DOMAIN downlink, j \in Id : downlink[q] = Message(j) => rows'[j].seq = rows[j].seq
  BY OnTheWayIsUsed, UsedKeeps
<1>5. DOMAIN downlink \subseteq DOMAIN downlink' /\ \A q \in DOMAIN downlink : downlink'[q] = downlink[q]
  <2>1. ASSUME NEW x \in Packet, downlink' = Append(downlink, x)
        PROVE  DOMAIN downlink \subseteq DOMAIN downlink' /\ \A q \in DOMAIN downlink : downlink'[q] = downlink[q]
    BY <1>1, <2>1
  <2> QED BY <2>1
<1>6. ASSUME NEW p, OlderAhead(i, p) PROVE OlderAhead(i, p)'
  <2>1. 1..(p - 1) \subseteq DOMAIN downlink
    BY <1>1, <1>6 DEF OlderAhead
  <2> QED BY <1>2, <1>4, <1>5, <1>6, <2>1 DEF OlderAhead
<1>7. InFlightInOrder(i) => InFlightInOrder(i)'
  BY <1>2, <1>3, <1>5, <1>6 DEF InFlightInOrder
<1> QED BY <1>2, <1>7 DEF Cover, Fetched, ToBeAsked

\* The packet that is read is the missed turn's, or an older row's.
LEMMA CoverTail ==
    ASSUME TypeOK, TableStep, NoneTravelsEarly, NEW i \in Used, i \notin Elements(seen'), Cover(i),
           UNCHANGED <<link, backfill>>, downlink # <<>>, downlink' = Tail(downlink),
           link = "up",
           \/ cursor' = cursor /\ \A j \in Id : Head(downlink) # Message(j)
           \/ \E j \in Id : /\ Head(downlink) = Message(j) /\ cursor' \in {cursor, rows[j].seq}
                            /\ j \in Elements(seen')
    PROVE  Cover(i)'
<1>1. downlink \in Seq(Packet)
  BY DEF TypeOK, NetType
<1>2. rows'[i].seq = rows[i].seq
  BY UsedKeeps
<1>3. \A j \in backfill.page : rows'[j].seq = rows[j].seq
  BY OnTheWayIsUsed, UsedKeeps
<1>4. \A q \in DOMAIN downlink, j \in Id : downlink[q] = Message(j) => rows'[j].seq = rows[j].seq
  BY OnTheWayIsUsed, UsedKeeps
<1>5. DOMAIN Tail(downlink) = 1..(Len(downlink) - 1) /\ DOMAIN downlink = 1..Len(downlink)
      /\ \A q \in DOMAIN Tail(downlink) : Tail(downlink)[q] = downlink[q + 1]
  BY <1>1
<1>6. ASSUME NEW p, OlderAhead(i, p), cursor < rows[i].seq
      PROVE  OlderAhead(i, p - 1)' /\ p - 1 \in DOMAIN downlink' /\ cursor' < rows[i].seq
  <2>1. p \in 1..Len(downlink) /\ downlink[p] = Message(i)
    BY <1>5, <1>6 DEF OlderAhead
  <2>2. i \in Id /\ downlink[1] = Head(downlink)
    BY <1>1 DEF Used
  <2>3. p # 1
    <3> SUFFICES ASSUME p = 1 PROVE FALSE
      OBVIOUS
    <3>1. \A j \in Id : Message(i) = Message(j) => i = j
      BY DEF Message
    <3> QED BY <2>1, <2>2, <3>1
  <2>4. p - 1 \in DOMAIN downlink' /\ downlink'[p - 1] = Message(i)
    BY <1>5, <2>1, <2>3
  <2>5. cursor' < rows[i].seq
    <3>1. 1 \in 1..(p - 1)
      BY <2>1, <2>3
    <3> QED BY <1>6, <2>2, <3>1 DEF OlderAhead
  <2>6. ASSUME NEW q \in 1..((p - 1) - 1), NEW j \in Id, downlink'[q] = Message(j)
        PROVE  rows'[j].seq < rows'[i].seq
    <3>1. q + 1 \in 1..(p - 1) /\ q + 1 \in DOMAIN downlink /\ q \in DOMAIN Tail(downlink)
      BY <1>5, <2>1, <2>3
    <3>2. downlink[q + 1] = Message(j)
      BY <1>5, <2>6, <3>1
    <3> QED BY <1>2, <1>4, <1>6, <3>1, <3>2 DEF OlderAhead
  <2> QED BY <2>4, <2>5, <2>6 DEF OlderAhead
<1>7. InFlightInOrder(i) => InFlightInOrder(i)'
  <2> SUFFICES ASSUME InFlightInOrder(i) PROVE InFlightInOrder(i)'
    OBVIOUS
  <2>1. PICK p \in DOMAIN downlink : OlderAhead(i, p)
    BY DEF InFlightInOrder
  <2> QED BY <1>2, <1>3, <1>6, <2>1 DEF InFlightInOrder
<1> QED BY <1>2, <1>7 DEF Cover, Fetched, ToBeAsked


LEMMA PostCovered ==
    ASSUME GapInv, NEW t \in Turn, PostTurn(t), TableStep
    PROVE  Covered'
<1>t. TypeOK /\ downlink \in Seq(Packet) /\ NoneTravelsEarly /\ SeqOk
  BY DEF GapInv, TypeOK, NetType
<1>1. PICK k \in Id :
         /\ \/ /\ k \in Existing(rows, t) /\ rows' = rows /\ UNCHANGED pastVars
            \/ /\ IsFresh(rows, k)
               /\ \E n \in Id : IsNextSeq(rows, n) /\ rows' = Inserted(rows, k, t, "user", n)
               /\ sinceRead' = sinceRead \cup (IF cursor > 0 THEN {k} ELSE {})
         /\ IF t \in Scheduled \ due THEN UNCHANGED downlink ELSE EmitToRoom(Message(k))
  BY <1>t DEF PostTurn
<1>2. UNCHANGED <<link, backfill, cursor, seen>>
  BY DEF PostTurn, bfVars, inVars
<1>3. downlink' = downlink \/ \E x \in Packet : downlink' = Append(downlink, x)
  BY <1>1 DEF EmitToRoom, Message, Packet
<1>4. ASSUME NEW i \in Missed PROVE Cover(i)'
  <2>1. i \in Used /\ Cover(i)
    BY DEF GapInv, Covered, SeqOk, Missed
  <2> QED BY <1>t, <1>2, <1>3, <2>1, CoverKept
<1>5. CASE rows' = rows /\ UNCHANGED pastVars
  BY <1>2, <1>4, <1>5 DEF Covered, Missed, pastVars
<1>6. ASSUME NEW n \in Id, IsFresh(rows, k), IsNextSeq(rows, n), rows' = Inserted(rows, k, t, "user", n),
             sinceRead' = sinceRead \cup (IF cursor > 0 THEN {k} ELSE {})
      PROVE  Covered'
  <2>1. rows'[k].seq = n /\ rows'[k].local = t /\ rows[k].st = "unused"
    BY <1>t, <1>6 DEF Inserted, IsFresh, TypeOK, HubType
  <2>2. (\A i \in Used : rows[i].seq < n) /\ cursor < n
    BY <1>t, <1>6, NextSeqIsHighest
  <2>3. ASSUME NEW i \in Missed', i # k PROVE i \in Missed
    <3>1. i \in sinceRead \ Elements(seen) /\ rows'[i] = rows[i]
      BY <1>t, <1>2, <1>6, <2>3 DEF Missed, SeqOk, Used, Inserted
    <3> QED BY <2>3, <3>1 DEF Missed
  <2>4. k \in Missed' => Cover(k)'
    <3> SUFFICES ASSUME k \in Missed' PROVE Cover(k)'
      OBVIOUS
    <3>1. t \notin Scheduled
      BY <2>1 DEF Missed
    <3>2. CASE link # "up"
      BY <1>2, <2>1, <2>2, <3>2 DEF Cover, ToBeAsked
    <3>3. CASE link = "up"
      <4>1. downlink' = Append(downlink, Message(k))
        BY <1>1, <3>1, <3>3 DEF EmitToRoom
      <4>p. PICK p : p = Len(downlink) + 1
        OBVIOUS
      <4>2. /\ p \in DOMAIN downlink' /\ downlink'[p] = Message(k)
            /\ \A q \in 1..(p - 1) : q \in DOMAIN downlink /\ downlink'[q] = downlink[q]
        <5> DEFINE m == Message(k)
        <5>1. m \in Packet
          BY DEF Message, Packet
        <5>2. downlink' = Append(downlink, m)
          BY <4>1
        <5> HIDE DEF m
        <5>3. /\ p \in DOMAIN downlink' /\ downlink'[p] = m
              /\ \A q \in 1..(p - 1) : q \in DOMAIN downlink /\ downlink'[q] = downlink[q]
          BY <1>t, <4>p, <5>1, <5>2
        <5> QED BY <5>3 DEF m
      <4>3. ASSUME NEW q \in 1..(p - 1), NEW j \in Id, downlink'[q] = Message(j)
            PROVE  rows'[j].seq < n
        <5>1. j \in Used
          BY <1>t, <4>2, <4>3, OnTheWayIsUsed
        <5> QED BY <1>t, <2>2, <5>1, UsedKeeps
      <4>4. OlderAhead(k, p)'
        BY <2>1, <4>2, <4>3 DEF OlderAhead
      <4>5. \A j \in backfill'.page : rows'[j].seq < n
        BY <1>t, <1>2, <2>2, OnTheWayIsUsed, UsedKeeps
      <4> QED BY <1>2, <2>1, <2>2, <3>3, <4>2, <4>4, <4>5 DEF Cover, InFlightInOrder
    <3> QED BY <3>2, <3>3
  <2> QED BY <1>4, <2>3, <2>4 DEF Covered
<1> QED BY <1>1, <1>5, <1>6

\* Steps that leave the input of the CLI alone.
LEMMA QuietCovered ==
    ASSUME GapInv, TableStep, UNCHANGED <<link, backfill, cursor, seen, sinceRead>>,
           downlink' = downlink \/ \E x \in Packet : downlink' = Append(downlink, x)
    PROVE  Covered'
<1>1. Missed' \subseteq Missed
  BY MissedShrinks DEF GapInv
<1>2. ASSUME NEW i \in Missed PROVE Cover(i)'
  <2>1. i \in Used /\ Cover(i)
    BY DEF GapInv, Covered, SeqOk, Missed
  <2> QED BY <2>1, CoverKept DEF GapInv
<1> QED BY <1>1, <1>2 DEF Covered

LEMMA ReceiveCovered ==
    ASSUME MaxRows <= FilterCapacity, GapInv, TableStep, ReceiveMessage \/ ReceiveCancel
    PROVE  Covered'
<1>t. downlink \in Seq(Packet) /\ downlink # <<>> /\ seen \in Seq(Id) /\ TypeOK /\ NoneTravelsEarly
      /\ SeqOk
  BY DEF GapInv, TypeOK, NetType, InputType, ReceiveMessage, ReceiveCancel
<1>1. UNCHANGED <<link, backfill, sinceRead>> /\ downlink' = Tail(downlink) /\ link = "up"
  BY <1>t DEF ReceiveMessage, ReceiveCancel, bfVars, pastVars, GapInv, LinkOk
<1>2. /\ Elements(seen) \subseteq Elements(seen')
      /\ \/ cursor' = cursor /\ \A j \in Id : Head(downlink) # Message(j)
         \/ \E j \in Id : /\ Head(downlink) = Message(j) /\ cursor' \in {cursor, rows[j].seq}
                          /\ j \in Elements(seen')
  <2>1. Head(downlink) \in Packet
    BY <1>t
  <2>2. CASE ReceiveMessage
    <3> DEFINE j == Head(downlink).id
    <3>1. j \in Id /\ Head(downlink) = Message(j) /\ Receive(j)
      BY <2>1, <2>2 DEF ReceiveMessage, Packet, Message
    <3> HIDE DEF j
    <3>2. cursor' \in {cursor, rows[j].seq} /\ Elements(seen') = Elements(seen) \cup {j}
      BY <1>t, <3>1, SeenAll DEF Receive, CursorAfter
    <3> QED BY <3>1, <3>2
  <2>3. CASE ReceiveCancel
    <3>0. Head(downlink).kind = "cancel"
      BY <2>3 DEF ReceiveCancel
    <3>1. \A j \in Id : Head(downlink) # Message(j)
      BY <3>0 DEF Message
    <3> QED BY <2>3, <3>1 DEF ReceiveCancel
  <2> QED BY <2>2, <2>3
<1>3. Missed' \subseteq Missed
  BY <1>t, <1>1, <1>2, MissedShrinks
<1>4. ASSUME NEW i \in Missed' PROVE Cover(i)'
  <2>1. i \in Used /\ Cover(i) /\ i \notin Elements(seen')
    BY <1>3 DEF GapInv, Covered, SeqOk, Missed
  <2> QED BY <1>t, <1>1, <1>2, <2>1, CoverTail
<1> QED BY <1>4 DEF Covered

LEMMA ServeCovered ==
    ASSUME GapInv, HubServesBackfill, ~backfill'.full
    PROVE  Covered'
<1>1. UNCHANGED <<rows, due, link, cursor, seen, sinceRead, downlink>> /\ backfill.st = "asked"
  BY DEF HubServesBackfill, hubVars, netVars, inVars, pastVars
<1>2. link = "up" /\ backfill \in Run /\ HubType /\ SeqOk
  BY <1>1 DEF GapInv, LinkOk, TypeOK, BackfillType
<1>3. backfill'.st = "answered" /\ backfill'.page = Page(rows, due, backfill.after)
      /\ backfill'.full = (Cardinality(Page(rows, due, backfill.after)) = PageLimit)
  BY <1>2 DEF HubServesBackfill, Run
<1>4. backfill'.page = DeliverableAfter(rows, due, backfill.after)
  BY <1>2, <1>3, WholePage
<1>5. ASSUME NEW i \in Missed PROVE Cover(i)'
  <2>1. Cover(i) /\ i \in Id /\ rows[i].st = "queued" /\ rows[i].local \notin Scheduled
    BY DEF GapInv, Covered, Missed, SeqOk, Used
  <2>2. backfill.after < rows[i].seq
    BY <1>1, <1>2, <2>1 DEF Cover, Fetched, InFlightInOrder, ToBeAsked, GapInv, LinkOk, TypeOK,
          InputType, HubType, Row, Run
  <2>3. i \in backfill'.page
    BY <1>4, <2>1, <2>2 DEF DeliverableAfter, Present, Future
  <2> QED BY <1>1, <1>2, <1>3, <2>3 DEF Cover, Fetched
<1> QED BY <1>1, <1>5 DEF Covered, Missed

LEMMA PageCovered ==
    ASSUME MaxRows <= FilterCapacity, GapInv, ~backfill.full, BeginPage \/ \E j \in Id : PageStep(j)
    PROVE  Covered'
<1>t. backfill \in Run /\ seen \in Seq(Id) /\ cursor \in Nat
      /\ \A i \in Id : rows[i].seq \in Nat
  BY DEF GapInv, TypeOK, BackfillType, InputType, HubType, Row
<1>1. UNCHANGED <<rows, link, sinceRead, downlink>> /\ link = "up" /\ backfill.st \in {"answered", "loop"}
  BY DEF BeginPage, PageStep, hubVars, netVars, pastVars, GapInv, LinkOk
<1>2. CASE BeginPage
  <2>1. \/ backfill.page = {} /\ backfill' = NoRun
        \/ backfill'.st = "loop" /\ backfill'.page = backfill.page
    BY <1>t, <1>2 DEF BeginPage, Run
  <2>2. UNCHANGED <<seen, cursor>>
    BY <1>2 DEF BeginPage, inVars
  <2>3. ASSUME NEW i \in Missed PROVE Cover(i)'
    <3>1. Cover(i) /\ ~ToBeAsked(i)
      BY <1>1 DEF GapInv, Covered, ToBeAsked
    <3>2. Fetched(i) => Fetched(i)'
      BY <1>1, <2>1 DEF Fetched
    <3>3. InFlightInOrder(i) => InFlightInOrder(i)'
      <4>1. backfill'.page \subseteq backfill.page
        BY <2>1 DEF NoRun
      <4> QED BY <1>1, <2>2, <4>1 DEF InFlightInOrder, OlderAhead
    <3> QED BY <3>1, <3>2, <3>3 DEF Cover
  <2> QED BY <1>1, <2>2, <2>3 DEF Covered, Missed
<1>3. ASSUME NEW j \in Id, PageStep(j) PROVE Covered'
  <2>1. Receive(j) /\ j \in backfill.page /\ backfill.st = "loop"
    BY <1>3 DEF PageStep
  <2>2. \/ backfill.page # {j} /\ backfill' = [backfill EXCEPT !.page = @ \ {j}]
        \/ backfill.page = {j} /\ backfill' = NoRun
    BY <1>3 DEF PageStep
  <2>3. backfill'.page = backfill.page \ {j} /\ (backfill.page # {j} => backfill'.st = "loop")
    BY <1>t, <2>1, <2>2 DEF NoRun, Run
  <2>4. cursor' \in {cursor, rows[j].seq} /\ Elements(seen') = Elements(seen) \cup {j}
    BY <1>t, <2>1, SeenAll DEF Receive, CursorAfter
  <2>5. ASSUME NEW i \in Missed, i # j PROVE Cover(i)'
    <3>1. Cover(i) /\ ~ToBeAsked(i)
      BY <1>1 DEF GapInv, Covered, ToBeAsked
    <3>2. Fetched(i) => Fetched(i)'
      BY <1>1, <2>1, <2>3, <2>5 DEF Fetched
    <3>3. InFlightInOrder(i) => InFlightInOrder(i)'
      BY <1>1, <2>1, <2>3, <2>4 DEF InFlightInOrder, OlderAhead
    <3> QED BY <3>1, <3>2, <3>3 DEF Cover
  <2>6. \A i \in Missed' : i \in Missed /\ i # j
    BY <1>1, <2>4 DEF Missed
  <2> QED BY <2>5, <2>6 DEF Covered
<1> QED BY <1>2, <1>3

LEMMA LinkCovered ==
    ASSUME GapInv, BackfillsEnd, Connect \/ Drop \/ HubRestart \/ CliNoticesDrop
    PROVE  Covered'
<1>t. cursor \in Nat /\ \A i \in Id : rows[i].seq \in Nat
  BY DEF GapInv, TypeOK, InputType, HubType, Row
<1>1. UNCHANGED <<rows, cursor, seen, sinceRead>>
  BY DEF Connect, Drop, HubRestart, CliNoticesDrop, hubVars, inVars, pastVars
<1>2. \A i \in Missed : Cover(i) /\ i \in sinceRead
  BY DEF GapInv, Covered, Missed
<1>3. CASE Connect
  <2>1. link = "down" /\ link' = "up" /\ backfill.st = "idle"
    BY <1>3 DEF Connect, GapInv, LinkOk
  <2>2. ASSUME NEW i \in Missed PROVE Cover(i)'
    <3>1. cursor < rows[i].seq
      BY <1>2, <2>1 DEF Cover, Fetched, InFlightInOrder, ToBeAsked
    <3>2. cursor > 0 /\ cursor # 0 /\ connectedOnce
      BY <1>t, <1>2 DEF GapInv, LinkOk
    <3>3. backfill' = Asking(cursor)
      BY <1>3, <2>1, <3>2 DEF Connect
    <3>4. backfill'.st = "asked" /\ backfill'.after = cursor
      BY <3>3 DEF Asking, NoRun
    <3> QED BY <1>1, <2>1, <3>1, <3>4 DEF Cover, Fetched
  <2> QED BY <1>1, <2>2 DEF Covered, Missed
<1>4. CASE Drop \/ HubRestart \/ CliNoticesDrop
  <2>1. backfill.st = "idle" /\ link' # "up"
    BY <1>4 DEF BackfillsEnd, Drop, HubRestart, CliNoticesDrop, GapInv, LinkOk
  <2>2. ASSUME NEW i \in Missed PROVE Cover(i)'
    <3>1. cursor < rows[i].seq
      BY <1>2, <2>1 DEF Cover, Fetched, InFlightInOrder, ToBeAsked
    <3> QED BY <1>1, <2>1, <3>1 DEF Cover, ToBeAsked
  <2> QED BY <1>1, <2>2 DEF Covered, Missed
<1> QED BY <1>3, <1>4

LEMMA GapStep ==
    ASSUME MaxRows <= FilterCapacity, GapInv, ~backfill.full, ~backfill'.full,
           [Next]_vars, BackfillsEnd, YoungestStays
    PROVE  GapInv'
<1>1. TypeOK' /\ QueuedAreTurns' /\ NoneTravelsEarly'
  BY NextType, QueuedAreTurnsStep, RipeStays, EveryStepTravels DEF GapInv, NoneTravelsEarly
<1>2. LinkOk' /\ SeqOk' /\ TableStep
  BY LinkStep, SeqStep, EveryStepOnTable DEF GapInv
<1>3. Covered'
  <2>1. ASSUME NEW t \in Turn, PostTurn(t) PROVE Covered'
    BY <1>2, <2>1, PostCovered
  <2>2. CASE \/ \E t \in Turn : BecomeDue(t)
             \/ \E role \in {"user", "agent"} : CliPosts(role)
             \/ \E r \in Request : CancelTimesOut(r)
             \/ HubReceives \/ Register \/ DrainPending \/ TakeTurn \/ HubNoticesDrop
             \/ UNCHANGED vars
    <3>1. UNCHANGED <<link, backfill, cursor, seen, sinceRead, downlink>>
      BY <2>2 DEF BecomeDue, CliPosts, CancelTimesOut, HubReceives, Register, DrainPending, TakeTurn,
             HubNoticesDrop, netVars, bfVars, inVars, pastVars, vars
    <3> QED BY <1>2, <3>1, QuietCovered
  <2>3. ASSUME NEW i \in Id, ReleaseMature(i) \/ \E r \in Request : RequestCancel(r, i)
        PROVE  Covered'
    <3>1. downlink' = downlink \/ \E x \in Packet : downlink' = Append(downlink, x)
      BY <2>3 DEF ReleaseMature, RequestCancel, EmitToRoom, Message, Cancel, Packet
    <3>2. UNCHANGED <<link, backfill, cursor, seen, sinceRead>>
      BY <2>3 DEF ReleaseMature, RequestCancel, bfVars, inVars, pastVars
    <3> QED BY <1>2, <3>1, <3>2, QuietCovered
  <2>4. CASE CliRestart
    BY <2>4 DEF CliRestart, Covered, Missed
  <2>5. ~BackfillFails
    BY DEF BackfillsEnd, BackfillFails
  <2> QED
    BY <1>2, <2>1, <2>2, <2>3, <2>4, <2>5, ReceiveCovered, ServeCovered, PageCovered, LinkCovered
    DEF Next, CliStep
<1> QED BY <1>1, <1>2, <1>3 DEF GapInv

LEMMA InitGap == Init => GapInv
<1> SUFFICES ASSUME Init PROVE GapInv
  OBVIOUS
<1>1. TypeOK /\ QueuedAreTurns /\ NoneTravelsEarly
  BY InitType, InitQueuedAreTurns, InitOnce DEF OnceInv
<1>2. LinkOk
  BY DEF Init, LinkOk, NoRun
<1>3. SeqOk /\ Covered
  BY DEF Init, SeqOk, Covered, Missed, Used, Present, EmptyTable
<1> QED BY <1>1, <1>2, <1>3 DEF GapInv

(***************************************************************************)
(* A CLI that has read a message and is caught up has read every immediate *)
(* turn inserted since, over any number of lost transports, restarts of    *)
(* the hub and of the CLI, retried POSTs and cancels: run reconnect's      *)
(* property.  It takes backfills that end, pages that are not full, and a  *)
(* youngest row that is not cancelled, which the code does not ensure.     *)
(***************************************************************************)
THEOREM ReconnectsLeaveNoGap ==
    ASSUME MaxRows <= FilterCapacity
    PROVE  Spec /\ [](~backfill.full) /\ [][BackfillsEnd /\ YoungestStays]_vars
             => []ReconnectPicksUp
<1>1. GapInv => ReconnectPicksUp
  <2> SUFFICES ASSUME GapInv, CaughtUp, NEW i \in sinceRead \ Elements(seen),
                      rows[i].st = "queued", rows[i].local \notin Scheduled
               PROVE  FALSE
    BY DEF ReconnectPicksUp
  <2>1. Cover(i)
    BY DEF GapInv, Covered, Missed
  <2> QED BY <2>1 DEF CaughtUp, Cover, Fetched, InFlightInOrder, ToBeAsked
<1>2. GapInv /\ ~backfill.full /\ (~backfill.full)' /\ [Next]_vars /\ [BackfillsEnd /\ YoungestStays]_vars
        => GapInv'
  <2>1. GapInv /\ UNCHANGED vars => BackfillsEnd /\ YoungestStays
    <3> SUFFICES ASSUME GapInv, UNCHANGED vars PROVE BackfillsEnd /\ YoungestStays
      OBVIOUS
    <3>1. rows' = rows /\ faults' = faults /\ faults \in [FaultKind -> Nat]
      BY DEF vars, GapInv, TypeOK, FaultsType
    <3>2. \A f \in FaultKind : ~Fault(f)
      BY <3>1 DEF Fault
    <3> QED BY <3>1, <3>2 DEF BackfillsEnd, Drop, HubRestart, BackfillFails, YoungestStays, FaultKind
  <2> QED BY <2>1, GapStep
<1> QED BY <1>1, <1>2, InitGap, PTL DEF Spec

=============================================================================
