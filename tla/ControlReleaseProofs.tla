------------------------ MODULE ControlReleaseProofs ------------------------
(***************************************************************************)
(* What TLAPS proves of ControlRelease for every number of turns, release  *)
(* requests and faults and every length of the time-outs: the type         *)
(* invariant, the quiet of an inactive session, the marker of a thread     *)
(* that was given away, what the answer "success" means, and that an       *)
(* accepted hand-off abandons no turn that waits.                          *)
(***************************************************************************)
EXTENDS ControlRelease, SequenceTheorems, TLAPS

USE ReleaseAssumption DEF ReleaseAssumption

-----------------------------------------------------------------------------
(* Type correctness.                                                       *)

LEMMA Bounds ==
    /\ GraceTicks \in Nat /\ GraceTicks # 0
    /\ ExpiryTicks \in Nat /\ RpcTicks \in Nat /\ WaitTicks \in Nat
    /\ OldAge \in Nat /\ OldAge > ExpiryTicks
    /\ MaxCalls \in Nat /\ MaxBreaks \in Nat /\ MaxStalls \in Nat /\ MaxBacklog \in Nat
BY DEF OldAge

LEMMA PacketTypes ==
    /\ \A b \in BOOLEAN : Alive(b) \in Packet
    /\ \A t \in Turn : Consumed(t) \in Packet
    /\ End \in Packet /\ Register \in Packet
    /\ \A c \in 1..MaxCalls, b \in BOOLEAN : Reply(c, b) \in Packet
    /\ \A t \in Turn : Deliver(t) \in Request
    /\ \A c \in 1..MaxCalls : Handoff(c) \in Request
<1>1. \A b \in BOOLEAN : Alive(b) \in Packet
  <2>1. 0 \in 0..OldAge
    BY Bounds
  <2> QED BY <2>1, Zenon DEF Alive, Packet
<1>2. (\A t \in Turn : Consumed(t) \in Packet) /\ End \in Packet /\ Register \in Packet
  BY Zenon DEF Consumed, End, Register, Packet
<1>3. \A c \in 1..MaxCalls, b \in BOOLEAN : Reply(c, b) \in Packet
  BY Zenon DEF Reply, Packet
<1>4. /\ \A t \in Turn : Deliver(t) \in Request
      /\ \A c \in 1..MaxCalls : Handoff(c) \in Request
  BY Zenon DEF Deliver, Handoff, Request
<1> QED BY <1>1, <1>2, <1>3, <1>4

LEMMA PacketFields ==
    /\ \A p \in Packet : p.kind = "alive" => p.thinking \in BOOLEAN /\ p.age \in 0..OldAge
    /\ \A p \in Packet : p.kind = "consumed" => p.turn \in Turn
    /\ \A p \in Packet : p.kind = "reply" => p.call \in 1..MaxCalls /\ p.ok \in BOOLEAN
    /\ \A p \in Packet : p.kind \in {"alive", "consumed", "end", "register", "reply"}
    /\ \A r \in Request : r.kind = "turn" => r.turn \in Turn
    /\ \A r \in Request : r.kind = "handoff" => r.call \in 1..MaxCalls
<1>1. /\ \A p \in Packet : p.kind = "alive" => p.thinking \in BOOLEAN /\ p.age \in 0..OldAge
      /\ \A p \in Packet : p.kind = "consumed" => p.turn \in Turn
      /\ \A p \in Packet : p.kind = "reply" => p.call \in 1..MaxCalls /\ p.ok \in BOOLEAN
      /\ \A p \in Packet : p.kind \in {"alive", "consumed", "end", "register", "reply"}
  BY DEF Packet
<1>2. /\ \A r \in Request : r.kind = "turn" => r.turn \in Turn
      /\ \A r \in Request : r.kind = "handoff" => r.call \in 1..MaxCalls
  BY DEF Request
<1> QED BY <1>1, <1>2

LEMMA HeadAndTail ==
    ASSUME NEW S, NEW s \in Seq(S), s # <<>>
    PROVE  Head(s) \in S /\ Tail(s) \in Seq(S)
  OBVIOUS

LEMMA Frames ==
    /\ PresenceType /\ UNCHANGED presence => PresenceType'
    /\ ReleaseType /\ UNCHANGED <<external, rows, registered, call, answer>> => ReleaseType'
    /\ CliType /\ UNCHANGED cliVars => CliType'
    /\ NetType /\ UNCHANGED <<netVars, faults>> => NetType'
<1>1. PresenceType /\ UNCHANGED presence => PresenceType'
  BY DEF PresenceType, presence
<1>2. ReleaseType /\ UNCHANGED <<external, rows, registered, call, answer>> => ReleaseType'
  BY DEF ReleaseType
<1>3. CliType /\ UNCHANGED cliVars => CliType'
  BY DEF CliType, cliVars
<1>4. NetType /\ UNCHANGED <<netVars, faults>> => NetType'
  BY DEF NetType, netVars
<1> QED BY <1>1, <1>2, <1>3, <1>4

LEMMA LinesAppended ==
    ASSUME NetType, NEW p \in Packet
    PROVE  /\ uplink \in Seq(Packet) /\ Append(uplink, p) \in Seq(Packet)
           /\ unsent \in Seq(Packet) /\ Append(unsent, p) \in Seq(Packet)
<1>1. uplink \in Seq(Packet) /\ unsent \in Seq(Packet)
  BY DEF NetType
<1> QED BY <1>1

LEMMA EmitType ==
    ASSUME NetType, NEW p \in Packet, Emit(p)
    PROVE  uplink' \in Seq(Packet) /\ unsent' \in Seq(Packet)
<1>1. CASE link = "down"
  BY <1>1, LinesAppended DEF Emit
<1>2. CASE link # "down"
  BY <1>2, LinesAppended DEF Emit
<1> QED BY <1>1, <1>2

LEMMA EmitVolatileType ==
    ASSUME NetType, NEW p \in Packet, EmitVolatile(p)
    PROVE  uplink' \in Seq(Packet) /\ unsent' \in Seq(Packet)
BY LinesAppended DEF EmitVolatile

LEMMA OlderType ==
    ASSUME NEW p \in Packet
    PROVE  Older(p) \in Packet
<1>1. CASE p.kind # "alive"
  BY <1>1 DEF Older
<1>2. CASE p.kind = "alive"
  <2>1. /\ p \in [kind : {"alive"}, thinking : BOOLEAN, age : 0..OldAge]
        /\ p.age \in 0..OldAge
    BY <1>2 DEF Packet
  <2>2. Lesser(p.age + 1, OldAge) \in 0..OldAge
    BY <2>1, Bounds DEF Lesser
  <2> DEFINE n == Lesser(p.age + 1, OldAge)
  <2>3. Older(p) = [p EXCEPT !.age = n]
    BY <1>2 DEF Older
  <2>4. n \in 0..OldAge
    BY <2>2
  <2> HIDE DEF n
  <2>5. [p EXCEPT !.age = n] \in [kind : {"alive"}, thinking : BOOLEAN, age : 0..OldAge]
    BY <2>1, <2>4
  <2> QED BY <2>3, <2>5 DEF Packet
<1> QED BY <1>1, <1>2

LEMMA AgedType ==
    ASSUME NEW s \in Seq(Packet)
    PROVE  [k \in DOMAIN s |-> Older(s[k])] \in Seq(Packet)
<1> DEFINE f == [k \in DOMAIN s |-> Older(s[k])]
<1>1. Len(s) \in Nat /\ DOMAIN s = 1..Len(s) /\ \A k \in DOMAIN s : s[k] \in Packet
  OBVIOUS
<1>2. f \in [1..Len(s) -> Packet]
  BY <1>1, OlderType
<1> HIDE DEF f
<1>3. f \in Seq(Packet)
  BY <1>1, <1>2
<1> QED BY <1>3 DEF f

LEMMA MarkQueuedType ==
    ASSUME PresenceType, MarkQueued
    PROVE  PresenceType'
<1>1. GraceTicks \in 0..GraceTicks
  BY Bounds
<1> QED BY <1>1 DEF PresenceType, MarkQueued, presence

LEMMA HearAliveType ==
    ASSUME PresenceType, NEW p \in Packet, p.kind = "alive", HearAlive(p)
    PROVE  PresenceType'
<1>1. p.age \in 0..OldAge /\ age \in 0..OldAge /\ grace \in 0..GraceTicks
  BY PacketFields DEF PresenceType
<1>2. age' \in 0..OldAge
  BY <1>1, Bounds DEF HearAlive, Lesser
<1>3. grace' \in 0..GraceTicks
  BY <1>1, Bounds DEF HearAlive
<1>4. active' \in BOOLEAN /\ spin' \in BOOLEAN
  BY Zenon DEF HearAlive, Spins
<1> QED BY <1>2, <1>3, <1>4 DEF PresenceType

LEMMA GoQuietType ==
    ASSUME PresenceType, GoQuiet
    PROVE  PresenceType'
<1>1. 0 \in 0..GraceTicks
  BY Bounds
<1> QED BY <1>1 DEF PresenceType, GoQuiet

LEMMA HearReplyType ==
    ASSUME ReleaseType, NEW p, HearReply(p), UNCHANGED <<rows, registered>>
    PROVE  ReleaseType'
<1>1. call \in Call /\ external \in BOOLEAN
  BY DEF ReleaseType
<1>2. /\ [call EXCEPT !.st = "idle", !.left = 0] \in Call
      /\ [call EXCEPT !.st = "waiting", !.left = WaitTicks] \in Call
  BY <1>1, Bounds DEF Call
<1>3. external' \in BOOLEAN
  BY <1>1 DEF HearReply, RolledBack
<1>4. call' \in Call /\ answer' \in {"none", "offline", "error", "success"}
  BY <1>1, <1>2 DEF HearReply, Ends, ReleaseType
<1> QED BY <1>3, <1>4 DEF ReleaseType

LEMMA PairsAreSequences ==
    ASSUME NEW S, NEW x \in S, NEW y \in S
    PROVE  <<x, y>> \in Seq(S)
  OBVIOUS

LEMMA InitType == Init => TypeOK
<1> SUFFICES ASSUME Init PROVE TypeOK
  OBVIOUS
<1>1. active = FALSE /\ age = OldAge /\ spin = FALSE /\ grace = 0
  BY Zenon DEF Init
<1>2. PresenceType
  <2>1. OldAge \in 0..OldAge /\ 0 \in 0..GraceTicks
    BY Bounds
  <2> QED BY <1>1, <2>1, Zenon DEF PresenceType
<1>3. /\ external = FALSE /\ registered = FALSE /\ answer = "none"
      /\ rows = [t \in Turn |-> "none"] /\ call = [st |-> "idle", id |-> 0, left |-> 0]
  BY Zenon DEF Init
<1>4. ReleaseType
  <2>1. /\ [st |-> "idle", id |-> 0, left |-> 0] \in Call
        /\ [t \in Turn |-> "none"] \in [Turn -> {"none", "accepted", "queued", "invoked"}]
    BY Bounds DEF Call
  <2> QED BY <1>3, <2>1, Zenon DEF ReleaseType
<1>5. /\ proc = "running" /\ chain = <<>> /\ queue = <<>> /\ seen = {} /\ turn = NoTurn
      /\ thinking = FALSE /\ handed = FALSE /\ beat = FALSE
  BY Zenon DEF Init
<1>6. CliType
  <2>1. <<>> \in Seq(Turn)
    OBVIOUS
  <2> QED BY <1>5, <2>1, Zenon DEF CliType
<1>7. /\ link = "up" /\ unsent = <<>> /\ downlink = <<>>
      /\ faults = [breaks |-> 0, stalls |-> 0] /\ uplink = <<Register, Alive(FALSE)>>
  BY Zenon DEF Init
<1>8. uplink \in Seq(Packet)
  <2>1. Register \in Packet /\ Alive(FALSE) \in Packet
    BY PacketTypes, Zenon
  <2> QED BY <1>7, <2>1, PairsAreSequences, Zenon
<1>9. faults \in [{"breaks", "stalls"} -> Nat] /\ <<>> \in Seq(Packet) /\ <<>> \in Seq(Request)
  <2>1. faults = [breaks |-> 0, stalls |-> 0]
    BY <1>7, Zenon
  <2> QED BY <2>1
<1>10. NetType
  BY <1>7, <1>8, <1>9, Zenon DEF NetType
<1> QED BY <1>2, <1>4, <1>6, <1>10 DEF TypeOK

\* The steps of the hub on its own state.
LEMMA HubStepType ==
    ASSUME TypeOK,
           \/ Expire \/ RpcTimesOut \/ WaitEnds \/ ReleaseOffline \/ Release
           \/ \E t \in Turn : AcceptPost(t) \/ PostTurn(t)
    PROVE  TypeOK'
<1> USE DEF TypeOK
<1>1. call \in Call /\ [call EXCEPT !.st = "idle", !.left = 0] \in Call
  BY DEF ReleaseType, Call
<1>2. CASE Expire
  BY <1>2, GoQuietType, Frames DEF Expire
<1>3. CASE RpcTimesOut
  <2>1. ReleaseType'
    BY <1>1, <1>3 DEF RpcTimesOut, ReplyOverdue, Ends, ReleaseType
  <2> QED BY <2>1, <1>3, Frames DEF RpcTimesOut
<1>4. CASE WaitEnds
  <2>1. ReleaseType'
    BY <1>1, <1>4 DEF WaitEnds, Ends, ReleaseType
  <2> QED BY <2>1, <1>4, Frames DEF WaitEnds
<1>5. CASE ReleaseOffline
  <2>1. ReleaseType'
    BY <1>5 DEF ReleaseOffline, ReleaseType
  <2> QED BY <2>1, <1>5, Frames DEF ReleaseOffline
<1>6. CASE Release
  <2>1. call.id + 1 \in 1..MaxCalls /\ call.id + 1 \in 0..MaxCalls
    BY <1>1, <1>6, Bounds DEF Release, Call
  <2>2. /\ [st |-> "asked", id |-> call.id + 1, left |-> RpcTicks] \in Call
        /\ [call EXCEPT !.id = @ + 1] \in Call
    BY <1>1, <2>1, Bounds DEF Call
  <2>3. ReleaseType'
    BY <1>6, <2>2 DEF Release, ReleaseType, RolledBack
  <2>4. Handoff(call.id + 1) \in Request
    BY <2>1, PacketTypes
  <2>5. downlink \in Seq(Request) /\ Append(downlink, Handoff(call.id + 1)) \in Seq(Request)
    BY <2>4 DEF NetType
  <2>6. downlink' \in Seq(Request)
    BY <1>6, <2>5 DEF Release
  <2>7. NetType'
    BY <1>6, <2>6 DEF Release, NetType
  <2> QED BY <1>6, <2>3, <2>7, Frames DEF Release
<1>7. ASSUME NEW t \in Turn, AcceptPost(t) PROVE TypeOK'
  <2>1. ReleaseType'
    BY <1>7 DEF AcceptPost, ReleaseType
  <2> QED BY <2>1, <1>7, Frames DEF AcceptPost
<1>8. ASSUME NEW t \in Turn, PostTurn(t) PROVE TypeOK'
  <2>1. ReleaseType'
    BY <1>8 DEF PostTurn, ReleaseType
  <2>2. PresenceType'
    BY <1>8, MarkQueuedType, Frames DEF PostTurn
  <2>3. Deliver(t) \in Request
    BY PacketTypes
  <2>4. downlink \in Seq(Request) /\ Append(downlink, Deliver(t)) \in Seq(Request)
    BY <2>3 DEF NetType
  <2>5. downlink' \in Seq(Request)
    BY <1>8, <2>4 DEF PostTurn
  <2>6. NetType'
    BY <1>8, <2>5 DEF PostTurn, NetType
  <2> QED BY <1>8, <2>1, <2>2, <2>6, Frames DEF PostTurn
<1> QED BY <1>2, <1>3, <1>4, <1>5, <1>6, <1>7, <1>8

LEMMA HubReceivesType ==
    ASSUME TypeOK, HubReceives
    PROVE  TypeOK'
<1> DEFINE p == Head(uplink)
<1>1. p \in Packet /\ Tail(uplink) \in Seq(Packet)
  BY HeadAndTail DEF TypeOK, NetType, HubReceives
<1>2. NetType'
  BY <1>1 DEF TypeOK, NetType, HubReceives
<1>3. CliType'
  BY Frames DEF TypeOK, HubReceives
<1>4. PresenceType' /\ ReleaseType'
  <2>1. CASE p.kind = "alive"
    <3>1. HearAlive(p) /\ UNCHANGED <<external, rows, registered, call, answer>>
      BY <2>1 DEF HubReceives
    <3> HIDE DEF p
    <3> QED BY <1>1, <2>1, <3>1, HearAliveType, Frames DEF TypeOK
  <2>2. CASE p.kind = "end"
    <3>1. HearEnd /\ UNCHANGED <<external, rows, registered, call, answer>>
      BY <2>2 DEF HubReceives
    <3> HIDE DEF p
    <3> QED BY <3>1, GoQuietType, Frames DEF HearEnd, TypeOK
  <2>3. CASE p.kind = "consumed"
    <3>1. /\ rows' = [rows EXCEPT ![p.turn] = "invoked"]
          /\ UNCHANGED <<presence, external, registered, call, answer>>
      BY <2>3 DEF HubReceives
    <3>2. p.turn \in Turn
      BY <1>1, <2>3, PacketFields
    <3> HIDE DEF p
    <3>3. ReleaseType'
      BY <3>1, <3>2 DEF TypeOK, ReleaseType
    <3> QED BY <3>1, <3>3, Frames DEF TypeOK
  <2>4. CASE p.kind = "register"
    <3>1. registered' = TRUE /\ UNCHANGED <<presence, external, rows, call, answer>>
      BY <2>4 DEF HubReceives
    <3> HIDE DEF p
    <3>2. ReleaseType'
      BY <3>1 DEF TypeOK, ReleaseType
    <3> QED BY <3>1, <3>2, Frames DEF TypeOK
  <2>5. CASE p.kind = "reply"
    <3>1. HearReply(p) /\ UNCHANGED <<presence, rows, registered>>
      BY <2>5 DEF HubReceives
    <3> HIDE DEF p
    <3> QED BY <3>1, HearReplyType, Frames DEF TypeOK
  <2> QED BY <1>1, <2>1, <2>2, <2>3, <2>4, <2>5, PacketFields
<1> QED BY <1>2, <1>3, <1>4 DEF TypeOK

\* What leaves the hub's state alone.
LEMMA CliStepType ==
    ASSUME TypeOK, CliStep \/ Quit \/ Crash
    PROVE  TypeOK'
<1> USE DEF TypeOK
<1>1. Alive(thinking) \in Packet /\ Alive(TRUE) \in Packet /\ Alive(FALSE) \in Packet
  <2>1. thinking \in BOOLEAN
    BY DEF CliType
  <2> QED BY <2>1, PacketTypes, Zenon
<1>2. CASE KeepAlive
  <2>1. uplink' \in Seq(Packet) /\ unsent' \in Seq(Packet)
    BY <1>1, <1>2, EmitVolatileType DEF KeepAlive
  <2>2. NetType' /\ CliType'
    BY <1>2, <2>1 DEF KeepAlive, NetType, CliType
  <2> QED BY <1>2, <2>2, Frames DEF KeepAlive, hubVars
<1>3. CASE ReceiveTurn
  <2>1. Head(downlink) \in Request /\ Tail(downlink) \in Seq(Request)
    BY <1>3, HeadAndTail DEF ReceiveTurn, NetType
  <2>2. Head(downlink).turn \in Turn
    BY <1>3, <2>1, PacketFields DEF ReceiveTurn
  <2>3. CliType'
    BY <1>3, <2>2 DEF ReceiveTurn, Read, CliType
  <2>4. NetType'
    BY <1>3, <2>1 DEF ReceiveTurn, NetType
  <2> QED BY <1>3, <2>3, <2>4, Frames DEF ReceiveTurn, hubVars
<1>4. ASSUME NEW t \in Turn, BackfillTurn(t) PROVE TypeOK'
  <2>1. CliType'
    BY <1>4 DEF BackfillTurn, Read, CliType
  <2> QED BY <1>4, <2>1, Frames DEF BackfillTurn, hubVars
<1>12. CASE QueueTurn
  <2> DEFINE t == Head(chain)
  <2>1. t \in Turn /\ Tail(chain) \in Seq(Turn)
    BY <1>12, HeadAndTail DEF QueueTurn, CliType
  <2>2. chain' = Tail(chain) /\ UNCHANGED <<hubVars, faults, link, downlink>>
    BY <1>12 DEF QueueTurn
  <2>3. Consumed(t) \in Packet
    BY <2>1, PacketTypes
  <2>4. uplink' \in Seq(Packet) /\ unsent' \in Seq(Packet)
    <3>1. Emit(Consumed(t)) \/ UNCHANGED <<uplink, unsent>>
      BY <1>12 DEF QueueTurn
    <3> HIDE DEF t
    <3> QED BY <2>3, <3>1, EmitType DEF NetType
  <2>5. queue' \in Seq(Turn)
    <3>1. queue' = queue \/ queue' = Append(queue, t) \/ queue' = <<t>>
      BY <1>12 DEF QueueTurn
    <3> HIDE DEF t
    <3>2. queue \in Seq(Turn) /\ t \in Turn
      BY <2>1 DEF CliType
    <3>3. Append(queue, t) \in Seq(Turn) /\ <<t>> \in Seq(Turn)
      BY <3>2
    <3> QED BY <3>1, <3>2, <3>3
  <2>6. NetType'
    BY <2>2, <2>4 DEF NetType
  <2>7. UNCHANGED <<proc, seen, turn, thinking, handed, beat>>
    BY <1>12 DEF QueueTurn
  <2>8. CliType'
    BY <2>1, <2>2, <2>5, <2>7 DEF CliType
  <2> QED BY <2>2, <2>6, <2>8, Frames DEF hubVars
<1>5. CASE TakeTurn
  <2>1. Head(queue) \in Turn /\ Tail(queue) \in Seq(Turn)
    BY <1>5, HeadAndTail DEF TakeTurn, CliType
  <2>2. Consumed(Head(queue)) \in Packet
    BY <2>1, PacketTypes
  <2>3. uplink' \in Seq(Packet) /\ unsent' \in Seq(Packet)
    BY <1>5, <2>2, EmitType DEF TakeTurn
  <2>4. NetType'
    BY <1>5, <2>3 DEF TakeTurn, NetType
  <2>5. CliType'
    BY <1>5, <2>1 DEF TakeTurn, CliType
  <2> QED BY <1>5, <2>4, <2>5, Frames DEF TakeTurn, hubVars
<1>6. CASE AgentStarts
  <2>1. uplink' \in Seq(Packet) /\ unsent' \in Seq(Packet)
    BY <1>1, <1>6, EmitVolatileType DEF AgentStarts
  <2>2. NetType' /\ CliType'
    BY <1>6, <2>1 DEF AgentStarts, NetType, CliType
  <2> QED BY <1>6, <2>2, Frames DEF AgentStarts, hubVars
<1>7. CASE TurnEnds
  <2>1. uplink' \in Seq(Packet) /\ unsent' \in Seq(Packet)
    BY <1>1, <1>7, EmitVolatileType DEF TurnEnds
  <2>2. NetType' /\ CliType'
    BY <1>7, <2>1 DEF TurnEnds, NetType, CliType
  <2> QED BY <1>7, <2>2, Frames DEF TurnEnds, hubVars
<1>8. CASE ReceiveHandoff
  <2>1. Head(downlink) \in Request /\ Tail(downlink) \in Seq(Request)
    BY <1>8, HeadAndTail DEF ReceiveHandoff, NetType
  <2>2. Head(downlink).call \in 1..MaxCalls
    BY <1>8, <2>1, PacketFields DEF ReceiveHandoff
  <2>3. Reply(Head(downlink).call, ~Refuses) \in Packet
    <3>1. (~Refuses) \in BOOLEAN
      BY Zenon
    <3> QED BY <2>2, <3>1, PacketTypes, Zenon
  <2>4. uplink' \in Seq(Packet)
    BY <1>8, <2>3, LinesAppended DEF ReceiveHandoff
  <2>5. NetType'
    BY <1>8, <2>1, <2>4 DEF ReceiveHandoff, NetType
  <2>6. handed' \in BOOLEAN
    BY <1>8, Zenon DEF ReceiveHandoff
  <2>7. CliType'
    BY <1>8, <2>6 DEF ReceiveHandoff, CliType
  <2> QED BY <1>8, <2>5, <2>7, Frames DEF ReceiveHandoff, hubVars
<1>9. CASE StopAgent
  <2>1. uplink' \in Seq(Packet) /\ unsent' \in Seq(Packet)
    BY <1>9, PacketTypes, EmitType DEF StopAgent
  <2>2. NetType' /\ CliType'
    BY <1>9, <2>1 DEF StopAgent, NetType, CliType
  <2> QED BY <1>9, <2>2, Frames DEF StopAgent, hubVars
<1>10. CASE Quit
  <2>1. CliType'
    BY <1>10 DEF Quit, CliType
  <2> QED BY <1>10, <2>1, Frames DEF Quit, hubVars
<1>11. CASE Exit \/ Crash
  <2>1. /\ proc' = "gone" /\ unsent' = <<>> /\ UNCHANGED <<hubVars, faults>>
        /\ UNCHANGED <<chain, queue, seen, turn, thinking, handed, beat, link, uplink, downlink>>
    BY <1>11, Zenon DEF Exit, Crash
  <2>2. NetType'
    BY <2>1 DEF NetType
  <2>3. CliType'
    BY <2>1 DEF CliType
  <2> QED BY <2>1, <2>2, <2>3, Frames DEF hubVars
<1> QED BY <1>2, <1>3, <1>4, <1>5, <1>6, <1>7, <1>8, <1>9, <1>10, <1>11, <1>12
       DEF CliStep

LEMMA NetworkStepType ==
    ASSUME TypeOK, Stall \/ Recover \/ Break \/ NoticeExit \/ Connect \/ Tick
    PROVE  TypeOK'
<1> USE DEF TypeOK
<1>1. CASE Stall \/ Recover
  <2>1. NetType'
    BY <1>1 DEF Stall, Recover, NetType
  <2> QED BY <1>1, <2>1, Frames DEF Stall, Recover, hubVars
<1>2. CASE Break \/ NoticeExit
  <2>1. /\ link' = "down" /\ registered' = FALSE /\ uplink' = <<>> /\ downlink' = <<>>
        /\ UNCHANGED <<presence, external, rows, call, answer, cliVars, unsent>>
    BY <1>2, Zenon DEF Break, NoticeExit, Disconnected
  <2>2. faults' \in [{"breaks", "stalls"} -> Nat]
    BY <1>2 DEF Break, NoticeExit, NetType
  <2>3. NetType'
    BY <2>1, <2>2 DEF NetType
  <2>4. ReleaseType'
    BY <2>1 DEF ReleaseType
  <2> QED BY <2>1, <2>3, <2>4, Frames
<1>3. CASE Connect
  <2>1. <<Register, Alive(FALSE)>> \in Seq(Packet)
    <3>1. Register \in Packet /\ Alive(FALSE) \in Packet
      BY PacketTypes, Zenon
    <3> QED BY <3>1, PairsAreSequences, Zenon
  <2>2. ASSUME NEW pair \in Seq(Packet) PROVE unsent \o pair \in Seq(Packet)
    BY DEF NetType
  <2>3. uplink' \in Seq(Packet)
    BY <1>3, <2>1, <2>2, Zenon DEF Connect
  <2>4. link' = "up" /\ unsent' = <<>> /\ UNCHANGED <<hubVars, cliVars, downlink, faults>>
    BY <1>3, Zenon DEF Connect
  <2>5. NetType'
    BY <2>3, <2>4 DEF NetType
  <2> QED BY <2>4, <2>5, Frames DEF hubVars
<1>4. CASE Tick
  <2>1. age' \in 0..OldAge
    BY <1>4, Bounds DEF Tick, Lesser, PresenceType
  <2>2. grace' \in 0..GraceTicks
    BY <1>4, Bounds DEF Tick, Less, PresenceType
  <2>3. PresenceType'
    BY <1>4, <2>1, <2>2 DEF Tick, PresenceType
  <2>4. call' \in Call
    BY <1>4 DEF Tick, Less, ReleaseType, Call
  <2>5. ReleaseType'
    BY <1>4, <2>4 DEF Tick, ReleaseType
  <2>6. CliType'
    BY <1>4 DEF Tick, CliType
  <2>7. uplink' \in Seq(Packet)
    BY <1>4, AgedType DEF Tick, NetType
  <2>8. NetType'
    BY <1>4, <2>7 DEF Tick, NetType
  <2> QED BY <2>3, <2>5, <2>6, <2>8
<1> QED BY <1>1, <1>2, <1>3, <1>4

LEMMA StepType == TypeOK /\ [Next]_vars => TypeOK'
<1> SUFFICES ASSUME TypeOK, [Next]_vars PROVE TypeOK'
  OBVIOUS
<1>1. CASE UNCHANGED vars
  BY <1>1, Frames DEF vars, hubVars, TypeOK
<1>2. CASE Next
  BY <1>2, HubStepType, HubReceivesType, CliStepType, NetworkStepType DEF Next, HubStep
<1> QED BY <1>1, <1>2

\* Every reachable state of the presence and release protocol is well typed,
\* for any lengths of the time-outs and any number of faults.
THEOREM WellTyped == Spec => []TypeOK
BY InitType, StepType, PTL DEF Spec

-----------------------------------------------------------------------------
(* An inactive session is quiet.                                           *)

LEMMA QuietStep ==
    ASSUME TypeOK, InactiveIsQuiet, [Next]_vars
    PROVE  InactiveIsQuiet'
<1> USE DEF InactiveIsQuiet
<1>1. CASE UNCHANGED presence
  BY <1>1 DEF presence
<1>2. CASE Expire
  BY <1>2 DEF Expire, GoQuiet
<1>3. ASSUME NEW t \in Turn, PostTurn(t) PROVE InactiveIsQuiet'
  BY <1>3 DEF PostTurn, MarkQueued, presence
<1>4. CASE HubReceives
  <2>1. \/ active' = TRUE \/ UNCHANGED presence
        \/ active' = FALSE /\ spin' = FALSE /\ grace' = 0
    BY <1>4, Zenon DEF HubReceives, HearAlive, HearEnd, GoQuiet
  <2> QED BY <2>1 DEF presence
<1>5. CASE Tick
  BY <1>5 DEF Tick, Less
<1>6. CASE UNCHANGED vars
  BY <1>1, <1>6 DEF vars, hubVars
<1>7. CASE Next
  <2>1. \/ UNCHANGED presence \/ Expire \/ HubReceives \/ Tick
        \/ \E t \in Turn : PostTurn(t)
    <3>1. CliStep => UNCHANGED presence
      BY DEF CliStep, KeepAlive, ReceiveTurn, BackfillTurn, QueueTurn, TakeTurn, AgentStarts,
             TurnEnds, ReceiveHandoff, StopAgent, Exit, hubVars
    <3>2. (\E t \in Turn : AcceptPost(t)) => UNCHANGED presence
      BY DEF AcceptPost
    <3>3. ReleaseOffline \/ Release \/ RpcTimesOut \/ WaitEnds => UNCHANGED presence
      BY DEF ReleaseOffline, Release, RpcTimesOut, WaitEnds
    <3>4. Quit \/ Crash \/ Stall \/ Recover \/ Break \/ NoticeExit \/ Connect
            => UNCHANGED presence
      BY DEF Quit, Crash, Stall, Recover, Break, NoticeExit, Connect, hubVars
    <3> QED BY <1>7, <3>1, <3>2, <3>3, <3>4 DEF Next, HubStep
  <2> QED BY <2>1, <1>1, <1>2, <1>3, <1>4, <1>5
<1> QED BY <1>6, <1>7

\* A session shown as inactive never spins: neither a turn that is inserted
\* after the session has ended nor a late packet makes it spin.
THEOREM InactiveSessionsAreQuiet == Spec => []InactiveIsQuiet
<1>1. Init => InactiveIsQuiet
  BY Zenon DEF Init, InactiveIsQuiet
<1>2. TypeOK /\ InactiveIsQuiet /\ [Next]_vars => InactiveIsQuiet'
  BY QuietStep
<1> QED BY <1>1, <1>2, WellTyped, PTL DEF Spec

-----------------------------------------------------------------------------
(* A thread that was given away is marked.                                 *)

\* The marker is there before the request leaves the hub, and as long as the
\* call, the request or its acceptance is.
MarkedFirst ==
    /\ handed => external
    /\ call.st # "idle" => external
    /\ \A k \in DOMAIN downlink : downlink[k].kind = "handoff" => external

LEMMA MarkerStays ==
    ASSUME [Next]_vars, external
    PROVE  external'
<1>1. CASE UNCHANGED external
  BY <1>1
<1>2. CASE Release \/ ReleaseOffline
  BY <1>2 DEF Release, ReleaseOffline, RolledBack
<1>3. CASE HubReceives
  BY <1>3, Zenon DEF HubReceives, HearReply, RolledBack
<1>4. CASE Next
  <2>1. CliStep => UNCHANGED external
    BY DEF CliStep, KeepAlive, ReceiveTurn, BackfillTurn, QueueTurn, TakeTurn, AgentStarts,
           TurnEnds, ReceiveHandoff, StopAgent, Exit, hubVars
  <2>2. (\E t \in Turn : AcceptPost(t) \/ PostTurn(t)) => UNCHANGED external
    BY DEF AcceptPost, PostTurn
  <2>3. Expire \/ RpcTimesOut \/ WaitEnds \/ Tick => UNCHANGED external
    BY DEF Expire, RpcTimesOut, ReplyOverdue, WaitEnds, Tick
  <2>4. Quit \/ Crash \/ Stall \/ Recover \/ Break \/ NoticeExit \/ Connect
          => UNCHANGED external
    BY DEF Quit, Crash, Stall, Recover, Break, NoticeExit, Connect, hubVars
  <2> QED BY <1>1, <1>2, <1>3, <1>4, <2>1, <2>2, <2>3, <2>4 DEF Next, HubStep
<1> QED BY <1>1, <1>4 DEF vars, hubVars

\* No hand-off is requested, on its way, or accepted.
NoHandoff ==
    /\ ~handed /\ call.st = "idle"
    /\ \A k \in DOMAIN downlink : downlink[k].kind # "handoff"

LEMMA TailElements ==
    ASSUME NEW S, NEW s \in Seq(S), s # <<>>
    PROVE  \A k \in DOMAIN Tail(s) : k + 1 \in DOMAIN s /\ Tail(s)[k] = s[k + 1]
  OBVIOUS

LEMMA AppendElements ==
    ASSUME NEW S, NEW s \in Seq(S), NEW x
    PROVE  \A k \in DOMAIN Append(s, x) :
               \/ k \in DOMAIN s /\ Append(s, x)[k] = s[k]
               \/ Append(s, x)[k] = x
  OBVIOUS

LEMMA NoHandoffStep ==
    ASSUME TypeOK, NoHandoff, [Next]_vars, ~external'
    PROVE  NoHandoff'
<1>1. CASE UNCHANGED <<handed, call, downlink>>
  BY <1>1 DEF NoHandoff
<1>2. downlink \in Seq(Request) /\ call \in Call
  BY DEF TypeOK, NetType, ReleaseType
<1>3. CASE Release \/ ReleaseOffline \/ RpcTimesOut \/ WaitEnds
  BY <1>3 DEF Release, ReleaseOffline, RolledBack, RpcTimesOut, WaitEnds, NoHandoff
<1>4. CASE HubReceives
  <2>1. UNCHANGED <<handed, downlink>> /\ UNCHANGED call
    BY <1>4 DEF HubReceives, HearReply, NoHandoff, cliVars
  <2> QED BY <2>1, <1>1
<1>5. ASSUME NEW t \in Turn, PostTurn(t) PROVE NoHandoff'
  <2>1. Deliver(t).kind # "handoff"
    BY DEF Deliver
  <2>2. UNCHANGED <<handed, call>> /\ (downlink' = downlink \/ downlink' = Append(downlink, Deliver(t)))
    BY <1>5 DEF PostTurn, cliVars
  <2> DEFINE p == Deliver(t)
  <2> HIDE DEF p
  <2>3. \A k \in DOMAIN Append(downlink, p) : Append(downlink, p)[k].kind # "handoff"
    <3>1. \A k \in DOMAIN downlink : downlink[k].kind # "handoff"
      BY DEF NoHandoff
    <3>2. p.kind # "handoff"
      BY <2>1 DEF p
    <3> QED BY <1>2, <3>1, <3>2, AppendElements
  <2>4. \A k \in DOMAIN downlink' : downlink'[k].kind # "handoff"
    BY <2>2, <2>3 DEF NoHandoff, p
  <2> QED BY <2>2, <2>4 DEF NoHandoff
<1>6. CASE ReceiveTurn
  <2>1. downlink # <<>> /\ downlink' = Tail(downlink) /\ UNCHANGED <<handed, call>>
    BY <1>6 DEF ReceiveTurn, Read, hubVars
  <2> QED BY <1>2, <2>1, TailElements DEF NoHandoff
<1>7. CASE ReceiveHandoff
  <2>1. downlink # <<>> /\ Head(downlink).kind = "handoff"
    BY <1>7 DEF ReceiveHandoff
  <2>2. 1 \in DOMAIN downlink /\ Head(downlink) = downlink[1]
    BY <1>2, <2>1
  <2> QED BY <2>1, <2>2 DEF NoHandoff
<1>8. CASE Break \/ NoticeExit
  <2>1. downlink' = <<>> /\ UNCHANGED <<handed, call>>
    BY <1>8 DEF Break, NoticeExit, Disconnected, cliVars
  <2> QED BY <2>1 DEF NoHandoff
<1>9. CASE Tick
  <2>1. UNCHANGED <<handed, downlink>> /\ call' = [call EXCEPT !.left = Less(@)]
    BY <1>9 DEF Tick
  <2> QED BY <1>2, <2>1 DEF NoHandoff, Call
<1>10. CASE Next
  <2>1. (\E t \in Turn : AcceptPost(t) \/ BackfillTurn(t)) => UNCHANGED <<handed, call, downlink>>
    BY DEF AcceptPost, BackfillTurn, Read, hubVars, cliVars, netVars
  <2>2. KeepAlive \/ QueueTurn \/ TakeTurn \/ AgentStarts \/ TurnEnds \/ StopAgent \/ Exit \/ Quit \/ Crash
          => UNCHANGED <<handed, call, downlink>>
    BY DEF KeepAlive, QueueTurn, TakeTurn, AgentStarts, TurnEnds, StopAgent, Exit, Quit,
           Crash, hubVars, netVars
  <2>3. Expire \/ Stall \/ Recover \/ Connect => UNCHANGED <<handed, call, downlink>>
    BY DEF Expire, Stall, Recover, Connect, hubVars, cliVars, netVars
  <2> QED BY <1>10, <1>1, <1>3, <1>4, <1>5, <1>6, <1>7, <1>8, <1>9, <2>1, <2>2, <2>3
          DEF Next, HubStep, CliStep
<1>11. CASE UNCHANGED vars
  BY <1>1, <1>11 DEF vars, hubVars, cliVars, netVars
<1> QED BY <1>10, <1>11

\* Without the marker nothing that depends on it comes into being.
LEMMA MarkedStep ==
    ASSUME TypeOK, MarkedFirst, [Next]_vars
    PROVE  MarkedFirst'
<1>1. CASE external
  <2>1. external'
    BY <1>1, MarkerStays
  <2> QED BY <2>1 DEF MarkedFirst
<1>2. CASE external'
  BY <1>2 DEF MarkedFirst
<1>3. CASE ~external /\ ~external'
  <2>1. NoHandoff
    BY <1>3 DEF MarkedFirst, NoHandoff
  <2>2. NoHandoff'
    BY <1>3, <2>1, NoHandoffStep
  <2> QED BY <2>2 DEF MarkedFirst, NoHandoff
<1> QED BY <1>1, <1>2, <1>3

\* A process that has accepted a hand-off leaves a session marked as external,
\* whatever requests were repeated, timed out or lost before or after.
THEOREM GivenAwayIsMarked == Spec => []HandedOffIsMarked
<1>1. Init => MarkedFirst
  <2>1. Init => ~handed /\ call = [st |-> "idle", id |-> 0, left |-> 0] /\ downlink = <<>>
    BY Zenon DEF Init
  <2> QED BY <2>1 DEF MarkedFirst
<1>2. TypeOK /\ MarkedFirst /\ [Next]_vars => MarkedFirst'
  BY MarkedStep
<1>3. MarkedFirst => HandedOffIsMarked
  BY DEF MarkedFirst, HandedOffIsMarked
<1> QED BY <1>1, <1>2, <1>3, WellTyped, PTL DEF Spec

-----------------------------------------------------------------------------
(* What the answer "success" means.                                        *)

\* A reply is sent over the transport that brought the request, never kept.
NoReplyKept == \A k \in DOMAIN unsent : unsent[k].kind # "reply"

Grants(p) == p.kind = "reply" /\ p.ok

\* Nothing the hub takes for a granted release exists.
NoGrant ==
    /\ answer # "success" /\ call.st # "waiting"
    /\ \A k \in DOMAIN uplink : ~Grants(uplink[k])

GrantedLast == NoReplyKept /\ (proc = "running" => NoGrant)

LEMMA KindsOfPackets ==
    /\ \A b : Alive(b).kind = "alive"
    /\ \A t : Consumed(t).kind = "consumed"
    /\ End.kind = "end" /\ Register.kind = "register"
BY DEF Alive, Consumed, End, Register

LEMMA EmitAppends ==
    ASSUME NEW p, Emit(p) \/ EmitVolatile(p)
    PROVE  /\ uplink' = uplink \/ uplink' = Append(uplink, p)
           /\ unsent' = unsent \/ unsent' = Append(unsent, p)
BY DEF Emit, EmitVolatile

LEMMA ConcatElements ==
    ASSUME NEW S, NEW s \in Seq(S), NEW t \in Seq(S)
    PROVE  \A k \in DOMAIN (s \o t) :
               \/ k \in DOMAIN s /\ (s \o t)[k] = s[k]
               \/ \E l \in DOMAIN t : (s \o t)[k] = t[l]
  OBVIOUS

\* Where the CLI's packets come from.
CliPacket ==
    {Alive(thinking), Alive(TRUE), Alive(FALSE), End, Consumed(Head(queue)), Consumed(Head(chain))}

LEMMA CliEmits ==
    ASSUME CliStep \/ Quit \/ Crash
    PROVE  \/ UNCHANGED <<uplink, unsent>>
           \/ uplink' = uplink /\ unsent' = <<>>
           \/ ReceiveHandoff
           \/ \E p \in CliPacket :
                 /\ uplink' = uplink \/ uplink' = Append(uplink, p)
                 /\ unsent' = unsent \/ unsent' = Append(unsent, p)
<1>1. CASE KeepAlive
  <2>1. EmitVolatile(Alive(thinking))
    BY <1>1 DEF KeepAlive
  <2> QED BY <2>1, EmitAppends DEF CliPacket
<1>2. CASE AgentStarts
  <2>1. EmitVolatile(Alive(TRUE))
    BY <1>2 DEF AgentStarts
  <2> QED BY <2>1, EmitAppends DEF CliPacket
<1>3. CASE TurnEnds
  <2>1. EmitVolatile(Alive(FALSE))
    BY <1>3 DEF TurnEnds
  <2> QED BY <2>1, EmitAppends DEF CliPacket
<1>4. CASE TakeTurn
  <2>1. Emit(Consumed(Head(queue)))
    BY <1>4 DEF TakeTurn
  <2> QED BY <2>1, EmitAppends DEF CliPacket
<1>5. CASE StopAgent
  <2>1. Emit(End)
    BY <1>5 DEF StopAgent
  <2> QED BY <2>1, EmitAppends DEF CliPacket
<1>6. CASE Exit \/ Crash \/ Quit
  BY <1>6 DEF Exit, Crash, Quit, netVars
<1>7. CASE ReceiveTurn \/ \E t \in Turn : BackfillTurn(t)
  BY <1>7 DEF ReceiveTurn, BackfillTurn, netVars
<1>8. CASE QueueTurn
  <2>1. Emit(Consumed(Head(chain))) \/ UNCHANGED <<uplink, unsent>>
    BY <1>8 DEF QueueTurn
  <2> QED BY <2>1, EmitAppends DEF CliPacket
<1> QED BY <1>1, <1>2, <1>3, <1>4, <1>5, <1>6, <1>7, <1>8 DEF CliStep

LEMMA NoReplyKeptStep ==
    ASSUME TypeOK, NoReplyKept, [Next]_vars
    PROVE  NoReplyKept'
<1>1. unsent \in Seq(Packet)
  BY DEF TypeOK, NetType
<1>2. CASE UNCHANGED unsent \/ unsent' = <<>>
  BY <1>2 DEF NoReplyKept
<1>3. ASSUME NEW p, p.kind # "reply", unsent' = unsent \/ unsent' = Append(unsent, p)
      PROVE  NoReplyKept'
  <2>1. CASE unsent' = unsent
    BY <1>2, <2>1
  <2>2. CASE unsent' = Append(unsent, p)
    <3>1. \A k \in DOMAIN Append(unsent, p) : Append(unsent, p)[k].kind # "reply"
      BY <1>1, <1>3, AppendElements DEF NoReplyKept
    <3> QED BY <2>2, <3>1 DEF NoReplyKept
  <2> QED BY <1>3, <2>1, <2>2
<1>4. CASE CliStep \/ Quit \/ Crash
  <2>1. CASE ReceiveHandoff
    BY <1>2, <2>1 DEF ReceiveHandoff
  <2>2. ASSUME NEW p \in CliPacket
        PROVE  p.kind # "reply"
    BY KindsOfPackets DEF CliPacket
  <2> QED BY <1>2, <1>3, <1>4, <2>1, <2>2, CliEmits
<1>5. CASE Next
  <2>1. (\E t \in Turn : AcceptPost(t) \/ PostTurn(t)) => UNCHANGED unsent
    BY DEF AcceptPost, PostTurn, netVars
  <2>2. ReleaseOffline \/ Release \/ HubStep => UNCHANGED unsent
    BY DEF ReleaseOffline, Release, HubStep, Expire, RpcTimesOut, WaitEnds, HubReceives, netVars
  <2>3. Stall \/ Recover \/ Break \/ NoticeExit \/ Tick => UNCHANGED unsent
    BY DEF Stall, Recover, Break, NoticeExit, Tick
  <2>4. Connect => unsent' = <<>>
    BY DEF Connect
  <2> QED BY <1>2, <1>4, <1>5, <2>1, <2>2, <2>3, <2>4 DEF Next
<1> QED BY <1>2, <1>5 DEF vars, netVars

LEMMA RunningBefore ==
    ASSUME [Next]_vars, proc' = "running"
    PROVE  proc = "running"
<1>1. CASE UNCHANGED proc
  BY <1>1
<1>2. CASE CliStep \/ Quit \/ Crash
  BY <1>2 DEF CliStep, KeepAlive, ReceiveTurn, BackfillTurn, Read, QueueTurn, TakeTurn, AgentStarts,
              TurnEnds, ReceiveHandoff, StopAgent, Exit, Quit, Crash, cliVars
<1>3. CASE Next
  <2>1. (\E t \in Turn : AcceptPost(t) \/ PostTurn(t)) => UNCHANGED proc
    BY DEF AcceptPost, PostTurn, cliVars
  <2>2. ReleaseOffline \/ Release \/ HubStep => UNCHANGED proc
    BY DEF ReleaseOffline, Release, HubStep, Expire, RpcTimesOut, WaitEnds, HubReceives, cliVars
  <2>3. Stall \/ Recover \/ Break \/ NoticeExit \/ Connect \/ Tick => UNCHANGED proc
    BY DEF Stall, Recover, Break, NoticeExit, Connect, Tick, cliVars
  <2> QED BY <1>1, <1>2, <1>3, <2>1, <2>2, <2>3 DEF Next
<1> QED BY <1>1, <1>3 DEF vars, cliVars

\* The packets on the uplink after a step: known ones, or new ones that grant
\* nothing while the process runs.
LEMMA UplinkStep ==
    ASSUME TypeOK, NoReplyKept, NoGrant, [Next]_vars, proc' = "running"
    PROVE  \A k \in DOMAIN uplink' : ~Grants(uplink'[k])
<1> DEFINE Harmless(line) == \A k \in DOMAIN line : ~Grants(line[k])
<1>1. uplink \in Seq(Packet) /\ unsent \in Seq(Packet) /\ Harmless(uplink)
  BY DEF TypeOK, NetType, NoGrant
<1>2. CASE UNCHANGED uplink \/ uplink' = <<>>
  BY <1>1, <1>2
<1>3. ASSUME NEW p, ~Grants(p), uplink' = uplink \/ uplink' = Append(uplink, p)
      PROVE  Harmless(uplink')
  <2>1. Harmless(Append(uplink, p))
    BY <1>1, <1>3, AppendElements
  <2> QED BY <1>1, <1>3, <2>1
<1>4. CASE CliStep \/ Quit \/ Crash
  <2>1. CASE ReceiveHandoff
    <3>1. Refuses
      BY <2>1, RunningBefore DEF ReceiveHandoff
    <3> DEFINE p == Reply(Head(downlink).call, ~Refuses)
    <3>2. uplink' = Append(uplink, p)
      BY <2>1 DEF ReceiveHandoff
    <3>3. ~Grants(p)
      BY <3>1, Zenon DEF Grants, Reply
    <3> HIDE DEF p
    <3> QED BY <1>3, <3>2, <3>3
  <2>2. ASSUME NEW p \in CliPacket
        PROVE  ~Grants(p)
    BY KindsOfPackets DEF Grants, CliPacket
  <2> QED BY <1>2, <1>3, <1>4, <2>1, <2>2, CliEmits
<1>5. CASE HubReceives
  <2>1. uplink # <<>> /\ uplink' = Tail(uplink)
    BY <1>5 DEF HubReceives
  <2>2. Harmless(Tail(uplink))
    BY <1>1, <2>1, TailElements
  <2> QED BY <2>1, <2>2
<1>6. CASE Connect
  <2> DEFINE pair == <<Register, Alive(FALSE)>>
  <2>1. pair \in Seq(Packet) /\ Harmless(pair)
    <3>1. Register \in Packet /\ Alive(FALSE) \in Packet
      BY PacketTypes, Zenon
    <3>2. ~Grants(Register) /\ ~Grants(Alive(FALSE))
      BY KindsOfPackets DEF Grants
    <3>3. ASSUME NEW x \in Packet, NEW y \in Packet, ~Grants(x), ~Grants(y)
          PROVE  <<x, y>> \in Seq(Packet) /\ Harmless(<<x, y>>)
      BY <3>3
    <3> QED BY <3>1, <3>2, <3>3, Zenon
  <2>2. uplink' = unsent \o pair
    BY <1>6, Zenon DEF Connect
  <2>3. Harmless(unsent)
    BY DEF NoReplyKept, Grants
  <2> HIDE DEF pair
  <2>4. Harmless(unsent \o pair)
    BY <1>1, <2>1, <2>3, ConcatElements
  <2> QED BY <2>2, <2>4
<1>7. CASE Tick
  <2>1. uplink' = [k \in DOMAIN uplink |-> Older(uplink[k])]
    BY <1>7 DEF Tick
  <2>2. \A k \in DOMAIN uplink : Grants(Older(uplink[k])) => Grants(uplink[k])
    <3>1. ASSUME NEW p \in Packet, Grants(Older(p)) PROVE Grants(p)
      <4>1. CASE p.kind # "alive"
        BY <3>1, <4>1 DEF Older
      <4>2. CASE p.kind = "alive"
        <5>1. p \in [kind : {"alive"}, thinking : BOOLEAN, age : 0..OldAge]
          BY <4>2 DEF Packet
        <5> DEFINE n == Lesser(p.age + 1, OldAge)
        <5>2. Older(p) = [p EXCEPT !.age = n]
          BY <4>2 DEF Older
        <5> HIDE DEF n
        <5>3. [p EXCEPT !.age = n].kind = "alive"
          BY <4>2, <5>1
        <5> QED BY <3>1, <5>2, <5>3 DEF Grants
      <4> QED BY <4>1, <4>2
    <3> QED BY <1>1, <3>1
  <2> QED BY <1>1, <2>1, <2>2
<1>8. CASE Next
  <2>1. (\E t \in Turn : AcceptPost(t) \/ PostTurn(t)) => UNCHANGED uplink
    BY DEF AcceptPost, PostTurn, netVars
  <2>2. ReleaseOffline \/ Release \/ Expire \/ RpcTimesOut \/ WaitEnds => UNCHANGED uplink
    BY DEF ReleaseOffline, Release, Expire, RpcTimesOut, WaitEnds, netVars
  <2>3. Stall \/ Recover => UNCHANGED uplink
    BY DEF Stall, Recover
  <2>4. Break \/ NoticeExit => uplink' = <<>>
    BY DEF Break, NoticeExit, Disconnected
  <2> QED BY <1>2, <1>4, <1>5, <1>6, <1>7, <1>8, <2>1, <2>2, <2>3, <2>4 DEF Next, HubStep
<1> QED BY <1>2, <1>8 DEF vars, netVars

\* While the process runs no call waits for its end and none has succeeded.
LEMMA CallStep ==
    ASSUME TypeOK, NoGrant, [Next]_vars
    PROVE  answer' # "success" /\ call'.st # "waiting"
<1>1. call \in Call
  BY DEF TypeOK, ReleaseType
<1>2. CASE UNCHANGED <<answer, call>>
  BY <1>2 DEF NoGrant
<1>3. CASE Release \/ ReleaseOffline \/ RpcTimesOut \/ WaitEnds
  <2>1. CASE Release
    <3>1. answer' \in {"none", "error"}
      BY <2>1 DEF Release
    <3>2. call'.st \in {"asked", "idle"}
      <4>1. \/ call' = [st |-> "asked", id |-> call.id + 1, left |-> RpcTicks]
            \/ call' = [call EXCEPT !.id = @ + 1]
        BY <2>1, Zenon DEF Release
      <4>2. call.st = "idle"
        BY <2>1, Zenon DEF Release
      <4> QED BY <1>1, <4>1, <4>2 DEF Call
    <3> QED BY <3>1, <3>2
  <2>2. CASE ReleaseOffline
    BY <2>2 DEF ReleaseOffline, NoGrant
  <2>3. CASE RpcTimesOut
    BY <1>1, <2>3 DEF RpcTimesOut, ReplyOverdue, Ends, Call
  <2>4. CASE WaitEnds
    BY <2>4 DEF WaitEnds, NoGrant
  <2> QED BY <1>3, <2>1, <2>2, <2>3, <2>4
<1>4. CASE HubReceives
  <2>1. CASE HearReply(Head(uplink)) /\ Head(uplink).kind = "reply"
    <3>1. uplink # <<>> /\ uplink \in Seq(Packet)
      BY <1>4 DEF HubReceives, TypeOK, NetType
    <3>2. ~Grants(Head(uplink))
      BY <3>1 DEF NoGrant
    <3>3. ~Head(uplink).ok
      BY <2>1, <3>2 DEF Grants
    <3> QED BY <1>1, <2>1, <3>3 DEF HearReply, Ends, NoGrant, Call
  <2> QED BY <1>2, <1>4, <2>1, Zenon DEF HubReceives
<1>5. CASE Tick
  BY <1>1, <1>5 DEF Tick, NoGrant, Call
<1>6. CASE Next
  <2>1. (\E t \in Turn : AcceptPost(t) \/ PostTurn(t)) => UNCHANGED <<answer, call>>
    BY DEF AcceptPost, PostTurn
  <2>2. CliStep \/ Quit \/ Crash => UNCHANGED <<answer, call>>
    BY DEF CliStep, KeepAlive, ReceiveTurn, BackfillTurn, QueueTurn, TakeTurn, AgentStarts,
           TurnEnds, ReceiveHandoff, StopAgent, Exit, Quit, Crash, hubVars
  <2>3. Expire \/ Stall \/ Recover \/ Break \/ NoticeExit \/ Connect
          => UNCHANGED <<answer, call>>
    BY DEF Expire, Stall, Recover, Break, NoticeExit, Connect, hubVars
  <2> QED BY <1>2, <1>3, <1>4, <1>5, <1>6, <2>1, <2>2, <2>3 DEF Next, HubStep
<1> QED BY <1>2, <1>6 DEF vars, hubVars

LEMMA GrantedStep ==
    ASSUME TypeOK, GrantedLast, [Next]_vars
    PROVE  GrantedLast'
<1>1. NoReplyKept'
  BY NoReplyKeptStep DEF GrantedLast
<1>2. ASSUME proc' = "running" PROVE NoGrant'
  <2>1. proc = "running" /\ NoGrant /\ NoReplyKept
    BY <1>2, RunningBefore DEF GrantedLast
  <2>2. \A k \in DOMAIN uplink' : ~Grants(uplink'[k])
    BY <1>2, <2>1, UplinkStep
  <2>3. \A k \in DOMAIN uplink' : ~Grants(uplink[k])'
    BY <2>2 DEF Grants
  <2> QED BY <2>1, <2>3, CallStep DEF NoGrant
<1> QED BY <1>1, <1>2 DEF GrantedLast

LEMMA InitGranted == Init => GrantedLast
<1> SUFFICES ASSUME Init PROVE GrantedLast
  OBVIOUS
<1>1. /\ answer = "none" /\ call = [st |-> "idle", id |-> 0, left |-> 0] /\ unsent = <<>>
      /\ uplink = <<Register, Alive(FALSE)>>
  BY Zenon DEF Init
<1>2. ASSUME NEW x, NEW y, ~Grants(x), ~Grants(y)
      PROVE  \A k \in DOMAIN <<x, y>> : ~Grants(<<x, y>>[k])
  BY <1>2
<1>3. ~Grants(Register) /\ ~Grants(Alive(FALSE))
  BY KindsOfPackets DEF Grants
<1>4. \A k \in DOMAIN uplink : ~Grants(uplink[k])
  BY <1>1, <1>2, <1>3, Zenon
<1>5. answer # "success" /\ call.st # "waiting" /\ unsent = <<>>
  <2>1. answer = "none" /\ call = [st |-> "idle", id |-> 0, left |-> 0] /\ unsent = <<>>
    BY <1>1, Zenon
  <2> HIDE DEF Init
  <2> QED BY <2>1
<1> QED BY <1>4, <1>5 DEF GrantedLast, NoReplyKept, NoGrant

\* A release that asked the runner and was answered with success has stopped
\* it, whatever replies were late and however the session became inactive.
THEOREM SuccessStopsTheRunner == Spec => []SuccessMeansStopped
<1>1. TypeOK /\ GrantedLast /\ [Next]_vars => GrantedLast'
  BY GrantedStep
<1>2. GrantedLast => SuccessMeansStopped
  BY DEF GrantedLast, NoGrant, SuccessMeansStopped
<1> QED BY <1>1, <1>2, InitGranted, WellTyped, PTL DEF Spec

-----------------------------------------------------------------------------
(* An accepted hand-off abandons no turn that waits.                       *)

\* A turn that was read, and that waits in no handler any more.
Past(t, c, s) == t \in s /\ \A k \in DOMAIN c : c[k] # t

\* The turns whose handlers wait: each once, read, and queued in the table.
Waits(c, r, s) ==
    /\ \A j, k \in DOMAIN c : c[j] = c[k] => j = k
    /\ \A k \in DOMAIN c : c[k] \in s /\ r[c[k]] = "queued"

AllPast(q, c, s) == \A l \in DOMAIN q : Past(q[l], c, s)
Acked(line, c, s) == \A i \in DOMAIN line : line[i].kind = "consumed" => Past(line[i].turn, c, s)

\* A turn on its way was read before, or is queued in the table.
OnItsWay(line, r, s) ==
    \A k \in DOMAIN line : line[k].kind = "turn" => line[k].turn \in s \/ r[line[k].turn] = "queued"

\* Only turns that wait no more are acknowledged.
ChainInv ==
    /\ Waits(chain, rows, seen) /\ AllPast(queue, chain, seen)
    /\ Acked(uplink, chain, seen) /\ Acked(unsent, chain, seen)
    /\ OnItsWay(downlink, rows, seen)

\* What one step may do to the table: no turn stops being queued.
KeepsQueued == \A t \in Turn : rows[t] = "queued" => rows'[t] = "queued"

LEMMA WaitingTurns ==
    ASSUME TypeOK
    PROVE  /\ \A k \in DOMAIN chain : chain[k] \in Turn
           /\ \A k \in DOMAIN downlink : downlink[k].kind = "turn" => downlink[k].turn \in Turn
<1>1. \A k \in DOMAIN chain : chain[k] \in Turn
  BY DEF TypeOK, CliType
<1>2. \A k \in DOMAIN downlink : downlink[k] \in Request
  BY DEF TypeOK, NetType
<1> QED BY <1>1, <1>2, PacketFields

\* The ways in which a packet line changes.
LEMMA AckedLines ==
    ASSUME NEW line \in Seq(Packet), NEW c, NEW s, Acked(line, c, s)
    PROVE  /\ \A p : (p.kind = "consumed" => Past(p.turn, c, s)) => Acked(Append(line, p), c, s)
           /\ line # <<>> => Acked(Tail(line), c, s)
           /\ Acked(<<>>, c, s)
<1>1. ASSUME NEW p, p.kind = "consumed" => Past(p.turn, c, s)
      PROVE  Acked(Append(line, p), c, s)
  BY <1>1, AppendElements DEF Acked
<1>2. ASSUME line # <<>> PROVE Acked(Tail(line), c, s)
  BY <1>2, TailElements DEF Acked
<1>3. Acked(<<>>, c, s)
  BY DEF Acked
<1> QED BY <1>1, <1>2, <1>3

\* Nothing is read, and the chain and the queue stay.
LEMMA ChainStays ==
    ASSUME TypeOK, ChainInv, UNCHANGED <<chain, queue, seen>>, KeepsQueued,
           Acked(uplink', chain, seen), Acked(unsent', chain, seen),
           \A k \in DOMAIN downlink' :
               \/ \E l \in DOMAIN downlink : downlink'[k] = downlink[l]
               \/ downlink'[k].kind = "turn" => rows'[downlink'[k].turn] = "queued"
    PROVE  ChainInv'
<1>1. Waits(chain, rows', seen)
  BY WaitingTurns DEF ChainInv, Waits, KeepsQueued
<1>2. OnItsWay(downlink', rows', seen)
  BY WaitingTurns DEF ChainInv, OnItsWay, KeepsQueued
<1>3. AllPast(queue, chain, seen)
  BY DEF ChainInv
<1> DEFINE after == /\ Waits(chain', rows', seen') /\ AllPast(queue', chain', seen')
                    /\ Acked(uplink', chain', seen') /\ Acked(unsent', chain', seen')
                    /\ OnItsWay(downlink', rows', seen')
<1>4. after
  BY <1>1, <1>2, <1>3
<1>5. after = ChainInv'
  BY DEF ChainInv, Waits, AllPast, Acked, OnItsWay, Past
<1> QED BY <1>4, <1>5

\* A turn is read that was queued in the table, or had been read before.
LEMMA ReadKeepsChain ==
    ASSUME TypeOK, ChainInv, NEW t \in Turn, Read(t), t \in seen \/ rows[t] = "queued",
           UNCHANGED <<rows, uplink, unsent>>,
           \A k \in DOMAIN downlink' : \E l \in DOMAIN downlink : downlink'[k] = downlink[l]
    PROVE  ChainInv'
<1>1. seen' = seen \cup {t} /\ queue' = queue
      /\ chain' = IF t \in seen THEN chain ELSE Append(chain, t)
  BY DEF Read
<1>2. \A u \in seen : Past(u, chain, seen) => Past(u, chain', seen')
  <2>1. CASE t \in seen
    BY <1>1, <2>1 DEF Past
  <2>2. CASE t \notin seen
    <3>1. chain \in Seq(Turn) /\ chain' = Append(chain, t)
      BY <1>1, <2>2 DEF TypeOK, CliType
    <3> QED BY <1>1, <2>2, <3>1, AppendElements DEF Past
  <2> QED BY <2>1, <2>2
<1>3. Waits(chain', rows, seen')
  <2>1. CASE t \in seen
    BY <1>1, <2>1 DEF ChainInv, Waits
  <2>2. CASE t \notin seen
    <3>1. chain \in Seq(Turn) /\ chain' = Append(chain, t) /\ rows[t] = "queued"
      BY <1>1, <2>2 DEF TypeOK, CliType
    <3>2. \A k \in DOMAIN chain : chain[k] # t
      BY <2>2 DEF ChainInv, Waits
    <3>3. /\ Len(chain) \in Nat /\ DOMAIN chain = 1..Len(chain)
          /\ DOMAIN chain' = 1..(Len(chain) + 1) /\ chain'[Len(chain) + 1] = t
          /\ \A k \in DOMAIN chain : chain'[k] = chain[k]
      BY <3>1
    <3>4. \A k \in DOMAIN chain' : k \in DOMAIN chain \/ k = Len(chain) + 1
      BY <3>3
    <3>5. \A j, k \in DOMAIN chain' : chain'[j] = chain'[k] => j = k
      BY <3>2, <3>3, <3>4 DEF ChainInv, Waits
    <3>6. \A k \in DOMAIN chain' : chain'[k] \in seen' /\ rows[chain'[k]] = "queued"
      BY <1>1, <3>1, <3>3, <3>4 DEF ChainInv, Waits
    <3> QED BY <3>5, <3>6 DEF Waits
  <2> QED BY <2>1, <2>2
<1>4. AllPast(queue, chain', seen') /\ Acked(uplink, chain', seen') /\ Acked(unsent, chain', seen')
  BY <1>2 DEF ChainInv, AllPast, Acked, Past
<1>5. OnItsWay(downlink', rows, seen')
  BY <1>1 DEF ChainInv, OnItsWay
<1> DEFINE after == /\ Waits(chain', rows', seen') /\ AllPast(queue', chain', seen')
                    /\ Acked(uplink', chain', seen') /\ Acked(unsent', chain', seen')
                    /\ OnItsWay(downlink', rows', seen')
<1>6. after
  BY <1>1, <1>3, <1>4, <1>5
<1>7. after = ChainInv'
  BY DEF ChainInv, Waits, AllPast, Acked, OnItsWay, Past
<1> QED BY <1>6, <1>7

\* A handler is done: its turn waits no more.
LEMMA QueueKeepsChain ==
    ASSUME TypeOK, ChainInv, QueueTurn
    PROVE  ChainInv'
<1> DEFINE t == Head(chain)
<1>1. /\ chain # <<>> /\ chain' = Tail(chain) /\ UNCHANGED <<rows, seen, downlink>>
      /\ \/ /\ queue' = Append(queue, t) \/ queue' = <<t>>
            /\ UNCHANGED <<uplink, unsent>>
         \/ Emit(Consumed(t)) /\ UNCHANGED queue
  BY DEF QueueTurn, hubVars
<1>2. /\ chain \in Seq(Turn) /\ queue \in Seq(Turn)
      /\ uplink \in Seq(Packet) /\ unsent \in Seq(Packet)
  BY DEF TypeOK, CliType, NetType
<1>3. \A k \in DOMAIN Tail(chain) : k + 1 \in DOMAIN chain /\ k + 1 # 1 /\ Tail(chain)[k] = chain[k + 1]
  BY <1>1, <1>2
<1>4. 1 \in DOMAIN chain /\ t = chain[1]
  BY <1>1, <1>2
<1>5. Past(t, chain', seen)
  BY <1>1, <1>3, <1>4 DEF ChainInv, Waits, Past
<1>6. \A u : Past(u, chain, seen) => Past(u, chain', seen)
  BY <1>1, <1>3 DEF Past
<1>7. Waits(chain', rows, seen)
  <2>1. \A j, k \in DOMAIN Tail(chain) : Tail(chain)[j] = Tail(chain)[k] => j = k
    <3>1. \A k \in DOMAIN Tail(chain) : k \in Nat
      BY <1>1, <1>2
    <3>2. ASSUME NEW j \in DOMAIN Tail(chain), NEW k \in DOMAIN Tail(chain),
                 Tail(chain)[j] = Tail(chain)[k]
          PROVE  j = k
      <4>1. j + 1 = k + 1
        BY <1>3, <3>2 DEF ChainInv, Waits
      <4> QED BY <3>1, <4>1
    <3> QED BY <3>2
  <2>2. \A k \in DOMAIN Tail(chain) : Tail(chain)[k] \in seen /\ rows[Tail(chain)[k]] = "queued"
    BY <1>3 DEF ChainInv, Waits
  <2> QED BY <1>1, <2>1, <2>2 DEF Waits
<1> HIDE DEF t
<1>8. AllPast(queue, chain', seen) /\ Acked(uplink, chain', seen) /\ Acked(unsent, chain', seen)
  BY <1>6 DEF ChainInv, AllPast, Acked
<1>9. AllPast(queue', chain', seen)
  <2>1. CASE queue' = queue
    BY <1>8, <2>1
  <2>2. CASE queue' = Append(queue, t)
    BY <1>2, <1>5, <1>8, <2>2, AppendElements DEF AllPast
  <2>3. CASE queue' = <<t>>
    <3>1. \A k \in DOMAIN <<t>> : <<t>>[k] = t
      OBVIOUS
    <3> QED BY <1>5, <2>3, <3>1 DEF AllPast
  <2> QED BY <1>1, <2>1, <2>2, <2>3
<1>10. Acked(uplink', chain', seen) /\ Acked(unsent', chain', seen)
  <2>1. CASE UNCHANGED <<uplink, unsent>>
    BY <1>8, <2>1
  <2>2. CASE Emit(Consumed(t))
    <3> DEFINE p == Consumed(t)
    <3>1. p.turn = t
      BY DEF Consumed
    <3> HIDE DEF p
    <3>2. /\ uplink' = uplink \/ uplink' = Append(uplink, p)
          /\ unsent' = unsent \/ unsent' = Append(unsent, p)
      BY <2>2, EmitAppends DEF p
    <3>3. Acked(Append(uplink, p), chain', seen) /\ Acked(Append(unsent, p), chain', seen)
      BY <1>2, <1>5, <1>8, <3>1, AckedLines
    <3> QED BY <1>8, <3>2, <3>3
  <2> QED BY <1>1, <2>1, <2>2
<1>11. OnItsWay(downlink, rows, seen)
  BY DEF ChainInv
<1> DEFINE after == /\ Waits(chain', rows', seen') /\ AllPast(queue', chain', seen')
                    /\ Acked(uplink', chain', seen') /\ Acked(unsent', chain', seen')
                    /\ OnItsWay(downlink', rows', seen')
<1>12. after
  BY <1>1, <1>7, <1>9, <1>10, <1>11
<1>13. after = ChainInv'
  BY DEF ChainInv, Waits, AllPast, Acked, OnItsWay, Past
<1> QED BY <1>12, <1>13

\* The launcher takes a turn: it waits in no handler and may be acknowledged.
LEMMA TakeKeepsChain ==
    ASSUME TypeOK, ChainInv, TakeTurn
    PROVE  ChainInv'
<1> DEFINE t == Head(queue)
           p == Consumed(t)
<1>1. /\ queue # <<>> /\ queue' = Tail(queue) /\ UNCHANGED <<chain, rows, seen, downlink>>
      /\ Emit(p)
  BY DEF TakeTurn, hubVars
<1>2. queue \in Seq(Turn) /\ uplink \in Seq(Packet) /\ unsent \in Seq(Packet)
  BY DEF TypeOK, CliType, NetType
<1>3. Past(t, chain, seen)
  <2>1. 1 \in DOMAIN queue /\ t = queue[1]
    BY <1>1, <1>2
  <2> QED BY <2>1 DEF ChainInv, AllPast
<1>4. p.turn = t
  BY DEF Consumed
<1> HIDE DEF p, t
<1>5. /\ uplink' = uplink \/ uplink' = Append(uplink, p)
      /\ unsent' = unsent \/ unsent' = Append(unsent, p)
  BY <1>1, EmitAppends
<1>6. Acked(uplink', chain, seen) /\ Acked(unsent', chain, seen)
  BY <1>2, <1>3, <1>4, <1>5, AckedLines DEF ChainInv
<1>7. AllPast(queue', chain, seen)
  BY <1>1, <1>2, TailElements DEF ChainInv, AllPast
<1> DEFINE after == /\ Waits(chain', rows', seen') /\ AllPast(queue', chain', seen')
                    /\ Acked(uplink', chain', seen') /\ Acked(unsent', chain', seen')
                    /\ OnItsWay(downlink', rows', seen')
<1>8. after
  BY <1>1, <1>6, <1>7 DEF ChainInv
<1>9. after = ChainInv'
  BY DEF ChainInv, Waits, AllPast, Acked, OnItsWay, Past
<1> QED BY <1>8, <1>9

\* The process emits something else than an acknowledgement.
LEMMA EmissionKeepsChain ==
    ASSUME TypeOK, ChainInv, UNCHANGED <<chain, queue, seen, rows>>,
           NEW p, p.kind # "consumed",
           uplink' = uplink \/ uplink' = Append(uplink, p),
           unsent' = unsent \/ unsent' = Append(unsent, p) \/ unsent' = <<>>,
           downlink' = downlink \/ (downlink # <<>> /\ downlink' = Tail(downlink))
    PROVE  ChainInv'
<1>1. uplink \in Seq(Packet) /\ unsent \in Seq(Packet) /\ downlink \in Seq(Request)
  BY DEF TypeOK, NetType
<1>2. Acked(uplink', chain, seen) /\ Acked(unsent', chain, seen)
  BY <1>1, AckedLines DEF ChainInv
<1>3. \A k \in DOMAIN downlink' : \E l \in DOMAIN downlink : downlink'[k] = downlink[l]
  BY <1>1, TailElements
<1>4. KeepsQueued
  BY DEF KeepsQueued
<1> QED BY <1>2, <1>3, <1>4, ChainStays

LEMMA CliKeepsChain ==
    ASSUME TypeOK, ChainInv, CliStep \/ Quit \/ Crash
    PROVE  ChainInv'
<1>1. downlink \in Seq(Request)
  BY DEF TypeOK, NetType
<1>2. CASE ReceiveTurn
  <2> DEFINE t == Head(downlink).turn
  <2>1. /\ downlink # <<>> /\ Head(downlink).kind = "turn" /\ downlink' = Tail(downlink)
        /\ Read(t) /\ UNCHANGED <<rows, uplink, unsent>>
    BY <1>2 DEF ReceiveTurn, hubVars
  <2>2. 1 \in DOMAIN downlink /\ Head(downlink) = downlink[1]
    BY <1>1, <2>1
  <2>3. t \in Turn /\ (t \in seen \/ rows[t] = "queued")
    BY <2>1, <2>2, WaitingTurns DEF ChainInv, OnItsWay
  <2>4. \A k \in DOMAIN downlink' : \E l \in DOMAIN downlink : downlink'[k] = downlink[l]
    BY <1>1, <2>1, TailElements
  <2> HIDE DEF t
  <2> QED BY <2>1, <2>3, <2>4, ReadKeepsChain
<1>3. ASSUME NEW t \in Turn, BackfillTurn(t) PROVE ChainInv'
  <2>1. Read(t) /\ rows[t] = "queued" /\ UNCHANGED <<rows, uplink, unsent, downlink>>
    BY <1>3 DEF BackfillTurn, Queued, hubVars, netVars
  <2> QED BY <2>1, ReadKeepsChain
<1>4. CASE QueueTurn
  BY <1>4, QueueKeepsChain
<1>5. CASE TakeTurn
  BY <1>5, TakeKeepsChain
<1>6. CASE KeepAlive \/ AgentStarts \/ TurnEnds \/ StopAgent
  <2>1. PICK p \in {Alive(thinking), Alive(TRUE), Alive(FALSE), End} : Emit(p) \/ EmitVolatile(p)
    BY <1>6 DEF KeepAlive, AgentStarts, TurnEnds, StopAgent
  <2>2. UNCHANGED <<chain, queue, seen, rows, downlink>>
    BY <1>6 DEF KeepAlive, AgentStarts, TurnEnds, StopAgent, hubVars
  <2>3. p.kind # "consumed"
    BY <2>1, KindsOfPackets
  <2> QED BY <2>1, <2>2, <2>3, EmitAppends, EmissionKeepsChain
<1>7. CASE ReceiveHandoff
  <2> DEFINE p == Reply(Head(downlink).call, ~Refuses)
  <2>1. /\ downlink # <<>> /\ downlink' = Tail(downlink) /\ uplink' = Append(uplink, p)
        /\ UNCHANGED <<chain, queue, seen, rows, unsent>>
    BY <1>7 DEF ReceiveHandoff, hubVars
  <2>2. p.kind # "consumed"
    BY DEF Reply
  <2> HIDE DEF p
  <2> QED BY <2>1, <2>2, EmissionKeepsChain
<1>8. CASE Exit \/ Crash \/ Quit
  <2>1. /\ UNCHANGED <<chain, queue, seen, rows, uplink, downlink>>
        /\ unsent' = unsent \/ unsent' = <<>>
    BY <1>8 DEF Exit, Crash, Quit, hubVars, netVars
  <2>2. End.kind # "consumed"
    BY KindsOfPackets
  <2> QED BY <2>1, <2>2, EmissionKeepsChain
<1> QED BY <1>2, <1>3, <1>4, <1>5, <1>6, <1>7, <1>8 DEF CliStep

\* The acknowledgement of a turn takes nothing from the turns that wait.
LEMMA HubKeepsChain ==
    ASSUME TypeOK, ChainInv, HubReceives
    PROVE  ChainInv'
<1> DEFINE p == Head(uplink)
<1>1. /\ uplink # <<>> /\ uplink' = Tail(uplink)
      /\ UNCHANGED <<chain, queue, seen, unsent, downlink>>
  BY DEF HubReceives, cliVars
<1>2. uplink \in Seq(Packet) /\ rows \in [Turn -> {"none", "accepted", "queued", "invoked"}]
  BY DEF TypeOK, NetType, ReleaseType
<1>3. p \in Packet /\ 1 \in DOMAIN uplink /\ p = uplink[1]
  BY <1>1, <1>2, HeadAndTail
<1>4. UNCHANGED rows \/ (p.kind = "consumed" /\ rows' = [rows EXCEPT ![p.turn] = "invoked"])
  BY DEF HubReceives
<1> HIDE DEF p
<1>5. Acked(uplink', chain, seen) /\ Acked(unsent', chain, seen)
  BY <1>1, <1>2, AckedLines DEF ChainInv
<1>6. Waits(chain, rows', seen) /\ OnItsWay(downlink, rows', seen)
  <2>1. CASE UNCHANGED rows
    BY <2>1 DEF ChainInv
  <2>2. CASE p.kind = "consumed" /\ rows' = [rows EXCEPT ![p.turn] = "invoked"]
    <3>1. Past(p.turn, chain, seen)
      BY <1>3, <2>2 DEF ChainInv, Acked
    <3>2. \A u \in Turn : u # p.turn => rows'[u] = rows[u]
      BY <1>2, <2>2
    <3>3. Waits(chain, rows', seen)
      BY <3>1, <3>2, WaitingTurns DEF ChainInv, Waits, Past
    <3>4. OnItsWay(downlink, rows', seen)
      BY <3>1, <3>2, WaitingTurns DEF ChainInv, OnItsWay, Past
    <3> QED BY <3>3, <3>4
  <2> QED BY <1>4, <2>1, <2>2
<1> DEFINE after == /\ Waits(chain', rows', seen') /\ AllPast(queue', chain', seen')
                    /\ Acked(uplink', chain', seen') /\ Acked(unsent', chain', seen')
                    /\ OnItsWay(downlink', rows', seen')
<1>7. after
  BY <1>1, <1>5, <1>6 DEF ChainInv
<1>8. after = ChainInv'
  BY DEF ChainInv, Waits, AllPast, Acked, OnItsWay, Past
<1> QED BY <1>7, <1>8

\* A turn is posted, or a hand-off asked for.
LEMMA AskingKeepsChain ==
    ASSUME TypeOK, ChainInv,
           Release \/ ReleaseOffline \/ \E t \in Turn : AcceptPost(t) \/ PostTurn(t)
    PROVE  ChainInv'
<1>1. UNCHANGED <<chain, queue, seen, uplink, unsent>>
  BY DEF Release, ReleaseOffline, AcceptPost, PostTurn, cliVars, netVars
<1>2. /\ downlink \in Seq(Request)
      /\ rows \in [Turn -> {"none", "accepted", "queued", "invoked"}]
  BY DEF TypeOK, NetType, ReleaseType
<1>3. KeepsQueued
  BY <1>2 DEF KeepsQueued, Release, ReleaseOffline, AcceptPost, PostTurn
<1> DEFINE Fresh(r) == r.kind = "turn" => rows'[r.turn] = "queued"
           Known(r) == (\E l \in DOMAIN downlink : r = downlink[l]) \/ Fresh(r)
<1>4. \A k \in DOMAIN downlink' : Known(downlink'[k])
  <2>1. CASE UNCHANGED downlink
    BY <2>1
  <2>2. ASSUME NEW r, downlink' = Append(downlink, r), Fresh(r)
        PROVE  \A k \in DOMAIN downlink' : Known(downlink'[k])
    <3> HIDE DEF Fresh
    <3>1. \A k \in DOMAIN Append(downlink, r) : Known(Append(downlink, r)[k])
      BY <1>2, <2>2, AppendElements
    <3> QED BY <2>2, <3>1
  <2>3. CASE Release \/ ReleaseOffline
    <3>1. UNCHANGED downlink \/ downlink' = Append(downlink, Handoff(call.id + 1))
      BY <2>3 DEF Release, ReleaseOffline, netVars
    <3>2. Fresh(Handoff(call.id + 1))
      BY DEF Handoff
    <3> HIDE DEF Fresh
    <3> QED BY <2>1, <2>2, <3>1, <3>2
  <2>4. ASSUME NEW t \in Turn, AcceptPost(t) \/ PostTurn(t)
        PROVE  \/ UNCHANGED downlink
               \/ downlink' = Append(downlink, Deliver(t)) /\ rows'[t] = "queued"
    BY <1>2, <2>4 DEF AcceptPost, PostTurn, netVars
  <2>5. ASSUME NEW t \in Turn, AcceptPost(t) \/ PostTurn(t)
        PROVE  \A k \in DOMAIN downlink' : Known(downlink'[k])
    <3>1. rows'[t] = "queued" => Fresh(Deliver(t))
      BY DEF Deliver
    <3> HIDE DEF Fresh
    <3> QED BY <2>1, <2>2, <2>4, <2>5, <3>1
  <2> QED BY <2>3, <2>5
<1>5. Acked(uplink', chain, seen) /\ Acked(unsent', chain, seen)
  BY <1>1 DEF ChainInv
<1> QED BY <1>1, <1>3, <1>4, <1>5, ChainStays

LEMMA NetworkKeepsChain ==
    ASSUME TypeOK, ChainInv,
           \/ Expire \/ RpcTimesOut \/ WaitEnds
           \/ Stall \/ Recover \/ Break \/ NoticeExit \/ Connect \/ Tick
    PROVE  ChainInv'
<1>1. UNCHANGED <<chain, queue, seen, rows>> /\ (downlink' = downlink \/ downlink' = <<>>)
  BY DEF Expire, RpcTimesOut, WaitEnds, Stall, Recover, Break, NoticeExit, Connect, Tick,
         Disconnected, hubVars, cliVars, netVars
<1>2. uplink \in Seq(Packet) /\ unsent \in Seq(Packet)
  BY DEF TypeOK, NetType
<1>3. Acked(uplink, chain, seen) /\ Acked(unsent, chain, seen) /\ Acked(<<>>, chain, seen)
  BY DEF ChainInv, Acked
<1>4. Acked(uplink', chain, seen) /\ Acked(unsent', chain, seen)
  <2>1. CASE Expire \/ RpcTimesOut \/ WaitEnds \/ Stall \/ Recover
    BY <1>3, <2>1 DEF Expire, RpcTimesOut, WaitEnds, Stall, Recover, netVars
  <2>2. CASE Break \/ NoticeExit
    BY <1>3, <2>2 DEF Break, NoticeExit, Disconnected
  <2>3. CASE Connect
    <3> DEFINE pair == <<Register, Alive(FALSE)>>
    <3>1. uplink' = unsent \o pair /\ unsent' = <<>>
      BY <2>3 DEF Connect
    <3>2. pair \in Seq(Packet) /\ \A k \in DOMAIN pair : pair[k].kind # "consumed"
      <4>1. Register \in Packet /\ Alive(FALSE) \in Packet
        BY PacketTypes, Zenon
      <4>2. ASSUME NEW x \in Packet, NEW y \in Packet, x.kind # "consumed", y.kind # "consumed"
            PROVE  <<x, y>> \in Seq(Packet) /\ \A k \in DOMAIN <<x, y>> : <<x, y>>[k].kind # "consumed"
        BY <4>2
      <4>3. Register.kind # "consumed" /\ Alive(FALSE).kind # "consumed"
        BY KindsOfPackets
      <4> QED BY <4>1, <4>2, <4>3, Zenon
    <3> HIDE DEF pair
    <3>3. Acked(unsent \o pair, chain, seen)
      BY <1>2, <1>3, <3>2, ConcatElements DEF Acked
    <3> QED BY <1>3, <3>1, <3>3
  <2>4. CASE Tick
    <3>1. uplink' = [k \in DOMAIN uplink |-> Older(uplink[k])] /\ unsent' = unsent
      BY <2>4 DEF Tick
    <3>2. ASSUME NEW p \in Packet, Older(p).kind = "consumed"
          PROVE  Older(p) = p
      <4>1. CASE p.kind # "alive"
        BY <4>1 DEF Older
      <4>2. CASE p.kind = "alive"
        <5>1. p \in [kind : {"alive"}, thinking : BOOLEAN, age : 0..OldAge]
          BY <4>2 DEF Packet
        <5> DEFINE n == Lesser(p.age + 1, OldAge)
        <5>2. Older(p) = [p EXCEPT !.age = n]
          BY <4>2 DEF Older
        <5> HIDE DEF n
        <5>3. [p EXCEPT !.age = n].kind = "alive"
          BY <4>2, <5>1
        <5> QED BY <3>2, <5>2, <5>3
      <4> QED BY <4>1, <4>2
    <3>3. \A k \in DOMAIN uplink : Older(uplink[k]).kind = "consumed" => Older(uplink[k]) = uplink[k]
      BY <1>2, <3>2
    <3>4. Acked(uplink', chain, seen)
      BY <1>3, <3>1, <3>3 DEF Acked
    <3> QED BY <1>3, <3>1, <3>4
  <2> QED BY <2>1, <2>2, <2>3, <2>4
<1>5. \A k \in DOMAIN downlink' : \E l \in DOMAIN downlink : downlink'[k] = downlink[l]
  BY <1>1
<1>6. KeepsQueued
  BY <1>1 DEF KeepsQueued
<1> QED BY <1>1, <1>4, <1>5, <1>6, ChainStays

LEMMA ChainStep ==
    ASSUME TypeOK, ChainInv, [Next]_vars
    PROVE  ChainInv'
<1>1. CASE Next
  BY <1>1, CliKeepsChain, HubKeepsChain, AskingKeepsChain, NetworkKeepsChain DEF Next, HubStep
<1>2. CASE UNCHANGED vars
  <2>1. UNCHANGED <<chain, queue, seen, rows, uplink, unsent, downlink>>
    BY <1>2 DEF vars, hubVars, cliVars, netVars
  <2> QED BY <2>1 DEF ChainInv, Waits, AllPast, Acked, OnItsWay, Past
<1> QED BY <1>1, <1>2

LEMMA InitChain == Init => ChainInv
<1> SUFFICES ASSUME Init PROVE ChainInv
  OBVIOUS
<1>1. /\ chain = <<>> /\ queue = <<>> /\ unsent = <<>> /\ downlink = <<>>
      /\ uplink = <<Register, Alive(FALSE)>>
  BY Zenon DEF Init
<1>2. Acked(<<Register, Alive(FALSE)>>, chain, seen)
  <2>1. ASSUME NEW x, NEW y, x.kind # "consumed", y.kind # "consumed"
        PROVE  \A k \in DOMAIN <<x, y>> : <<x, y>>[k].kind # "consumed"
    BY <2>1
  <2>2. Register.kind # "consumed" /\ Alive(FALSE).kind # "consumed"
    BY KindsOfPackets
  <2>3. \A k \in DOMAIN <<Register, Alive(FALSE)>> : <<Register, Alive(FALSE)>>[k].kind # "consumed"
    BY <2>1, <2>2, Zenon
  <2> QED BY <2>3, Zenon DEF Acked
<1>3. Waits(<<>>, rows, seen) /\ AllPast(<<>>, chain, seen) /\ Acked(<<>>, chain, seen)
      /\ OnItsWay(<<>>, rows, seen)
  BY DEF Waits, AllPast, Acked, OnItsWay
<1> QED BY <1>1, <1>2, <1>3, Zenon DEF ChainInv

\* A hand-off is on its way only while the session is marked and nothing queued.
HandoffAlone ==
    \A k \in DOMAIN downlink : downlink[k].kind = "handoff" => external /\ Queued = {}

LEMMA HandoffAloneStep ==
    ASSUME TypeOK, HandoffAlone, [Next]_vars
    PROVE  HandoffAlone'
<1>1. /\ downlink \in Seq(Request)
      /\ rows \in [Turn -> {"none", "accepted", "queued", "invoked"}]
  BY DEF TypeOK, NetType, ReleaseType
\* While the session is marked no turn becomes queued.
<1>2. external /\ Queued = {} => external' /\ Queued' = {}
  <2>1. ASSUME external, Queued = {} PROVE Queued' = {}
    <3>1. CASE UNCHANGED rows
      BY <2>1, <3>1 DEF Queued
    <3>2. ASSUME NEW t \in Turn, AcceptPost(t) \/ PostTurn(t) PROVE Queued' = {}
      <4>1. \E v : v # "queued" /\ rows' = [rows EXCEPT ![t] = v]
        BY <2>1, <3>2 DEF AcceptPost, PostTurn, RefusesPost
      <4> QED BY <1>1, <2>1, <4>1 DEF Queued
    <3>3. CASE HubReceives
      <4>1. UNCHANGED rows \/ rows' = [rows EXCEPT ![Head(uplink).turn] = "invoked"]
        BY <3>3 DEF HubReceives
      <4> QED BY <1>1, <2>1, <4>1 DEF Queued
    <3>4. CASE Next
      <4>1. CliStep \/ Quit \/ Crash => UNCHANGED rows
        BY DEF CliStep, KeepAlive, ReceiveTurn, BackfillTurn, QueueTurn, TakeTurn, AgentStarts,
               TurnEnds, ReceiveHandoff, StopAgent, Exit, Quit, Crash, hubVars
      <4>2. ReleaseOffline \/ Release \/ Expire \/ RpcTimesOut \/ WaitEnds => UNCHANGED rows
        BY DEF ReleaseOffline, Release, Expire, RpcTimesOut, WaitEnds
      <4>3. Stall \/ Recover \/ Break \/ NoticeExit \/ Connect \/ Tick => UNCHANGED rows
        BY DEF Stall, Recover, Break, NoticeExit, Connect, Tick, hubVars
      <4> QED BY <3>1, <3>2, <3>3, <3>4, <4>1, <4>2, <4>3 DEF Next, HubStep
    <3> QED BY <3>1, <3>4 DEF vars, hubVars
  <2> QED BY <2>1, MarkerStays
<1> DEFINE Covered == external' /\ Queued' = {}
           Known(r) == r.kind = "handoff" => (\E l \in DOMAIN downlink : r = downlink[l]) \/ Covered
<1>3. \A k \in DOMAIN downlink' : Known(downlink'[k])
  <2>1. CASE UNCHANGED downlink \/ downlink' = <<>>
    BY <2>1
  <2>2. CASE downlink # <<>> /\ downlink' = Tail(downlink)
    BY <1>1, <2>2, TailElements
  <2>3. ASSUME NEW t \in Turn, PostTurn(t)
        PROVE  \A k \in DOMAIN downlink' : Known(downlink'[k])
    <3>1. UNCHANGED downlink \/ downlink' = Append(downlink, Deliver(t))
      BY <2>3 DEF PostTurn
    <3> DEFINE r == Deliver(t)
    <3>2. r.kind # "handoff"
      BY DEF Deliver
    <3> HIDE DEF r
    <3>3. \A k \in DOMAIN Append(downlink, r) : Known(Append(downlink, r)[k])
      BY <1>1, <3>2, AppendElements
    <3> QED BY <2>1, <3>1, <3>3 DEF r
  <2>4. CASE Release
    <3>1. \/ UNCHANGED downlink
          \/ downlink' = Append(downlink, Handoff(call.id + 1)) /\ external' = TRUE
      BY <2>4 DEF Release
    <3>2. Queued' = {}
      BY <2>4 DEF Release, Releasable, Queued
    <3> QED BY <1>1, <2>1, <3>1, <3>2, AppendElements
  <2>5. CASE Next
    <3>1. CliStep \/ Quit \/ Crash
            => UNCHANGED downlink \/ (downlink # <<>> /\ downlink' = Tail(downlink))
      BY DEF CliStep, KeepAlive, ReceiveTurn, BackfillTurn, QueueTurn, TakeTurn, AgentStarts,
             TurnEnds, ReceiveHandoff, StopAgent, Exit, Quit, Crash, netVars
    <3>2. ReleaseOffline \/ HubStep \/ (\E t \in Turn : AcceptPost(t)) => UNCHANGED downlink
      BY DEF ReleaseOffline, HubStep, Expire, RpcTimesOut, WaitEnds, HubReceives, AcceptPost, netVars
    <3>3. Stall \/ Recover \/ Break \/ NoticeExit \/ Connect \/ Tick
            => UNCHANGED downlink \/ downlink' = <<>>
      BY DEF Stall, Recover, Break, NoticeExit, Disconnected, Connect, Tick
    <3> QED BY <2>1, <2>2, <2>3, <2>4, <2>5, <3>1, <3>2, <3>3 DEF Next
  <2> QED BY <2>1, <2>5 DEF vars, netVars
<1>4. \A k \in DOMAIN downlink' : downlink'[k].kind = "handoff" => external' /\ Queued' = {}
  BY <1>2, <1>3 DEF HandoffAlone
<1> QED BY <1>4 DEF HandoffAlone

\* An accepted hand-off abandons no turn that waits: the hub asks for one only
\* with an empty queue and behind its marker, and what waits in a handler, where
\* the process does not look, is still queued in the table.
THEOREM NoTurnIsHandedAway == Spec => HandoffAbandonsNone
<1>1. Init => HandoffAlone
  <2>1. Init => downlink = <<>>
    BY Zenon DEF Init
  <2> QED BY <2>1 DEF HandoffAlone
<1>2. TypeOK /\ HandoffAlone /\ [Next]_vars => HandoffAlone'
  BY HandoffAloneStep
<1>3. TypeOK /\ ChainInv /\ [Next]_vars => ChainInv'
  BY ChainStep
<1>4. ASSUME TypeOK, ChainInv, HandoffAlone, [Next]_vars, ~handed, handed'
      PROVE  Queued = {} /\ chain = <<>>
  <2>1. downlink \in Seq(Request) /\ chain \in Seq(Turn)
    BY <1>4 DEF TypeOK, NetType, CliType
  <2>2. ReceiveHandoff
    <3>1. CliStep => ReceiveHandoff \/ UNCHANGED handed
      BY DEF CliStep, KeepAlive, ReceiveTurn, BackfillTurn, Read, QueueTurn, TakeTurn,
             AgentStarts, TurnEnds, StopAgent, Exit
    <3>2. (\E t \in Turn : AcceptPost(t) \/ PostTurn(t)) \/ ReleaseOffline \/ Release \/ HubStep
            => UNCHANGED handed
      BY DEF AcceptPost, PostTurn, ReleaseOffline, Release, HubStep, Expire, RpcTimesOut,
             WaitEnds, HubReceives, cliVars
    <3>3. Quit \/ Crash \/ Stall \/ Recover \/ Break \/ NoticeExit \/ Connect \/ Tick
            => UNCHANGED handed
      BY DEF Quit, Crash, Stall, Recover, Break, NoticeExit, Connect, Tick, cliVars
    <3> QED BY <1>4, <3>1, <3>2, <3>3 DEF Next, vars, cliVars
  <2>3. 1 \in DOMAIN downlink /\ downlink[1].kind = "handoff"
    BY <2>1, <2>2 DEF ReceiveHandoff
  <2>4. Queued = {}
    BY <1>4, <2>3 DEF HandoffAlone
  <2>5. ASSUME chain # <<>> PROVE FALSE
    <3>1. 1 \in DOMAIN chain
      BY <2>1, <2>5
    <3>2. chain[1] \in Queued
      BY <1>4, <3>1, WaitingTurns DEF ChainInv, Waits, Queued
    <3> QED BY <2>4, <3>2
  <2> QED BY <2>4, <2>5
<1>5. TypeOK /\ ChainInv /\ HandoffAlone /\ [Next]_vars
        => [~handed /\ handed' => Queued = {} /\ chain = <<>>]_vars
  BY <1>4
<1> QED BY <1>1, <1>2, <1>3, <1>5, InitChain, WellTyped, PTL DEF Spec, HandoffAbandonsNone
=============================================================================
