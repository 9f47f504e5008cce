-------------------------- MODULE ClaudeLoopProofs --------------------------
(* What holds of ClaudeLoop for every choice of its constants. *)
EXTENDS ClaudeLoop, SequenceTheorems, TLAPS

USE LoopAssumption DEF LoopAssumption

(* Lemmas about sequences and items. *)

LEMMA Appended ==
    ASSUME NEW S, NEW s \in Seq(S), NEW x \in S
    PROVE  /\ Append(s, x) \in Seq(S)
           /\ Len(s) \in Nat /\ DOMAIN s = 1 .. Len(s)
           /\ DOMAIN Append(s, x) = 1 .. (Len(s) + 1)
           /\ \A k \in 1 .. Len(s) : Append(s, x)[k] = s[k]
           /\ Append(s, x)[Len(s) + 1] = x
  OBVIOUS

LEMMA Tailed ==
    ASSUME NEW S, NEW s \in Seq(S), s # <<>>
    PROVE  /\ Tail(s) \in Seq(S) /\ Head(s) \in S
           /\ Len(s) \in Nat /\ Len(s) > 0 /\ DOMAIN s = 1 .. Len(s)
           /\ Head(s) = s[1]
           /\ DOMAIN Tail(s) = 1 .. (Len(s) - 1)
           /\ \A k \in 1 .. (Len(s) - 1) : Tail(s)[k] = s[k + 1]
  OBVIOUS

LEMMA Prefixed ==
    ASSUME NEW S, NEW s \in Seq(S), NEW x \in S
    PROVE  /\ <<x>> \o s \in Seq(S)
           /\ Len(s) \in Nat /\ DOMAIN s = 1 .. Len(s)
           /\ DOMAIN (<<x>> \o s) = 1 .. (Len(s) + 1)
           /\ (<<x>> \o s)[1] = x
           /\ \A k \in 1 .. Len(s) : (<<x>> \o s)[k + 1] = s[k]
  OBVIOUS

LEMMA Removed ==
    ASSUME NEW S, NEW s \in Seq(S), NEW i \in DOMAIN s
    PROVE  /\ RemoveAt(s, i) \in Seq(S)
           /\ Len(s) \in Nat /\ DOMAIN s = 1 .. Len(s)
           /\ DOMAIN RemoveAt(s, i) = 1 .. (Len(s) - 1)
           /\ \A k \in 1 .. (Len(s) - 1) :
                RemoveAt(s, i)[k] = s[IF k < i THEN k ELSE k + 1]
<1> DEFINE a == SubSeq(s, 1, i - 1)
           b == SubSeq(s, i + 1, Len(s))
<1>1. Len(s) \in Nat /\ DOMAIN s = 1 .. Len(s) /\ i \in 1 .. Len(s)
      /\ \A k \in 1 .. Len(s) : s[k] \in S
  OBVIOUS
<1>2. /\ a \in Seq(S) /\ Len(a) = i - 1
      /\ \A k \in 1 .. (i - 1) : a[k] = s[k]
  <2>1. \A k \in 1 .. (i - 1) : s[k] \in S
    BY <1>1
  <2>2. /\ a \in Seq(S) /\ Len(a) = IF 1 <= i - 1 THEN (i - 1) - 1 + 1 ELSE 0
        /\ \A k \in 1 .. (i - 1) - 1 + 1 : a[k] = s[1 + k - 1]
    BY <1>1, <2>1, SubSeqProperties
  <2> QED BY <1>1, <2>2
<1>3. /\ b \in Seq(S) /\ Len(b) = Len(s) - i
      /\ \A k \in 1 .. (Len(s) - i) : b[k] = s[i + k]
  <2>1. \A k \in (i + 1) .. Len(s) : s[k] \in S
    BY <1>1
  <2>2. /\ b \in Seq(S)
        /\ Len(b) = IF i + 1 <= Len(s) THEN Len(s) - (i + 1) + 1 ELSE 0
        /\ \A k \in 1 .. Len(s) - (i + 1) + 1 : b[k] = s[(i + 1) + k - 1]
    BY <1>1, <2>1, SubSeqProperties
  <2> QED BY <1>1, <2>2
<1>4. RemoveAt(s, i) = a \o b
  BY DEF RemoveAt
<1> HIDE DEF a, b
<1>5. /\ a \o b \in Seq(S) /\ Len(a \o b) = Len(s) - 1
      /\ \A k \in 1 .. (Len(s) - 1) :
           (a \o b)[k] = IF k <= Len(a) THEN a[k] ELSE b[k - Len(a)]
  <2>1. Len(a) + Len(b) = Len(s) - 1
    BY <1>1, <1>2, <1>3
  <2>2. /\ a \o b \in Seq(S) /\ Len(a \o b) = Len(a) + Len(b)
        /\ \A k \in 1 .. Len(a) + Len(b) :
             (a \o b)[k] = IF k <= Len(a) THEN a[k] ELSE b[k - Len(a)]
    BY <1>2, <1>3, ConcatProperties
  <2> QED BY <2>1, <2>2
<1>6. ASSUME NEW k \in 1 .. (Len(s) - 1)
      PROVE  (a \o b)[k] = s[IF k < i THEN k ELSE k + 1]
  <2>1. CASE k < i
    BY <1>1, <1>2, <1>5, <2>1
  <2>2. CASE ~(k < i)
    <3>1. k - (i - 1) \in 1 .. (Len(s) - i) /\ i + (k - (i - 1)) = k + 1
      BY <1>1, <2>2
    <3>2. b[k - (i - 1)] = s[k + 1]
      BY <1>3, <3>1
    <3> QED BY <1>1, <1>2, <1>5, <2>2, <3>2
  <2> QED BY <2>1, <2>2
<1>7. DOMAIN (a \o b) = 1 .. (Len(s) - 1)
  <2>1. DOMAIN (a \o b) = 1 .. Len(a \o b)
    BY <1>5
  <2> QED BY <1>5, <2>1
<1> QED BY <1>1, <1>4, <1>5, <1>6, <1>7

LEMMA RestartIsItem == Restart \in Item
BY DEF Restart, Item

LEMMA TurnsOfItems ==
    ASSUME NEW s \in Seq(Item)
    PROVE  TurnsOf(s) \subseteq Turn
<1>1. \A k \in DOMAIN s : s[k] \in Item
  OBVIOUS
<1>2. \A k \in DOMAIN s : s[k].turn \in 0 .. MaxTurns
  BY <1>1 DEF Item
<1> QED BY <1>2 DEF TurnsOf, Turn

LEMMA WithTurnType ==
    ASSUME NEW s \in Seq(Turn), NEW item \in Item
    PROVE  WithTurn(s, item) \in Seq(Turn)
<1>1. item.turn \in 0 .. MaxTurns
  BY DEF Item
<1>2. item.turn # 0 => item.turn \in Turn
  BY <1>1 DEF Turn
<1> QED BY <1>2, Appended DEF WithTurn

(* Type correctness, one step per action of Next. *)

LEMMA Frames ==
    /\ LoopType /\ UNCHANGED loopVars => LoopType'
    /\ QueueType /\ UNCHANGED queueVars => QueueType'
    /\ PendingType /\ UNCHANGED pending => PendingType'
    /\ ClaudeType /\ UNCHANGED claudeVars => ClaudeType'
    /\ PastType /\ UNCHANGED pastVars => PastType'
    /\ LeftType /\ UNCHANGED left => LeftType'
<1>1. LoopType /\ UNCHANGED loopVars => LoopType'
  BY DEF LoopType, loopVars
<1>2. QueueType /\ UNCHANGED queueVars => QueueType'
  BY DEF QueueType, queueVars
<1>3. PendingType /\ UNCHANGED pending => PendingType'
  BY DEF PendingType
<1>4. ClaudeType /\ UNCHANGED claudeVars => ClaudeType'
  BY DEF ClaudeType, claudeVars
<1>5. PastType /\ UNCHANGED pastVars => PastType'
  BY DEF PastType, pastVars
<1>6. LeftType /\ UNCHANGED left => LeftType'
  BY DEF LeftType
<1> QED BY <1>1, <1>2, <1>3, <1>4, <1>5, <1>6

LEMMA SpendType ==
    ASSUME LeftType, NEW cause \in Cause, Spend(cause)
    PROVE  LeftType'
BY DEF LeftType, Spend

LEMMA HandOverType ==
    ASSUME LoopType, NEW reason, HandOver(reason),
           UNCHANGED onFailure, exitReason' = "none", aborted' = FALSE
    PROVE  LoopType'
BY DEF LoopType, HandOver

LEMMA SetReasonType ==
    ASSUME LoopType, NEW reason \in {"switch", "exit"}, SetReason(reason)
    PROVE  exitReason' \in {"none", "switch", "exit"}
BY DEF LoopType, SetReason

(* What is put aside when a launcher is left was a turn of the user. *)
LEMMA WaitingType ==
    ASSUME QueueType, PendingType
    PROVE  Waiting \subseteq Turn
<1>1. TurnsOf(queue) \subseteq Turn
  BY TurnsOfItems DEF QueueType
<1>2. pending # None => <<pending>> \in Seq(Item)
  BY DEF PendingType
<1>3. pending # None => TurnsOf(<<pending>>) \subseteq Turn
  BY <1>2, TurnsOfItems
<1> QED BY <1>1, <1>3 DEF Waiting

LEMMA IdleType == Idle => ClaudeType'
<1>1. <<>> \in Seq(Item)
  OBVIOUS
<1> QED BY <1>1 DEF Idle, ClaudeType

LEMMA EndLaunchType ==
    ASSUME TypeOK, EndLaunch
    PROVE  TypeOK'
<1>1. ClaudeType'
  BY IdleType DEF EndLaunch
<1>2. QueueType' /\ LeftType'
  BY DEF EndLaunch, StrayAfter, TypeOK, QueueType, LeftType
<1>3. CASE exitReason = "none"
  <2>1. LoopType'
    BY <1>3 DEF EndLaunch, Ended, TypeOK, LoopType
  <2>2. UNCHANGED <<pending, given, lost>>
    BY <1>3 DEF EndLaunch
  <2>3. PendingType' /\ PastType'
    BY <2>2 DEF TypeOK, PendingType, PastType
  <2> QED BY <1>1, <1>2, <2>1, <2>3 DEF TypeOK
<1>4. CASE exitReason # "none"
  <2>1. /\ HandOver(exitReason) /\ exitReason' = "none" /\ aborted' = FALSE
        /\ UNCHANGED <<onFailure, given>> /\ pending' = None
        /\ lost' = lost \cup (Waiting \ TurnsOf(queue))
    BY <1>4 DEF EndLaunch
  <2>2. LoopType'
    BY <2>1, HandOverType DEF TypeOK
  <2>3. PendingType' /\ PastType'
    BY <2>1, WaitingType DEF TypeOK, PendingType, PastType
  <2> QED BY <1>1, <1>2, <2>2, <2>3 DEF TypeOK
<1> QED BY <1>3, <1>4

LEMMA LaunchOverType ==
    ASSUME TypeOK, mode = "remote", LaunchOver,
           UNCHANGED <<mode, onFailure, exitReason, aborted, modeHash, fetch, request>>
    PROVE  LoopType' /\ ClaudeType'
<1>1. <<>> \in Seq(Item)
  OBVIOUS
<1>2. LoopType'
  BY DEF LaunchOver, TypeOK, LoopType
<1>3. ClaudeType'
  BY <1>1 DEF LaunchOver, TypeOK, ClaudeType
<1> QED BY <1>2, <1>3

LEMMA StartType ==
    ASSUME TypeOK, mode = "remote", NEW item \in Item, Start(item),
           modeHash' \in Mode \cup {NoMode}
    PROVE  LoopType' /\ ClaudeType' /\ PastType' /\ LeftType'
<1>1. PastType'
  <2>1. WithTurn(given, item) \in Seq(Turn)
    BY WithTurnType DEF TypeOK, PastType
  <2>2. TurnsOf(<<item>>) \subseteq Turn
    <3>1. <<item>> \in Seq(Item)
      OBVIOUS
    <3> QED BY <3>1, TurnsOfItems
  <2> QED BY <2>1, <2>2 DEF Start, TypeOK, PastType
<1>2. LoopType'
  BY DEF Start, TypeOK, LoopType
<1>3. item.mode \in Mode /\ <<item>> \in Seq(Item) /\ <<>> \in Seq(Item)
  BY DEF Item
<1>4. ClaudeType'
  BY <1>3 DEF Start, TypeOK, ClaudeType
<1>5. LeftType'
  BY DEF Start, TypeOK, LeftType
<1> QED BY <1>1, <1>2, <1>4, <1>5

LEMMA PromptIsItem ==
    ASSUME TypeOK, NEW p \in Prompts, sent < MaxTurns
    PROVE  [turn |-> sent + 1, mode |-> p.mode, kind |-> p.kind] \in Item
<1>1. p \in [mode : Mode, kind : {"plain", "clear", "compact"}]
  OBVIOUS
<1>2. p.mode \in Mode /\ p.kind \in {"plain", "clear", "compact"}
  BY <1>1
<1>3. sent + 1 \in 0 .. MaxTurns
  BY DEF TypeOK, QueueType
<1> QED BY <1>2, <1>3 DEF Item

LEMMA RemoteStages ==
    ASSUME LoopType
    PROVE  stage \in {"top", "asking", "claude", "ending"} <=> mode = "remote"
BY DEF LoopType

THEOREM TypeStep ==
    ASSUME TypeOK, [Next]_vars
    PROVE  TypeOK'
<1> USE DEF TypeOK
<1>1. CASE UserTurn
  <2>1. QueueType'
    <3>1. PICK p \in Prompts :
              LET item == [turn |-> sent + 1, mode |-> p.mode, kind |-> p.kind]
              IN queue' = IF Isolate(item) THEN <<item>> ELSE Append(queue, item)
      BY <1>1 DEF UserTurn
    <3> DEFINE item == [turn |-> sent + 1, mode |-> p.mode, kind |-> p.kind]
    <3>2. sent' = sent + 1 /\ sent < MaxTurns
      BY <1>1 DEF UserTurn
    <3>3. sent' \in 0 .. MaxTurns /\ item \in Item /\ stray' = stray
      BY <1>1, <3>2, PromptIsItem DEF UserTurn, QueueType
    <3>4. queue' = <<item>> \/ queue' = Append(queue, item)
      BY <3>1
    <3> HIDE DEF item
    <3>5. <<item>> \in Seq(Item) /\ Append(queue, item) \in Seq(Item)
      BY <3>3 DEF QueueType
    <3> QED BY <3>3, <3>4, <3>5 DEF QueueType
  <2>2. LoopType'
    BY <1>1 DEF UserTurn, SetReason, LoopType
  <2>3. PendingType' /\ ClaudeType' /\ PastType' /\ LeftType'
    BY <1>1, Frames DEF UserTurn
  <2> QED BY <2>1, <2>2, <2>3
<1>2. CASE LocalBegins
  <2>1. LoopType'
    BY <1>2 DEF LocalBegins, LoopType
  <2> QED BY <1>2, <2>1, Frames DEF LocalBegins
<1>3. CASE LocalEnds
  <2>1. LoopType'
    <3>1. PICK r \in {"exit", onFailure} : SetReason(r)
      BY <1>3 DEF LocalEnds
    <3>2. r \in {"switch", "exit"}
      BY DEF LoopType
    <3>3. exitReason' \in {"none", "switch", "exit"}
      BY <3>1, <3>2, SetReasonType
    <3> QED BY <1>3, <3>3 DEF LocalEnds, LoopType
  <2>2. LeftType'
    BY <1>3, SpendType, Frames DEF LocalEnds, Cause
  <2> QED BY <1>3, <2>1, <2>2, Frames DEF LocalEnds
<1>4. CASE LocalLeaves
  <2>1. LoopType'
    BY <1>4, HandOverType DEF LocalLeaves
  <2> QED BY <1>4, <2>1, Frames DEF LocalLeaves
<1>5. CASE LocalAbort
  <2>1. LoopType'
    BY <1>5, SetReasonType DEF LocalAbort, LoopType
  <2>2. LeftType'
    BY <1>5, SpendType DEF LocalAbort, Cause
  <2>3. QueueType'
    <3>1. <<>> \in Seq(Item)
      OBVIOUS
    <3> QED BY <1>5, <3>1 DEF LocalAbort, QueueType
  <2> QED BY <1>5, <2>1, <2>2, <2>3, Frames DEF LocalAbort
<1>6. CASE LocalSwitch
  <2>1. LoopType'
    BY <1>6, SetReasonType DEF LocalSwitch, LoopType
  <2>2. LeftType'
    BY <1>6, SpendType DEF LocalSwitch, Cause
  <2> QED BY <1>6, <2>1, <2>2, Frames DEF LocalSwitch
<1>7. CASE FirstFromPending
  <2>1. pending \in Item /\ modeHash' \in Mode \cup {NoMode}
    BY <1>7 DEF FirstFromPending, PendingType, ClaudeType
  <2>2. LoopType' /\ ClaudeType' /\ PastType' /\ LeftType'
    BY <1>7, <2>1, StartType DEF FirstFromPending
  <2>3. QueueType' /\ PendingType'
    BY <1>7 DEF FirstFromPending, Start, QueueType, PendingType
  <2> QED BY <2>2, <2>3
<1>8. CASE FirstFromQueue
  <2>1. queue \in Seq(Item) /\ queue # <<>> /\ queue' = Tail(queue) /\ mode = "remote"
    BY <1>8 DEF FirstFromQueue, CanAsk, QueueType
  <2>2. Head(queue) \in Item /\ Tail(queue) \in Seq(Item)
    BY <2>1, Tailed
  <2>3. CASE Isolate(Head(queue))
    <3>1. pending' = Head(queue) /\ stage' = "ending" /\ UNCHANGED <<sent, stray>>
      BY <1>8, <2>3 DEF FirstFromQueue
    <3>2. LoopType' /\ PendingType' /\ QueueType'
      BY <1>8, <2>1, <2>2, <2>3, <3>1
      DEF FirstFromQueue, LoopType, PendingType, QueueType
    <3> QED BY <1>8, <2>3, <3>2, Frames DEF FirstFromQueue
  <2>4. CASE ~Isolate(Head(queue))
    <3>1. /\ modeHash' = Head(queue).mode /\ Start(Head(queue))
          /\ UNCHANGED pending
      BY <1>8, <2>4 DEF FirstFromQueue
    <3>2. modeHash' \in Mode \cup {NoMode}
      BY <2>2, <3>1 DEF Item
    <3>3. LoopType' /\ ClaudeType' /\ PastType' /\ LeftType'
      BY <2>1, <2>2, <3>1, <3>2, StartType
    <3>4. QueueType' /\ PendingType'
      BY <2>1, <2>2, <3>1 DEF Start, QueueType, PendingType
    <3> QED BY <3>3, <3>4
  <2> QED BY <2>3, <2>4
<1>9. CASE WaitForFirst
  <2>1. LoopType'
    BY <1>9 DEF WaitForFirst, CanAsk, LoopType
  <2>2. QueueType'
    BY <1>9 DEF WaitForFirst, QueueType
  <2> QED BY <1>9, <2>1, <2>2, Frames DEF WaitForFirst
<1>10. CASE NextFromQueue
  <2>1. queue \in Seq(Item) /\ queue # <<>> /\ queue' = Tail(queue) /\ UNCHANGED <<sent, stray>>
    BY <1>10 DEF NextFromQueue, QueueType
  <2>2. Head(queue) \in Item /\ Tail(queue) \in Seq(Item)
    BY <2>1, Tailed
  <2>3. QueueType'
    BY <2>1, <2>2 DEF QueueType
  <2>4. LoopType' /\ LeftType'
    BY <1>10, Frames DEF NextFromQueue
  <2>5. Head(queue).mode \in Mode
    BY <2>2 DEF Item
  <2>6. Append(inbox, Head(queue)) \in Seq(Item)
    BY <2>2 DEF ClaudeType
  <2>7. ClaudeType'
    BY <1>10, <2>5, <2>6 DEF NextFromQueue, ClaudeType
  <2>8. PendingType'
    BY <1>10, <2>2 DEF NextFromQueue, PendingType
  <2>9. TurnsOf(<<Head(queue)>>) \subseteq Turn
    <3>1. <<Head(queue)>> \in Seq(Item)
      BY <2>2
    <3> QED BY <3>1, TurnsOfItems
  <2>10. WithTurn(given, Head(queue)) \in Seq(Turn)
    BY <2>2, WithTurnType DEF PastType
  <2>11. PastType'
    BY <1>10, <2>9, <2>10 DEF NextFromQueue, PastType, pastVars
  <2> QED BY <2>3, <2>4, <2>7, <2>8, <2>11
<1>11. CASE RemoteAbort \/ \E r \in {"switch", "exit"} : RemoteExit(r)
  <2>1. Signal /\ mode = "remote" /\ exitReason' \in {"none", "switch", "exit"}
    <3>1. CASE RemoteAbort
      BY <3>1 DEF RemoteAbort, LoopType
    <3>2. ASSUME NEW r \in {"switch", "exit"}, RemoteExit(r)
          PROVE  Signal /\ mode = "remote" /\ exitReason' \in {"none", "switch", "exit"}
      BY <3>2, SetReasonType DEF RemoteExit
    <3> QED BY <1>11, <3>1, <3>2
  <2>2. LeftType'
    BY <1>11, SpendType DEF RemoteAbort, RemoteExit, Cause
  <2>3. LoopType' /\ ClaudeType'
    BY <2>1 DEF Signal, LoopType, ClaudeType
  <2> QED BY <2>1, <2>2, <2>3, Frames DEF Signal
<1>12. CASE Result
  <2>1. ClaudeType'
    <3>1. inbox' \in Seq(Item)
      BY <1>12, Tailed DEF Result, ClaudeType
    <3>2. fetch' \in {"none", "flushing", "waiting", "ended"}
      BY <1>12 DEF Result, ClaudeType
    <3> QED BY <1>12, <3>1, <3>2 DEF Result, ClaudeType
  <2>2. LeftType'
    BY <1>12, SpendType, Frames DEF Result, Cause
  <2> QED BY <1>12, <2>1, <2>2, Frames DEF Result
<1>13. CASE AskUser
  <2>1. LeftType'
    BY <1>13, SpendType DEF AskUser, Cause
  <2>2. ClaudeType'
    BY <1>13 DEF AskUser, ClaudeType
  <2>3. QueueType'
    <3>1. <<Restart>> \o queue \in Seq(Item)
      BY Prefixed, RestartIsItem DEF QueueType
    <3>2. /\ UNCHANGED <<sent, stray>>
          /\ queue' = queue \/ queue' = <<Restart>> \o queue
      BY <1>13 DEF AskUser
    <3> QED BY <3>1, <3>2 DEF QueueType
  <2> QED BY <1>13, <2>1, <2>2, <2>3, Frames DEF AskUser
<1>14. CASE Answer
  <2>1. ClaudeType'
    BY <1>14 DEF Answer, ClaudeType
  <2>2. QueueType'
    BY <1>14, Prefixed, RestartIsItem DEF Answer, QueueType
  <2> QED BY <1>14, <2>1, <2>2, Frames DEF Answer
<1>15. CASE ClaudeExits
  <2>1. ClaudeType'
    BY <1>15 DEF ClaudeExits, ClaudeType
  <2>2. LeftType'
    BY <1>15, SpendType, Frames DEF ClaudeExits, Cause
  <2> QED BY <1>15, <2>1, <2>2, Frames DEF ClaudeExits
<1>16. CASE RefusalEndsLaunch \/ StreamEnds
  <2>1. mode = "remote" /\ LaunchOver
    BY <1>16, RemoteStages DEF RefusalEndsLaunch, StreamEnds, Streams
  <2>2. LoopType' /\ ClaudeType'
    BY <1>16, <2>1, LaunchOverType DEF RefusalEndsLaunch, StreamEnds
  <2> QED BY <1>16, <2>2, Frames DEF RefusalEndsLaunch, StreamEnds
<1>17. CASE ClaudeDies
  <2>1. mode = "remote" /\ LaunchOver
    BY <1>17, RemoteStages DEF ClaudeDies
  <2>2. LeftType'
    BY <1>17, SpendType, Frames DEF ClaudeDies, Cause
  <2>3. LoopType' /\ ClaudeType'
    BY <1>17, <2>1, LaunchOverType DEF ClaudeDies
  <2> QED BY <1>17, <2>2, <2>3, Frames DEF ClaudeDies
<1>18. CASE EndLaunch
  BY <1>18, EndLaunchType
<1>19. CASE FetchWaits
  <2>1. QueueType'
    BY <1>19 DEF FetchWaits, QueueType
  <2>2. ClaudeType'
    BY <1>19 DEF FetchWaits, ClaudeType
  <2> QED BY <1>19, <2>1, <2>2, Frames DEF FetchWaits
<1>20. CASE CancelTurn
  <2>1. QueueType'
    BY <1>20, Removed DEF CancelTurn, QueueType
  <2>2. LeftType'
    BY <1>20, SpendType DEF CancelTurn, Cause
  <2> QED BY <1>20, <2>1, <2>2, Frames DEF CancelTurn
<1>21. CASE StrayTakes
  <2>1. Head(queue) \in Item /\ Tail(queue) \in Seq(Item)
    BY <1>21, Tailed DEF StrayTakes, StrayWoken, QueueType
  <2>2. QueueType'
    BY <1>21, <2>1 DEF StrayTakes, QueueType
  <2>3. TurnsOf(<<Head(queue)>>) \subseteq Turn
    <3>1. <<Head(queue)>> \in Seq(Item)
      BY <2>1
    <3> QED BY <3>1, TurnsOfItems
  <2>4. PendingType' /\ PastType'
    BY <1>21, <2>1, <2>3 DEF StrayTakes, PendingType, PastType
  <2> QED BY <1>21, <2>2, <2>4, Frames DEF StrayTakes
<1>22. CASE UNCHANGED vars
  BY <1>22, Frames DEF vars
<1> QED
  BY <1>1, <1>2, <1>3, <1>4, <1>5, <1>6, <1>7, <1>8, <1>9, <1>10, <1>11, <1>12,
     <1>13, <1>14, <1>15, <1>16, <1>17, <1>18, <1>19, <1>20, <1>21, <1>22
  DEF Next, LocalNext, LaunchNext, RemoteRpc, ClaudeNext, Over

LEMMA InitType == Init => TypeOK
<1>1. <<>> \in Seq(Item) /\ <<>> \in Seq(Turn)
  OBVIOUS
<1>2. Init => LoopType
  BY DEF Init, LoopType
<1>3. Init => QueueType /\ PendingType
  BY <1>1 DEF Init, QueueType, PendingType
<1>4. Init => ClaudeType
  BY <1>1 DEF Init, ClaudeType
<1>5. Init => PastType /\ LeftType
  BY <1>1 DEF Init, PastType, LeftType
<1> QED BY <1>2, <1>3, <1>4, <1>5 DEF TypeOK

(* Type correctness: in particular every turn that is recorded as handed over *)
(* or given up was a turn of the user, never the restart prompt of a plan.    *)
THEOREM TypeCorrect == Spec => []TypeOK
<1>1. Init => TypeOK
  BY InitType
<1>2. TypeOK /\ [Next]_vars => TypeOK'
  BY TypeStep
<1> QED BY <1>1, <1>2, PTL DEF Spec

-----------------------------------------------------------------------------
(* What belongs to a launch ends with it: the invariant behind RequestsAreAwaited. *)
LaunchScoped ==
    /\ stage # "claude" => proc = "none"
    /\ stage = "claude" => proc # "none"
    /\ stage \notin {"claude", "ending"} => fetch = "none" /\ request = None /\ ~refused

(* A turn that was put aside waits for the next launch, or for the end of an input *)
(* that takes no other turn: no fetch, of this launch or an earlier one, can put   *)
(* another one in its place.                                                       *)
PutAsideAlone ==
    /\ pending # None => /\ stray = "none" /\ stage # "asking"
                         /\ fetch \notin {"flushing", "waiting"}
                         /\ stage = "claude" => fetch = "ended"
    /\ stray # "none" => /\ stage \notin {"asking", "claude"}
                         /\ fetch \notin {"flushing", "waiting"}

Scoped == LaunchScoped /\ PutAsideAlone

LEMMA EndLaunchScoped ==
    ASSUME TypeOK, Scoped, EndLaunch
    PROVE  Scoped'
<1>1. /\ stage' \in {"top", "starting", "over"} /\ Idle
      /\ pending' = pending \/ pending' = None
      /\ stray' # "none" => stray # "none" \/ fetch = "waiting"
  BY DEF EndLaunch, Ended, HandOver, StrayAfter
<1>2. proc' = "none" /\ ~refused' /\ fetch' = "none" /\ request' = None
  BY <1>1 DEF Idle
<1>3. LaunchScoped'
  BY <1>1, <1>2 DEF LaunchScoped
<1>4. PutAsideAlone'
  BY <1>1, <1>2 DEF Scoped, PutAsideAlone
<1> QED BY <1>3, <1>4 DEF Scoped

LEMMA StartScoped ==
    ASSUME Scoped, NEW item, Start(item), stage \in {"top", "asking"}, stray = "none",
           pending' = None
    PROVE  Scoped'
BY DEF Scoped, PutAsideAlone, LaunchScoped, Start

LEMMA LaunchOverScoped ==
    ASSUME Scoped, LaunchOver, stage = "claude", UNCHANGED <<pending, queueVars, fetch, request>>
    PROVE  Scoped'
BY DEF Scoped, PutAsideAlone, LaunchScoped, LaunchOver, queueVars

LEMMA ScopedFrame ==
    ASSUME Scoped, stage' = stage,
           UNCHANGED <<claudeVars, stray, pending>>
    PROVE  Scoped'
BY DEF Scoped, LaunchScoped, PutAsideAlone, claudeVars

THEOREM ScopedStep ==
    ASSUME TypeOK, Scoped, [Next]_vars
    PROVE  Scoped'
<1> USE DEF TypeOK
<1>1. CASE UserTurn \/ LocalSwitch \/ CancelTurn \/ UNCHANGED vars
  <2>1. stage' = stage /\ UNCHANGED <<claudeVars, stray, pending>>
    BY <1>1 DEF UserTurn, LocalSwitch, CancelTurn, vars, loopVars, queueVars
  <2> QED BY <2>1, ScopedFrame
<1>2. CASE LocalBegins \/ LocalEnds \/ LocalLeaves
  <2>1. /\ stage \in {"starting", "running", "leaving"}
        /\ stage' \in {"starting", "running", "leaving", "over", "top"}
        /\ UNCHANGED <<claudeVars, stray, pending>>
    BY <1>2 DEF LocalBegins, LocalEnds, LocalLeaves, HandOver, queueVars
  <2> QED BY <2>1 DEF Scoped, LaunchScoped, PutAsideAlone, claudeVars
<1>3. CASE LocalAbort
  BY <1>3 DEF LocalAbort, Scoped, LaunchScoped, PutAsideAlone, claudeVars
<1>4. CASE StrayTakes
  <2>1. /\ stray # "none" /\ stray' = "none" /\ stage' = stage
        /\ UNCHANGED <<proc, refused, fetch, request>>
    BY <1>4 DEF StrayTakes, StrayWoken, loopVars, claudeVars
  <2> QED BY <2>1 DEF Scoped, LaunchScoped, PutAsideAlone
<1>5. CASE FirstFromPending
  BY <1>5, StartScoped DEF FirstFromPending, Scoped, PutAsideAlone
<1>6. CASE FirstFromQueue /\ ~StrayWoken
  <2>1. stray = "none" /\ stage \in {"top", "asking"}
    BY <1>6 DEF FirstFromQueue, CanAsk, StrayWoken
  <2>2. CASE Isolate(Head(queue))
    <3>1. stage' = "ending" /\ UNCHANGED <<claudeVars, stray>>
      BY <1>6, <2>2 DEF FirstFromQueue
    <3> QED BY <2>1, <3>1 DEF Scoped, LaunchScoped, PutAsideAlone, claudeVars
  <2>3. CASE ~Isolate(Head(queue))
    BY <1>6, <2>1, <2>3, StartScoped DEF FirstFromQueue, CanAsk
  <2> QED BY <2>2, <2>3
<1>7. CASE WaitForFirst
  <2>1. /\ stage = "top" /\ pending = None /\ pending' = None
        /\ \/ stage' = "ending" /\ stray' = stray
           \/ stage' = "asking" /\ stray' = "none"
        /\ UNCHANGED <<proc, refused, fetch, request>>
    BY <1>7 DEF WaitForFirst, CanAsk, claudeVars
  <2> QED BY <2>1 DEF Scoped, LaunchScoped, PutAsideAlone
<1>8. CASE NextFromQueue
  <2>1. /\ stage \in {"claude", "ending"} /\ fetch \in {"flushing", "waiting"}
        /\ stage' = stage /\ UNCHANGED <<stray, proc, request, refused>>
        /\ \/ fetch' = "ended"
           \/ fetch' = "none" /\ pending' = pending
    BY <1>8 DEF NextFromQueue, Fetches, loopVars
  <2> QED BY <2>1 DEF Scoped, LaunchScoped, PutAsideAlone
<1>9. CASE FetchWaits
  <2>1. /\ stage \in {"claude", "ending"} /\ fetch = "flushing"
        /\ stage' = stage /\ UNCHANGED <<pending, proc, request, refused>>
        /\ \/ fetch' = "ended" /\ stray' = stray
           \/ fetch' = "waiting" /\ stray' = "none"
    BY <1>9 DEF FetchWaits, Fetches, loopVars
  <2> QED BY <2>1 DEF Scoped, LaunchScoped, PutAsideAlone
<1>10. CASE RemoteRpc
  <2>1. mode = "remote" /\ Signal
    BY <1>10 DEF RemoteRpc, RemoteAbort, RemoteExit
  <2>2. /\ stage' = stage \/ (stage = "asking" /\ stage' = "ending")
        /\ fetch' = fetch \/ (fetch = "waiting" /\ fetch' = "ended")
        /\ UNCHANGED <<stray, pending, proc, request, refused>>
    BY <2>1 DEF Signal, queueVars
  <2> QED BY <2>2 DEF Scoped, LaunchScoped, PutAsideAlone
<1>11. CASE Result
  <2>1. /\ stage = "claude" /\ stage' = stage
        /\ UNCHANGED <<stray, pending, proc, request, refused>>
        /\ fetch' = fetch \/ (fetch = "none" /\ fetch' = "flushing")
    BY <1>11 DEF Result, Streams, loopVars, queueVars
  <2> QED BY <2>1 DEF Scoped, LaunchScoped, PutAsideAlone
<1>12. CASE AskUser
  <2>1. /\ stage = "claude" /\ stage' = stage
        /\ UNCHANGED <<stray, pending, proc, fetch>>
    BY <1>12 DEF AskUser, Streams, loopVars
  <2> QED BY <2>1 DEF Scoped, LaunchScoped, PutAsideAlone
<1>13. CASE Answer
  <2>1. /\ request # None /\ stage' = stage
        /\ UNCHANGED <<stray, pending, proc, fetch>>
    BY <1>13 DEF Answer, loopVars
  <2> QED BY <2>1 DEF Scoped, LaunchScoped, PutAsideAlone
<1>14. CASE RefusalEndsLaunch \/ StreamEnds \/ ClaudeDies
  <2>1. stage = "claude" /\ LaunchOver /\ UNCHANGED <<pending, queueVars, fetch, request>>
    BY <1>14 DEF RefusalEndsLaunch, StreamEnds, ClaudeDies, Streams
  <2> QED BY <2>1, LaunchOverScoped
<1>15. CASE ClaudeExits
  <2>1. /\ stage = "claude" /\ stage' = stage /\ proc' # "none"
        /\ UNCHANGED <<stray, pending, fetch, request, refused>>
    BY <1>15 DEF ClaudeExits, loopVars, queueVars
  <2> QED BY <2>1 DEF Scoped, LaunchScoped, PutAsideAlone
<1>16. CASE EndLaunch
  BY <1>16, EndLaunchScoped
<1> QED
  BY <1>1, <1>2, <1>3, <1>4, <1>5, <1>6, <1>7, <1>8, <1>9, <1>10, <1>11, <1>12,
     <1>13, <1>14, <1>15, <1>16
  DEF Next, LocalNext, LaunchNext, RemoteRpc, ClaudeNext, Over

(* No launch, however it ends, leaves a permission request behind. *)
THEOREM RequestsStayAwaited == Spec => []RequestsAreAwaited
<1>1. Init => TypeOK /\ Scoped
  <2>1. Init => Scoped
    BY DEF Init, Scoped, LaunchScoped, PutAsideAlone
  <2> QED BY <2>1, InitType
<1>2. TypeOK /\ Scoped /\ [Next]_vars => (TypeOK /\ Scoped)'
  BY TypeStep, ScopedStep
<1>3. TypeOK /\ Scoped => RequestsAreAwaited
  BY DEF Scoped, LaunchScoped, RequestsAreAwaited
<1> QED BY <1>1, <1>2, <1>3, PTL DEF Spec

-----------------------------------------------------------------------------
(* The invariant behind TurnsInOrder: what was handed over, what was put aside *)
(* and what is queued follow each other in the order the turns were sent.  A   *)
(* restart prompt (turn 0) may stand anywhere.                                 *)
QueueAscends ==
    \A j, k \in DOMAIN queue :
        j < k /\ queue[k].turn # 0 => queue[j].turn < queue[k].turn

PendingFirst ==
    pending # None =>
        /\ pending.turn <= sent
        /\ \A k \in DOMAIN queue : queue[k].turn # 0 => pending.turn < queue[k].turn

GivenFirst ==
    \A j \in DOMAIN given :
        /\ given[j] <= sent
        /\ pending # None /\ pending.turn # 0 => given[j] < pending.turn
        /\ \A k \in DOMAIN queue : queue[k].turn # 0 => given[j] < queue[k].turn

SentLast == \A k \in DOMAIN queue : queue[k].turn <= sent

InOrder == TurnsInOrder /\ QueueAscends /\ PendingFirst /\ GivenFirst /\ SentLast

LEMMA TypedTurns ==
    ASSUME TypeOK
    PROVE  /\ queue \in Seq(Item) /\ sent \in Int
           /\ Len(queue) \in Nat /\ DOMAIN queue = 1 .. Len(queue)
           /\ \A k \in DOMAIN queue : queue[k].turn \in Nat
           /\ pending # None => pending \in Item /\ pending.turn \in Nat
           /\ given \in Seq(Turn) /\ Len(given) \in Nat /\ DOMAIN given = 1 .. Len(given)
           /\ \A j \in DOMAIN given : given[j] \in Nat /\ given[j] > 0
<1>1. queue \in Seq(Item) /\ given \in Seq(Turn) /\ sent \in 0 .. MaxTurns
  BY DEF TypeOK, QueueType, PastType
<1>2. \A k \in DOMAIN queue : queue[k] \in Item
  BY <1>1
<1>3. \A i \in Item : i.turn \in Nat
  BY DEF Item
<1>4. \A j \in DOMAIN given : given[j] \in 1 .. MaxTurns
  BY <1>1 DEF Turn
<1>5. pending # None => pending \in Item
  BY DEF TypeOK, PendingType
<1> QED BY <1>1, <1>2, <1>3, <1>4, <1>5

(* What is not longer waiting leaves the others in order. *)
LEMMA OrderOfFewer ==
    ASSUME InOrder, UNCHANGED <<given, sent>>,
           queue' = queue \/ queue' = <<>>,
           pending' = pending \/ pending' = None
    PROVE  InOrder'
<1> USE DEF InOrder, TurnsInOrder, QueueAscends, PendingFirst, GivenFirst, SentLast
<1>1. CASE queue' = queue
  BY <1>1
<1>2. CASE queue' = <<>>
  BY <1>2
<1> QED BY <1>1, <1>2

(* A cancelled turn leaves the others in order. *)
LEMMA OrderOfRemoved ==
    ASSUME TypeOK, InOrder, UNCHANGED <<given, sent, pending>>,
           NEW i \in DOMAIN queue, queue' = RemoveAt(queue, i)
    PROVE  InOrder'
<1> DEFINE was(k) == IF k < i THEN k ELSE k + 1
<1>1. /\ Len(queue) \in Nat /\ DOMAIN queue = 1 .. Len(queue) /\ i \in 1 .. Len(queue)
      /\ DOMAIN queue' = 1 .. (Len(queue) - 1)
      /\ \A k \in 1 .. (Len(queue) - 1) : queue'[k] = queue[was(k)]
  BY Removed DEF TypeOK, QueueType
<1>2. \A k \in DOMAIN queue' : was(k) \in DOMAIN queue /\ queue'[k] = queue[was(k)]
  BY <1>1
<1>3. \A j, k \in DOMAIN queue' : j < k => was(j) < was(k)
  BY <1>1
<1> HIDE DEF was
<1>4. QueueAscends'
  BY <1>2, <1>3 DEF InOrder, QueueAscends
<1>5. PendingFirst' /\ GivenFirst' /\ SentLast' /\ TurnsInOrder'
  BY <1>2 DEF InOrder, PendingFirst, GivenFirst, SentLast, TurnsInOrder
<1> QED BY <1>4, <1>5 DEF InOrder

(* A plan's restart goes in front of the queue. *)
LEMMA OrderWithRestart ==
    ASSUME TypeOK, InOrder, UNCHANGED <<given, sent, pending>>,
           queue' = <<Restart>> \o queue
    PROVE  InOrder'
<1>1. /\ DOMAIN queue' = 1 .. (Len(queue) + 1) /\ queue'[1] = Restart
      /\ \A k \in 1 .. Len(queue) : queue'[k + 1] = queue[k]
  BY Prefixed, RestartIsItem DEF TypeOK, QueueType
<1>2. \A k \in DOMAIN queue' : \/ k = 1 /\ queue'[k].turn = 0
                               \/ /\ k > 1 /\ k - 1 \in DOMAIN queue
                                  /\ queue'[k] = queue[k - 1]
  <2> TAKE k \in DOMAIN queue'
  <2>1. CASE k = 1
    BY <1>1, <2>1 DEF Restart
  <2>2. CASE k # 1
    <3>1. k - 1 \in 1 .. Len(queue) /\ k > 1 /\ (k - 1) + 1 = k
      BY <1>1, <2>2, TypedTurns
    <3>2. queue'[(k - 1) + 1] = queue[k - 1]
      BY <1>1, <3>1
    <3> QED BY <3>1, <3>2, TypedTurns
  <2> QED BY <2>1, <2>2
<1>3. QueueAscends'
  <2> SUFFICES ASSUME NEW j \in DOMAIN queue', NEW k \in DOMAIN queue',
                      j < k, queue'[k].turn # 0
               PROVE  queue'[j].turn < queue'[k].turn
    BY DEF QueueAscends
  <2>1. k - 1 \in DOMAIN queue /\ queue'[k] = queue[k - 1] /\ queue[k - 1].turn \in Nat
    BY <1>2, TypedTurns
  <2>2. CASE j = 1
    <3>1. queue'[j].turn = 0
      BY <1>1, <2>2 DEF Restart
    <3>2. queue'[k].turn \in Nat /\ queue'[k].turn # 0
      BY <2>1
    <3> QED BY <3>1, <3>2
  <2>3. CASE j # 1
    <3>1. j - 1 \in DOMAIN queue /\ queue'[j] = queue[j - 1] /\ j - 1 < k - 1
      BY <1>1, <1>2, <2>3, TypedTurns
    <3> QED BY <2>1, <3>1 DEF InOrder, QueueAscends
  <2> QED BY <2>2, <2>3
<1>4. PendingFirst'
  BY <1>2 DEF InOrder, PendingFirst
<1>5. GivenFirst'
  BY <1>2 DEF InOrder, GivenFirst
<1>6. SentLast'
  BY <1>2, TypedTurns DEF InOrder, SentLast, TypeOK, QueueType
<1> QED BY <1>3, <1>4, <1>5, <1>6 DEF InOrder, TurnsInOrder

(* The head of the queue is taken: it follows everything that was handed over, *)
(* and what remains follows it.                                                *)
LEMMA OrderOfTail ==
    ASSUME TypeOK, InOrder, queue # <<>>, queue' = Tail(queue), sent' = sent
    PROVE  /\ QueueAscends' /\ SentLast'
           /\ \A k \in DOMAIN queue' : \E i \in DOMAIN queue : queue'[k] = queue[i]
           /\ Head(queue) \in Item /\ Head(queue).turn \in Nat /\ Head(queue).turn <= sent
           /\ \A k \in DOMAIN queue' :
                queue'[k].turn # 0 => Head(queue).turn < queue'[k].turn
           /\ \A j \in DOMAIN given :
                Head(queue).turn # 0 => given[j] < Head(queue).turn
<1>1. /\ DOMAIN queue' = 1 .. (Len(queue) - 1) /\ Len(queue) > 0
      /\ Head(queue) = queue[1] /\ Head(queue) \in Item
      /\ \A k \in 1 .. (Len(queue) - 1) : queue'[k] = queue[k + 1]
  BY Tailed DEF TypeOK, QueueType
<1>2. \A k \in DOMAIN queue' : /\ k + 1 \in DOMAIN queue /\ 1 < k + 1
                               /\ queue'[k] = queue[k + 1]
  BY <1>1, TypedTurns
<1>3. 1 \in DOMAIN queue
  BY <1>1, TypedTurns
<1>4. QueueAscends'
  <2> SUFFICES ASSUME NEW j \in DOMAIN queue', NEW k \in DOMAIN queue',
                      j < k, queue'[k].turn # 0
               PROVE  queue'[j].turn < queue'[k].turn
    BY DEF QueueAscends
  <2>1. j + 1 < k + 1
    BY <1>1
  <2> QED BY <1>2, <2>1 DEF InOrder, QueueAscends
<1>5. SentLast'
  BY <1>2 DEF InOrder, SentLast
<1>6. Head(queue).turn \in Nat /\ Head(queue).turn <= sent
  BY <1>1, <1>3, TypedTurns DEF InOrder, SentLast
<1>7. \A k \in DOMAIN queue' : queue'[k].turn # 0 => Head(queue).turn < queue'[k].turn
  BY <1>1, <1>2, <1>3 DEF InOrder, QueueAscends
<1>8. \A j \in DOMAIN given : Head(queue).turn # 0 => given[j] < Head(queue).turn
  BY <1>1, <1>3 DEF InOrder, GivenFirst
<1> QED BY <1>1, <1>2, <1>4, <1>5, <1>6, <1>7, <1>8

(* Handing over an item that follows everything handed over before. *)
LEMMA OrderOfGiven ==
    ASSUME NEW g \in Seq(Turn), NEW item, item.turn \in Nat,
           \A j \in DOMAIN g : g[j] \in Nat,
           \A j, k \in DOMAIN g : j < k => g[j] < g[k],
           item.turn # 0 => \A j \in DOMAIN g : g[j] < item.turn,
           item.turn # 0 => item.turn \in Turn
    PROVE  /\ \A j, k \in DOMAIN WithTurn(g, item) :
                j < k => WithTurn(g, item)[j] < WithTurn(g, item)[k]
           /\ \A j \in DOMAIN WithTurn(g, item) :
                \/ \E k \in DOMAIN g : WithTurn(g, item)[j] = g[k]
                \/ item.turn # 0 /\ WithTurn(g, item)[j] = item.turn
<1>1. CASE item.turn = 0
  <2>1. WithTurn(g, item) = g
    BY <1>1 DEF WithTurn
  <2> QED BY <2>1
<1>2. CASE item.turn # 0
  <2>1. WithTurn(g, item) = Append(g, item.turn)
    BY <1>2 DEF WithTurn
  <2> DEFINE a == Append(g, item.turn)
  <2>2. /\ Len(g) \in Nat /\ DOMAIN g = 1 .. Len(g) /\ DOMAIN a = 1 .. (Len(g) + 1)
        /\ \A k \in 1 .. Len(g) : a[k] = g[k]
        /\ a[Len(g) + 1] = item.turn
    BY <1>2, Appended
  <2> HIDE DEF a
  <2>3. \A k \in DOMAIN a : \/ k \in DOMAIN g /\ a[k] = g[k]
                            \/ k = Len(g) + 1 /\ a[k] = item.turn
    BY <2>2
  <2>4. ASSUME NEW j \in DOMAIN a, NEW k \in DOMAIN a, j < k
        PROVE  a[j] < a[k]
    <3>1. j \in DOMAIN g /\ a[j] = g[j]
      BY <2>2, <2>3, <2>4
    <3>2. CASE k \in DOMAIN g
      BY <2>2, <2>4, <3>1, <3>2
    <3>3. CASE k \notin DOMAIN g
      BY <1>2, <2>3, <3>1, <3>3
    <3> QED BY <3>2, <3>3
  <2>5. \A j \in DOMAIN a : \/ \E k \in DOMAIN g : a[j] = g[k]
                            \/ item.turn # 0 /\ a[j] = item.turn
    BY <1>2, <2>3
  <2>6. WithTurn(g, item) = a
    BY <2>1 DEF a
  <2> QED BY <2>4, <2>5, <2>6
<1> QED BY <1>1, <1>2

(* A new turn is the latest one, wherever a command leaves it in the queue. *)
LEMMA OrderOfArrival ==
    ASSUME TypeOK, InOrder, NEW item \in Item, item.turn = sent + 1, sent' = sent + 1,
           UNCHANGED <<pending, given>>,
           queue' = <<item>> \/ queue' = Append(queue, item)
    PROVE  InOrder'
<1>1. \A k \in DOMAIN queue' :
         \/ /\ k \in DOMAIN queue /\ queue'[k] = queue[k] /\ queue' = Append(queue, item)
         \/ /\ queue'[k] = item
            /\ \A j \in DOMAIN queue' : j < k => j \in DOMAIN queue /\ queue'[j] = queue[j]
            /\ \A j \in DOMAIN queue' : j <= k
  <2>1. CASE queue' = <<item>>
    <3>1. DOMAIN queue' = 1 .. 1 /\ queue'[1] = item
      BY <2>1
    <3> QED BY <3>1
  <2>2. CASE queue' = Append(queue, item)
    <3>1. /\ DOMAIN queue = 1 .. Len(queue) /\ Len(queue) \in Nat
          /\ DOMAIN queue' = 1 .. (Len(queue) + 1)
          /\ \A k \in 1 .. Len(queue) : queue'[k] = queue[k]
          /\ queue'[Len(queue) + 1] = item
      BY <2>2, Appended DEF TypeOK, QueueType
    <3> QED BY <2>2, <3>1
  <2> QED BY <2>1, <2>2
<1>2. QueueAscends'
  <2> SUFFICES ASSUME NEW j \in DOMAIN queue', NEW k \in DOMAIN queue',
                      j < k, queue'[k].turn # 0
               PROVE  queue'[j].turn < queue'[k].turn
    BY DEF QueueAscends
  <2>1. j \in DOMAIN queue /\ queue'[j] = queue[j]
    <3>1. CASE queue'[k] = item /\ \A i \in DOMAIN queue' : i < k => i \in DOMAIN queue /\ queue'[i] = queue[i]
      BY <3>1
    <3>2. CASE k \in DOMAIN queue /\ queue'[k] = queue[k] /\ queue' = Append(queue, item)
      <4>1. /\ DOMAIN queue = 1 .. Len(queue) /\ Len(queue) \in Nat
            /\ DOMAIN queue' = 1 .. (Len(queue) + 1)
            /\ \A i \in 1 .. Len(queue) : queue'[i] = queue[i]
        BY <3>2, Appended DEF TypeOK, QueueType
      <4> QED BY <3>2, <4>1
    <3> QED BY <1>1, <3>1, <3>2
  <2>2. CASE queue'[k] = item
    BY <2>1, <2>2, TypedTurns DEF InOrder, SentLast
  <2>3. CASE k \in DOMAIN queue /\ queue'[k] = queue[k]
    BY <2>1, <2>3 DEF InOrder, QueueAscends
  <2> QED BY <1>1, <2>2, <2>3
<1>3. PendingFirst'
  BY <1>1, TypedTurns DEF InOrder, PendingFirst
<1>4. GivenFirst'
  <2> SUFFICES ASSUME NEW j \in DOMAIN given
               PROVE  /\ given[j] <= sent'
                      /\ pending # None /\ pending.turn # 0 => given[j] < pending.turn
                      /\ \A k \in DOMAIN queue' :
                            queue'[k].turn # 0 => given[j] < queue'[k].turn
    BY DEF GivenFirst
  <2>1. given[j] <= sent /\ given[j] \in Nat /\ sent \in Int
    BY TypedTurns DEF InOrder, GivenFirst
  <2>2. pending # None /\ pending.turn # 0 => given[j] < pending.turn
    BY DEF InOrder, GivenFirst
  <2>3. ASSUME NEW k \in DOMAIN queue', queue'[k].turn # 0
        PROVE  given[j] < queue'[k].turn
    BY <1>1, <2>1, <2>3 DEF InOrder, GivenFirst
  <2> QED BY <2>1, <2>2, <2>3
<1>5. SentLast'
  BY <1>1, TypedTurns DEF InOrder, SentLast
<1>6. TurnsInOrder'
  BY DEF InOrder, TurnsInOrder
<1> QED BY <1>2, <1>3, <1>4, <1>5, <1>6 DEF InOrder

(* The head of the queue is handed over: nothing was put aside before it. *)
LEMMA OrderOfHandOver ==
    ASSUME TypeOK, InOrder, queue # <<>>, queue' = Tail(queue), sent' = sent,
           pending = None, pending' = None,
           given' = WithTurn(given, Head(queue)) \/ given' = given
    PROVE  InOrder'
<1>1. CASE given' = given
  <2>1. GivenFirst'
    BY <1>1, OrderOfTail DEF InOrder, GivenFirst
  <2>2. PendingFirst' /\ TurnsInOrder'
    BY <1>1 DEF PendingFirst, InOrder, TurnsInOrder
  <2> QED BY <2>1, <2>2, OrderOfTail DEF InOrder
<1>2. CASE given' = WithTurn(given, Head(queue))
  <2> DEFINE item == Head(queue)
  <2>1. /\ QueueAscends' /\ SentLast' /\ item \in Item
        /\ item.turn \in Nat /\ item.turn <= sent
        /\ \A k \in DOMAIN queue' : queue'[k].turn # 0 => item.turn < queue'[k].turn
        /\ \A j \in DOMAIN given : item.turn # 0 => given[j] < item.turn
        /\ \A k \in DOMAIN queue' : \E i \in DOMAIN queue : queue'[k] = queue[i]
    BY OrderOfTail
  <2>2. item.turn # 0 => item.turn \in Turn
    BY <2>1 DEF Item, Turn
  <2>3. given' = WithTurn(given, item)
    BY <1>2
  <2> HIDE DEF item
  <2>4. /\ \A j, k \in DOMAIN given' : j < k => given'[j] < given'[k]
        /\ \A j \in DOMAIN given' : \/ \E k \in DOMAIN given : given'[j] = given[k]
                                    \/ item.turn # 0 /\ given'[j] = item.turn
    BY <2>1, <2>2, <2>3, TypedTurns, OrderOfGiven DEF InOrder, TurnsInOrder
  <2>5. GivenFirst'
    <3> SUFFICES ASSUME NEW j \in DOMAIN given'
                 PROVE  /\ given'[j] <= sent'
                        /\ \A k \in DOMAIN queue' :
                             queue'[k].turn # 0 => given'[j] < queue'[k].turn
      BY DEF GivenFirst
    <3>1. CASE \E k \in DOMAIN given : given'[j] = given[k]
      BY <2>1, <3>1 DEF InOrder, GivenFirst
    <3>2. CASE item.turn # 0 /\ given'[j] = item.turn
      BY <2>1, <3>2
    <3> QED BY <2>4, <3>1, <3>2
  <2>6. TurnsInOrder' /\ PendingFirst'
    BY <2>4 DEF TurnsInOrder, PendingFirst
  <2> QED BY <2>1, <2>5, <2>6 DEF InOrder
<1> QED BY <1>1, <1>2

(* The head of the queue is put aside. *)
LEMMA OrderOfPutAside ==
    ASSUME TypeOK, InOrder, queue # <<>>, queue' = Tail(queue),
           UNCHANGED <<sent, given>>, pending' = Head(queue)
    PROVE  InOrder'
<1>1. PendingFirst'
  BY OrderOfTail DEF PendingFirst
<1>2. GivenFirst'
  <2> SUFFICES ASSUME NEW j \in DOMAIN given
               PROVE  /\ given[j] <= sent
                      /\ pending'.turn # 0 => given[j] < pending'.turn
                      /\ \A k \in DOMAIN queue' :
                           queue'[k].turn # 0 => given[j] < queue'[k].turn
    BY DEF GivenFirst
  <2>1. \A k \in DOMAIN queue' : \E i \in DOMAIN queue : queue'[k] = queue[i]
    BY OrderOfTail
  <2>2. pending'.turn # 0 => given[j] < pending'.turn
    BY OrderOfTail
  <2> QED BY <2>1, <2>2 DEF InOrder, GivenFirst
<1>3. TurnsInOrder'
  BY DEF InOrder, TurnsInOrder
<1> QED BY <1>1, <1>2, <1>3, OrderOfTail DEF InOrder

(* What was put aside is handed over before the queue. *)
LEMMA OrderOfPending ==
    ASSUME TypeOK, InOrder, pending # None, pending' = None, UNCHANGED <<queue, sent>>,
           given' = WithTurn(given, pending)
    PROVE  InOrder'
<1>1. /\ pending \in Item /\ pending.turn \in Nat
      /\ pending.turn <= sent
      /\ \A k \in DOMAIN queue : queue[k].turn # 0 => pending.turn < queue[k].turn
      /\ \A j \in DOMAIN given : pending.turn # 0 => given[j] < pending.turn
  BY TypedTurns DEF InOrder, PendingFirst, GivenFirst
<1>2. pending.turn # 0 => pending.turn \in Turn
  BY <1>1 DEF Item, Turn
<1>3. /\ \A j, k \in DOMAIN given' : j < k => given'[j] < given'[k]
      /\ \A j \in DOMAIN given' : \/ \E k \in DOMAIN given : given'[j] = given[k]
                                  \/ pending.turn # 0 /\ given'[j] = pending.turn
  BY <1>1, <1>2, TypedTurns, OrderOfGiven DEF InOrder, TurnsInOrder
<1>4. GivenFirst'
  <2> SUFFICES ASSUME NEW j \in DOMAIN given'
               PROVE  /\ given'[j] <= sent
                      /\ \A k \in DOMAIN queue :
                           queue[k].turn # 0 => given'[j] < queue[k].turn
    BY DEF GivenFirst
  <2>1. CASE \E k \in DOMAIN given : given'[j] = given[k]
    BY <2>1 DEF InOrder, GivenFirst
  <2>2. CASE pending.turn # 0 /\ given'[j] = pending.turn
    BY <1>1, <2>2
  <2> QED BY <1>3, <2>1, <2>2
<1>5. TurnsInOrder' /\ PendingFirst'
  BY <1>3 DEF TurnsInOrder, PendingFirst
<1>6. QueueAscends' /\ SentLast'
  BY DEF InOrder, QueueAscends, SentLast
<1> QED BY <1>4, <1>5, <1>6 DEF InOrder

LEMMA OrderOfEnd ==
    ASSUME InOrder, EndLaunch
    PROVE  InOrder'
<1>1. /\ UNCHANGED <<given, sent>> /\ queue' = queue
      /\ pending' = pending \/ pending' = None
  BY DEF EndLaunch, queueVars
<1> QED BY <1>1, OrderOfFewer

THEOREM OrderStep ==
    ASSUME TypeOK, Scoped, InOrder, [Next]_vars
    PROVE  InOrder'
<1>1. CASE UserTurn
  <2>1. PICK p \in Prompts :
            LET item == [turn |-> sent + 1, mode |-> p.mode, kind |-> p.kind]
            IN queue' = IF Isolate(item) THEN <<item>> ELSE Append(queue, item)
    BY <1>1 DEF UserTurn
  <2> DEFINE item == [turn |-> sent + 1, mode |-> p.mode, kind |-> p.kind]
  <2>2. sent' = sent + 1 /\ sent < MaxTurns /\ UNCHANGED <<pending, given>>
    BY <1>1 DEF UserTurn, pastVars
  <2>3. item \in Item /\ item.turn = sent + 1
    BY <2>2, PromptIsItem
  <2>4. queue' = <<item>> \/ queue' = Append(queue, item)
    BY <2>1
  <2> HIDE DEF item
  <2> QED BY <2>2, <2>3, <2>4, OrderOfArrival
<1>2. CASE \/ LocalBegins \/ LocalEnds \/ LocalLeaves \/ LocalSwitch \/ WaitForFirst
           \/ FetchWaits \/ Result \/ ClaudeExits \/ UNCHANGED vars
  <2>1. UNCHANGED <<queue, sent, pending, given>>
    BY <1>2 DEF LocalBegins, LocalEnds, LocalLeaves, LocalSwitch, WaitForFirst,
                FetchWaits, Result, ClaudeExits, vars, queueVars, pastVars
  <2> QED BY <2>1, OrderOfFewer
<1>3. CASE LocalAbort
  <2>1. UNCHANGED <<given, sent, pending>> /\ queue' = <<>>
    BY <1>3 DEF LocalAbort, pastVars
  <2> QED BY <2>1, OrderOfFewer
<1>4. CASE CancelTurn
  <2>1. PICK k \in DOMAIN queue : queue' = RemoveAt(queue, k)
    BY <1>4 DEF CancelTurn
  <2>2. UNCHANGED <<given, sent, pending>>
    BY <1>4 DEF CancelTurn, pastVars
  <2> QED BY <2>1, <2>2, OrderOfRemoved
<1>5. CASE StrayTakes
  <2>1. /\ queue # <<>> /\ queue' = Tail(queue) /\ UNCHANGED <<sent, given>>
        /\ pending = None
    BY <1>5 DEF StrayTakes, StrayWoken, Scoped, PutAsideAlone
  <2>2. pending' = Head(queue) \/ pending' = None
    BY <1>5, <2>1 DEF StrayTakes
  <2> QED BY <2>1, <2>2, OrderOfPutAside, OrderOfHandOver
<1>6. CASE FirstFromPending
  <2>1. /\ pending # None /\ pending' = None /\ UNCHANGED <<queue, sent>>
        /\ given' = WithTurn(given, pending) \/ given' = given
    BY <1>6 DEF FirstFromPending, Start
  <2> QED BY <2>1, OrderOfPending, OrderOfFewer
<1>7. CASE FirstFromQueue
  <2>1. CASE Isolate(Head(queue))
    BY <1>7, <2>1, OrderOfPutAside DEF FirstFromQueue, pastVars
  <2>2. CASE ~Isolate(Head(queue))
    BY <1>7, <2>2, OrderOfHandOver DEF FirstFromQueue, CanAsk, Start
  <2> QED BY <2>1, <2>2
<1>8. CASE NextFromQueue
  <2>1. queue # <<>> /\ queue' = Tail(queue) /\ sent' = sent /\ pending = None
    BY <1>8 DEF NextFromQueue, Fetches, Scoped, PutAsideAlone
  <2>2. \/ pending' = Head(queue) /\ given' = given
        \/ /\ pending' = None
           /\ given' = given \/ given' = WithTurn(given, Head(queue))
    BY <1>8, <2>1 DEF NextFromQueue, pastVars
  <2> QED BY <2>1, <2>2, OrderOfPutAside, OrderOfHandOver
<1>9. CASE RemoteRpc
  <2>1. UNCHANGED <<queue, sent, pending, given>>
    BY <1>9 DEF RemoteRpc, RemoteAbort, RemoteExit, Signal, queueVars, pastVars
  <2> QED BY <2>1, OrderOfFewer
<1>10. CASE AskUser \/ Answer
  <2>1. /\ UNCHANGED <<given, sent, pending>>
        /\ queue' = queue \/ queue' = <<Restart>> \o queue
    BY <1>10 DEF AskUser, Answer, pastVars
  <2> QED BY <2>1, OrderOfFewer, OrderWithRestart
<1>11. CASE RefusalEndsLaunch \/ StreamEnds \/ ClaudeDies
  <2>1. UNCHANGED <<queue, sent, pending, given>>
    BY <1>11 DEF RefusalEndsLaunch, StreamEnds, ClaudeDies, queueVars, pastVars
  <2> QED BY <2>1, OrderOfFewer
<1>12. CASE EndLaunch
  BY <1>12, OrderOfEnd
<1> QED
  BY <1>1, <1>2, <1>3, <1>4, <1>5, <1>6, <1>7, <1>8, <1>9, <1>10, <1>11, <1>12
  DEF Next, LocalNext, LaunchNext, RemoteRpc, ClaudeNext, Over

(* Turns are handed to Claude in the order they were sent, none of them twice. *)
THEOREM TurnsStayInOrder == Spec => []TurnsInOrder
<1>1. Init => TypeOK /\ Scoped /\ InOrder
  <2>1. Init => Scoped
    BY DEF Init, Scoped, LaunchScoped, PutAsideAlone
  <2>2. Init => InOrder
    BY DEF Init, InOrder, TurnsInOrder, QueueAscends, PendingFirst, GivenFirst, SentLast
  <2> QED BY <2>1, <2>2, InitType
<1>2. TypeOK /\ Scoped /\ InOrder /\ [Next]_vars => (TypeOK /\ Scoped /\ InOrder)'
  BY TypeStep, ScopedStep, OrderStep
<1>3. InOrder => TurnsInOrder
  BY DEF InOrder
<1> QED BY <1>1, <1>2, <1>3, PTL DEF Spec

-----------------------------------------------------------------------------
(* The invariant behind NoTurnVanishes: a remote launcher that is to be left *)
(* has aborted its launch.                                                   *)
LeavingAborts == mode = "remote" /\ exitReason # "none" => aborted

LEMMA EndLaunchAborts ==
    ASSUME EndLaunch
    PROVE  LeavingAborts'
BY DEF EndLaunch, HandOver, LeavingAborts

THEOREM AbortStep ==
    ASSUME TypeOK, LeavingAborts, [Next]_vars
    PROVE  LeavingAborts'
<1>1. CASE UserTurn
  BY <1>1 DEF UserTurn, LeavingAborts
<1>2. CASE LocalNext
  BY <1>2 DEF LocalNext, LocalBegins, LocalEnds, LocalLeaves, LocalAbort, LocalSwitch,
              LeavingAborts
<1>3. CASE CancelTurn \/ StrayTakes \/ UNCHANGED vars
  BY <1>3 DEF CancelTurn, StrayTakes, vars, loopVars, LeavingAborts
<1>4. CASE EndLaunch
  BY <1>4, EndLaunchAborts
<1>5. CASE \/ FirstFromPending \/ FirstFromQueue \/ WaitForFirst \/ NextFromQueue
           \/ FetchWaits
  BY <1>5 DEF FirstFromPending, FirstFromQueue, WaitForFirst, NextFromQueue, FetchWaits,
              Start, loopVars, LeavingAborts
<1>6. CASE RemoteRpc
  <2>1. aborted'
    BY <1>6 DEF RemoteRpc, RemoteAbort, RemoteExit, Signal
  <2> QED BY <2>1 DEF LeavingAborts
<1>7. CASE Result \/ AskUser \/ Answer \/ ClaudeExits
  BY <1>7 DEF Result, AskUser, Answer, ClaudeExits, loopVars, LeavingAborts
<1>8. CASE RefusalEndsLaunch \/ StreamEnds \/ ClaudeDies
  BY <1>8 DEF RefusalEndsLaunch, StreamEnds, ClaudeDies, LeavingAborts
<1> QED
  BY <1>1, <1>2, <1>3, <1>4, <1>5, <1>6, <1>7, <1>8
  DEF Next, LaunchNext, ClaudeNext, Over

LEMMA TurnsOfAppended ==
    ASSUME NEW s \in Seq(Item), NEW item \in Item
    PROVE  TurnsOf(s) \subseteq TurnsOf(Append(s, item))
BY Appended DEF TurnsOf

LEMMA TurnsOfPrefixed ==
    ASSUME NEW s \in Seq(Item), NEW item \in Item
    PROVE  TurnsOf(s) \subseteq TurnsOf(<<item>> \o s)
<1>1. \A k \in DOMAIN s : /\ k + 1 \in DOMAIN (<<item>> \o s)
                          /\ (<<item>> \o s)[k + 1] = s[k]
  BY Prefixed
<1> QED BY <1>1 DEF TurnsOf

LEMMA TurnsOfTail ==
    ASSUME NEW s \in Seq(Item), s # <<>>
    PROVE  \A t \in TurnsOf(s) : t \in TurnsOf(Tail(s)) \/ t = Head(s).turn
<1>1. /\ Len(s) \in Nat /\ DOMAIN s = 1 .. Len(s) /\ Head(s) = s[1]
      /\ DOMAIN Tail(s) = 1 .. (Len(s) - 1)
      /\ \A k \in 1 .. (Len(s) - 1) : Tail(s)[k] = s[k + 1]
  BY Tailed
<1>2. ASSUME NEW k \in DOMAIN s, k # 1
      PROVE  k - 1 \in DOMAIN Tail(s) /\ Tail(s)[k - 1] = s[k]
  <2>1. k - 1 \in 1 .. (Len(s) - 1) /\ (k - 1) + 1 = k
    BY <1>1, <1>2
  <2>2. Tail(s)[k - 1] = s[(k - 1) + 1]
    BY <1>1, <2>1
  <2> QED BY <1>1, <2>1, <2>2
<1>3. ASSUME NEW t \in TurnsOf(s)
      PROVE  t \in TurnsOf(Tail(s)) \/ t = Head(s).turn
  <2>1. PICK k \in DOMAIN s : t = s[k].turn /\ t # 0
    BY <1>3 DEF TurnsOf
  <2>2. CASE k = 1
    BY <1>1, <2>1, <2>2
  <2>3. CASE k # 1
    BY <1>2, <2>1, <2>3 DEF TurnsOf
  <2> QED BY <2>2, <2>3
<1> QED BY <1>3

LEMMA TurnsOfRemoved ==
    ASSUME NEW s \in Seq(Item), NEW i \in DOMAIN s
    PROVE  \A t \in TurnsOf(s) : t \in TurnsOf(RemoveAt(s, i)) \/ t = s[i].turn
<1>1. /\ Len(s) \in Nat /\ DOMAIN s = 1 .. Len(s) /\ i \in 1 .. Len(s)
      /\ DOMAIN RemoveAt(s, i) = 1 .. (Len(s) - 1)
      /\ \A k \in 1 .. (Len(s) - 1) :
           RemoveAt(s, i)[k] = s[IF k < i THEN k ELSE k + 1]
  BY Removed
<1>2. ASSUME NEW k \in DOMAIN s, k # i
      PROVE  \E n \in DOMAIN RemoveAt(s, i) : RemoveAt(s, i)[n] = s[k]
  <2>1. CASE k < i
    <3>1. k \in 1 .. (Len(s) - 1)
      BY <1>1, <2>1
    <3> QED BY <1>1, <2>1, <3>1
  <2>2. CASE k > i
    <3>1. k - 1 \in 1 .. (Len(s) - 1) /\ ~(k - 1 < i) /\ (k - 1) + 1 = k
      BY <1>1, <2>2
    <3> QED BY <1>1, <3>1
  <2> QED BY <1>1, <1>2, <2>1, <2>2
<1>3. ASSUME NEW t \in TurnsOf(s)
      PROVE  t \in TurnsOf(RemoveAt(s, i)) \/ t = s[i].turn
  <2>1. PICK k \in DOMAIN s : t = s[k].turn /\ t # 0
    BY <1>3 DEF TurnsOf
  <2>2. CASE k = i
    BY <2>1, <2>2
  <2>3. CASE k # i
    BY <1>2, <2>1, <2>3 DEF TurnsOf
  <2> QED BY <2>2, <2>3
<1> QED BY <1>3

LEMMA TurnOfOne ==
    ASSUME NEW item
    PROVE  TurnsOf(<<item>>) = {item.turn} \ {0}
<1>1. DOMAIN <<item>> = {1} /\ <<item>>[1] = item
  OBVIOUS
<1> QED BY <1>1 DEF TurnsOf

LEMMA GivenIncludes ==
    ASSUME NEW g \in Seq(Turn), NEW item \in Item, item.turn # 0
    PROVE  item.turn \in Range(WithTurn(g, item))
<1>1. item.turn \in Turn
  BY DEF Item, Turn
<1>2. WithTurn(g, item) = Append(g, item.turn)
  BY DEF WithTurn
<1>3. Len(g) \in Nat /\ Len(g) + 1 \in DOMAIN Append(g, item.turn)
      /\ Append(g, item.turn)[Len(g) + 1] = item.turn
  BY <1>1, Appended
<1> QED BY <1>2, <1>3 DEF Range

(* A turn leaves Waiting only for a reason that the property allows. *)
Accounted(t) ==
    \/ t \in Range(given')
    \/ sent' > sent /\ queue'[1].kind # "plain"
    \/ mode = "local" /\ left'["abort"] < left["abort"]
    \/ left'["cancel"] < left["cancel"] /\ Waiting \ Waiting' = {t}
    \/ aborted /\ t \in lost'
    \/ /\ stage = "ending" \/ stray # "none"
       /\ queue # <<>> /\ t = Head(queue).turn /\ t \in lost'

LEMMA NothingVanishes ==
    ASSUME UNCHANGED pending, TurnsOf(queue) \subseteq TurnsOf(queue')
    PROVE  \A t \in Waiting \ Waiting' : Accounted(t)
<1>1. Waiting' = TurnsOf(queue') \cup (IF pending = None THEN {} ELSE TurnsOf(<<pending>>))
  BY DEF Waiting, TurnsOf
<1> QED BY <1>1 DEF Waiting

LEMMA TakenIsAccounted ==
    ASSUME TypeOK, pending = None, queue # <<>>, queue' = Tail(queue),
           \/ pending' = Head(queue)
           \/ pending' = None /\ given' = WithTurn(given, Head(queue))
           \/ /\ aborted \/ stage = "ending" \/ stray # "none"
              /\ pending' = None /\ lost' = lost \cup TurnsOf(<<Head(queue)>>)
    PROVE  \A t \in Waiting \ Waiting' : Accounted(t)
<1>1. queue \in Seq(Item) /\ Head(queue) \in Item /\ Head(queue) # None /\ given \in Seq(Turn)
  BY Tailed, NoneAssumption DEF TypeOK, QueueType, PastType
<1> SUFFICES ASSUME NEW t \in Waiting, t \notin Waiting'
             PROVE  Accounted(t)
  OBVIOUS
<1>2. t \in TurnsOf(queue) /\ t # 0
  BY DEF Waiting, TurnsOf
<1>3. TurnsOf(queue') \subseteq Waiting'
  BY DEF Waiting, TurnsOf
<1>4. t = Head(queue).turn
  BY <1>1, <1>2, <1>3, TurnsOfTail
<1>5. CASE pending' = Head(queue)
  <2>1. Waiting' = TurnsOf(queue') \cup TurnsOf(<<Head(queue)>>)
    BY <1>1, <1>5 DEF Waiting, TurnsOf
  <2> QED BY <1>2, <1>4, <2>1, TurnOfOne
<1>6. CASE given' = WithTurn(given, Head(queue))
  BY <1>1, <1>2, <1>4, <1>6, GivenIncludes DEF Accounted
<1>7. CASE /\ aborted \/ stage = "ending" \/ stray # "none"
           /\ lost' = lost \cup TurnsOf(<<Head(queue)>>)
  BY <1>2, <1>4, <1>7, TurnOfOne DEF Accounted
<1> QED BY <1>5, <1>6, <1>7

LEMMA EndedIsAccounted ==
    ASSUME LeavingAborts, EndLaunch
    PROVE  \A t \in Waiting \ Waiting' : Accounted(t)
<1>1. CASE exitReason = "none"
  <2>1. UNCHANGED <<pending, queue>>
    BY <1>1 DEF EndLaunch
  <2> QED BY <2>1, NothingVanishes DEF TurnsOf
<1>2. CASE exitReason # "none"
  <2>1. /\ aborted /\ queue' = queue
        /\ lost' = lost \cup (Waiting \ TurnsOf(queue))
    BY <1>2 DEF EndLaunch, Ended, LeavingAborts
  <2>2. TurnsOf(queue) \subseteq Waiting'
    BY <2>1 DEF Waiting, TurnsOf
  <2> QED BY <2>1, <2>2 DEF Accounted
<1> QED BY <1>1, <1>2

THEOREM VanishStep ==
    ASSUME TypeOK, Scoped, LeavingAborts, [Next]_vars
    PROVE  \A t \in Waiting \ Waiting' : Accounted(t)
<1>1. CASE UserTurn
  <2>1. PICK p \in Prompts :
            LET item == [turn |-> sent + 1, mode |-> p.mode, kind |-> p.kind]
            IN queue' = IF Isolate(item) THEN <<item>> ELSE Append(queue, item)
    BY <1>1 DEF UserTurn
  <2> DEFINE item == [turn |-> sent + 1, mode |-> p.mode, kind |-> p.kind]
  <2>2. sent' = sent + 1 /\ sent < MaxTurns /\ UNCHANGED pending
    BY <1>1 DEF UserTurn
  <2>3. item \in Item /\ queue \in Seq(Item) /\ sent \in Nat
    BY <2>2, PromptIsItem DEF TypeOK, QueueType
  <2>4. \/ item.kind # "plain" /\ queue' = <<item>>
        \/ queue' = Append(queue, item)
    BY <2>1 DEF Isolate
  <2> HIDE DEF item
  <2>5. CASE item.kind # "plain" /\ queue' = <<item>>
    BY <2>2, <2>3, <2>5 DEF Accounted
  <2>6. CASE queue' = Append(queue, item)
    BY <2>2, <2>3, <2>6, TurnsOfAppended, NothingVanishes
  <2> QED BY <2>4, <2>5, <2>6
<1>2. CASE \/ LocalBegins \/ LocalEnds \/ LocalLeaves \/ LocalSwitch \/ WaitForFirst
           \/ FetchWaits \/ Result \/ ClaudeExits \/ UNCHANGED vars
  <2>1. UNCHANGED <<queue, pending>>
    BY <1>2 DEF LocalBegins, LocalEnds, LocalLeaves, LocalSwitch, WaitForFirst,
                FetchWaits, Result, ClaudeExits, vars, queueVars
  <2> QED BY <2>1, NothingVanishes DEF TurnsOf
<1>3. CASE LocalAbort
  <2>1. mode = "local" /\ left'["abort"] < left["abort"]
    BY <1>3 DEF LocalAbort, Spend, TypeOK, LeftType, Cause
  <2> QED BY <2>1 DEF Accounted
<1>4. CASE CancelTurn
  <2>1. PICK k \in DOMAIN queue : queue' = RemoveAt(queue, k)
    BY <1>4 DEF CancelTurn
  <2>2. left'["cancel"] < left["cancel"] /\ UNCHANGED pending
    BY <1>4 DEF CancelTurn, Spend, TypeOK, LeftType, Cause
  <2>3. Waiting' = TurnsOf(queue') \cup (IF pending = None THEN {} ELSE TurnsOf(<<pending>>))
    BY <2>2 DEF Waiting, TurnsOf
  <2>4. \A t \in TurnsOf(queue) : t \in TurnsOf(queue') \/ t = queue[k].turn
    BY <2>1, TurnsOfRemoved DEF TypeOK, QueueType
  <2>5. \A t \in Waiting \ Waiting' : t = queue[k].turn
    BY <2>3, <2>4 DEF Waiting
  <2> QED BY <2>2, <2>5 DEF Accounted
<1>5. CASE StrayTakes
  <2>1. /\ pending = None /\ stray # "none" /\ queue # <<>> /\ queue' = Tail(queue)
        /\ \/ pending' = Head(queue)
           \/ pending' = None /\ lost' = lost \cup TurnsOf(<<Head(queue)>>)
    BY <1>5 DEF StrayTakes, StrayWoken, Scoped, PutAsideAlone
  <2> QED BY <2>1, TakenIsAccounted
<1>6. CASE FirstFromPending
  <2>1. /\ pending \in Item /\ queue' = queue /\ given \in Seq(Turn)
        /\ \/ given' = WithTurn(given, pending)
           \/ aborted /\ lost' = lost \cup TurnsOf(<<pending>>)
    BY <1>6 DEF FirstFromPending, Start, TypeOK, PendingType, PastType
  <2>2. TurnsOf(queue) \subseteq Waiting'
    BY <2>1 DEF Waiting, TurnsOf
  <2>3. \A t \in Waiting \ Waiting' : t = pending.turn /\ t # 0 /\ t \in TurnsOf(<<pending>>)
    BY <2>2, TurnOfOne DEF Waiting
  <2> QED BY <2>1, <2>3, GivenIncludes DEF Accounted
<1>7. CASE FirstFromQueue
  <2>1. /\ pending = None /\ queue # <<>> /\ queue' = Tail(queue)
        /\ \/ pending' = Head(queue)
           \/ pending' = None /\ given' = WithTurn(given, Head(queue))
           \/ aborted /\ pending' = None /\ lost' = lost \cup TurnsOf(<<Head(queue)>>)
    BY <1>7 DEF FirstFromQueue, CanAsk, Start
  <2> QED BY <2>1, TakenIsAccounted
<1>8. CASE NextFromQueue
  <2>1. pending = None /\ queue # <<>> /\ queue' = Tail(queue)
    BY <1>8 DEF NextFromQueue, Fetches, Scoped, PutAsideAlone
  <2>2. \/ pending' = Head(queue)
        \/ pending' = None /\ given' = WithTurn(given, Head(queue))
        \/ /\ aborted \/ stage = "ending"
           /\ pending' = None /\ lost' = lost \cup TurnsOf(<<Head(queue)>>)
    BY <1>8, <2>1 DEF NextFromQueue, Deaf
  <2> QED BY <2>1, <2>2, TakenIsAccounted
<1>9. CASE RemoteRpc
  <2>1. UNCHANGED <<queue, pending>>
    BY <1>9 DEF RemoteRpc, RemoteAbort, RemoteExit, Signal, queueVars
  <2> QED BY <2>1, NothingVanishes DEF TurnsOf
<1>10. CASE AskUser \/ Answer
  <2>1. UNCHANGED pending /\ (queue' = queue \/ queue' = <<Restart>> \o queue)
    BY <1>10 DEF AskUser, Answer
  <2>2. TurnsOf(queue) \subseteq TurnsOf(queue')
    BY <2>1, TurnsOfPrefixed, RestartIsItem DEF TypeOK, QueueType
  <2> QED BY <2>1, <2>2, NothingVanishes
<1>11. CASE RefusalEndsLaunch \/ StreamEnds \/ ClaudeDies
  <2>1. UNCHANGED <<queue, pending>>
    BY <1>11 DEF RefusalEndsLaunch, StreamEnds, ClaudeDies, queueVars
  <2> QED BY <2>1, NothingVanishes DEF TurnsOf
<1>12. CASE EndLaunch
  BY <1>12, EndedIsAccounted
<1> QED
  BY <1>1, <1>2, <1>3, <1>4, <1>5, <1>6, <1>7, <1>8, <1>9, <1>10, <1>11, <1>12
  DEF Next, LocalNext, LaunchNext, RemoteRpc, ClaudeNext, Over

(* No waiting turn disappears: relaunches, refusals, changes of mode and the *)
(* death of Claude keep it until it is handed over or given up on purpose.   *)
THEOREM NoTurnEverVanishes == Spec => NoTurnVanishes
<1>1. Init => TypeOK /\ Scoped /\ LeavingAborts
  <2>1. Init => Scoped /\ LeavingAborts
    BY DEF Init, Scoped, LaunchScoped, PutAsideAlone, LeavingAborts
  <2> QED BY <2>1, InitType
<1>2. TypeOK /\ Scoped /\ LeavingAborts /\ [Next]_vars
        => (TypeOK /\ Scoped /\ LeavingAborts)'
  BY TypeStep, ScopedStep, AbortStep
<1>3. TypeOK /\ Scoped /\ LeavingAborts /\ [Next]_vars
        => [\A t \in Waiting \ Waiting' : Accounted(t)]_vars
  BY VanishStep
<1>4. Spec => [][\A t \in Waiting \ Waiting' : Accounted(t)]_vars
  BY <1>1, <1>2, <1>3, PTL DEF Spec
<1> QED BY <1>4 DEF NoTurnVanishes, Accounted
-----------------------------------------------------------------------------
(* The invariant behind TurnsRunInTheirMode: as long as the launcher knows no *)
(* mode, or the one it launched with, the process has turns of that mode only. *)
OfOneMode == modeHash \in {NoMode, launched} => \A k \in DOMAIN inbox : inbox[k].mode = launched
Remembered ==
    /\ OfOneMode
    /\ stage \notin {"claude", "ending"} => modeHash = NoMode
    /\ stage # "claude" => inbox = <<>>

LEMMA IdleRemembered ==
    ASSUME Idle
    PROVE  Remembered'
BY DEF Idle, Remembered, OfOneMode

LEMMA EndLaunchRemembered ==
    ASSUME EndLaunch
    PROVE  Remembered'
BY IdleRemembered DEF EndLaunch

LEMMA StartRemembered ==
    ASSUME NEW item \in Item, Start(item), Remembered, stage \in {"top", "asking"},
           modeHash' = modeHash \/ item.kind # "clear"
    PROVE  Remembered'
<1>1. CASE item.kind = "clear"
  BY <1>1 DEF Start, Remembered, OfOneMode
<1>2. CASE item.kind # "clear"
  <2>1. stage' = "claude" /\ launched' = item.mode
       /\ (inbox' = <<item>> \/ inbox' = <<>>)
    BY <1>2 DEF Start
  <2> QED BY <2>1 DEF Remembered, OfOneMode
<1> QED BY <1>1, <1>2

LEMMA NextRemembered ==
    ASSUME TypeOK, Remembered, NextFromQueue
    PROVE  Remembered'
<1> DEFINE item == Head(queue)
<1>1. queue \in Seq(Item) /\ queue # <<>> /\ inbox \in Seq(Item)
  BY DEF TypeOK, QueueType, ClaudeType, NextFromQueue
<1>2. item \in Item /\ item.mode \in Mode /\ NoMode \notin Mode
  <2>1. Head(queue) \in Item
    BY <1>1, Tailed
  <2>2. \A i \in Item : i.mode \in Mode
    BY DEF Item
  <2> QED BY <2>1, <2>2, LoopAssumption
<1>3. /\ stage \in {"claude", "ending"} /\ stage' = stage /\ launched' = launched
      /\ stage = "ending" => inbox' = inbox
  BY DEF NextFromQueue, Fetches, Deaf, loopVars
<1>4. CASE modeHash' = modeHash /\ inbox' = inbox
  BY <1>3, <1>4 DEF Remembered, OfOneMode
<1>5. CASE modeHash' = item.mode /\ (modeHash = NoMode \/ item.mode = modeHash)
           /\ (inbox' = inbox \/ inbox' = Append(inbox, item))
  <2> SUFFICES ASSUME item.mode = launched
               PROVE  \A k \in DOMAIN inbox' : inbox'[k].mode = launched
    BY <1>2, <1>3, <1>5 DEF Remembered, OfOneMode
  <2>1. \A k \in DOMAIN inbox : inbox[k].mode = launched
    BY <1>5 DEF Remembered, OfOneMode
  <2>2. CASE inbox' = inbox
    BY <2>1, <2>2
  <2>3. CASE inbox' = Append(inbox, item)
    <3>1. /\ DOMAIN inbox' = 1 .. (Len(inbox) + 1) /\ DOMAIN inbox = 1 .. Len(inbox)
          /\ \A k \in 1 .. Len(inbox) : inbox'[k] = inbox[k]
          /\ inbox'[Len(inbox) + 1] = item /\ Len(inbox) \in Nat
      BY <1>1, <1>2, <2>3, Appended
    <3>2. \A k \in DOMAIN inbox' : k \in 1 .. Len(inbox) \/ k = Len(inbox) + 1
      BY <3>1
    <3> QED BY <2>1, <3>1, <3>2
  <2> QED BY <1>5, <2>2, <2>3
<1> QED
  BY <1>4, <1>5 DEF NextFromQueue

THEOREM RememberedStep ==
    ASSUME TypeOK, Remembered, [Next]_vars
    PROVE  Remembered'
<1> USE DEF TypeOK
<1>1. CASE UserTurn \/ CancelTurn \/ StrayTakes \/ UNCHANGED vars
  <2>1. stage' = stage /\ UNCHANGED claudeVars
    BY <1>1 DEF UserTurn, CancelTurn, StrayTakes, vars, loopVars
  <2> QED BY <2>1 DEF claudeVars, Remembered, OfOneMode
<1>2. CASE LocalNext
  BY <1>2 DEF LocalNext, LocalBegins, LocalEnds, LocalLeaves, LocalAbort, LocalSwitch,
              HandOver, LoopType, claudeVars, Remembered, OfOneMode
<1>3. CASE FirstFromPending
  <2>1. pending \in Item
    BY <1>3 DEF FirstFromPending, PendingType
  <2> QED BY <1>3, <2>1, StartRemembered DEF FirstFromPending
<1>4. CASE FirstFromQueue
  <2>1. Head(queue) \in Item
    BY <1>4, Tailed DEF FirstFromQueue, QueueType
  <2>2. CASE Isolate(Head(queue))
    BY <1>4, <2>2 DEF FirstFromQueue, CanAsk, claudeVars, Remembered, OfOneMode
  <2>3. CASE ~Isolate(Head(queue))
    <3>1. Start(Head(queue)) /\ stage \in {"top", "asking"}
      BY <1>4, <2>3 DEF FirstFromQueue, CanAsk
    <3>2. Head(queue).kind # "clear"
      BY <2>3 DEF Isolate
    <3> QED BY <2>1, <3>1, <3>2, StartRemembered
  <2> QED BY <2>2, <2>3
<1>5. CASE WaitForFirst
  BY <1>5 DEF WaitForFirst, CanAsk, claudeVars, Remembered, OfOneMode
<1>6. CASE NextFromQueue
  BY <1>6, NextRemembered
<1>7. CASE RemoteRpc
  <2>1. /\ stage' = stage \/ (stage = "asking" /\ stage' = "ending")
        /\ UNCHANGED <<modeHash, launched, inbox>>
    BY <1>7 DEF RemoteRpc, RemoteAbort, RemoteExit, Signal
  <2> QED BY <2>1 DEF Remembered, OfOneMode
<1>8. CASE Result
  <2>1. CASE inbox # <<>> /\ inbox' = Tail(inbox)
    <3>1. /\ DOMAIN inbox' = 1 .. (Len(inbox) - 1) /\ DOMAIN inbox = 1 .. Len(inbox)
          /\ \A k \in 1 .. (Len(inbox) - 1) : inbox'[k] = inbox[k + 1]
          /\ Len(inbox) \in Nat
      BY <2>1, Tailed DEF ClaudeType
    <3>2. \A k \in DOMAIN inbox' : k + 1 \in DOMAIN inbox /\ inbox'[k] = inbox[k + 1]
      BY <3>1
    <3>3. stage = "claude" /\ stage' = stage /\ modeHash' = modeHash /\ launched' = launched
      BY <1>8 DEF Result, Streams, loopVars
    <3> QED BY <3>2, <3>3 DEF Remembered, OfOneMode
  <2>2. CASE inbox' = inbox
    BY <1>8, <2>2 DEF Result, loopVars, Remembered, OfOneMode
  <2> QED BY <1>8, <2>1, <2>2 DEF Result
<1>9. CASE AskUser \/ Answer \/ ClaudeExits \/ FetchWaits
  BY <1>9 DEF AskUser, Answer, ClaudeExits, FetchWaits, loopVars, Remembered, OfOneMode
<1>10. CASE RefusalEndsLaunch \/ StreamEnds \/ ClaudeDies
  BY <1>10 DEF RefusalEndsLaunch, StreamEnds, ClaudeDies, LaunchOver, Remembered, OfOneMode
<1>11. CASE EndLaunch
  BY <1>11, EndLaunchRemembered
<1> QED
  BY <1>1, <1>2, <1>3, <1>4, <1>5, <1>6, <1>7, <1>8, <1>9, <1>10, <1>11
  DEF Next, LaunchNext, ClaudeNext, Over

(* No turn of another mode is written to a process whose mode is remembered. *)
THEOREM TurnsStayInTheirMode == Spec => []TurnsRunInTheirMode
<1>1. Init => TypeOK /\ Remembered
  BY InitType DEF Init, Remembered, OfOneMode
<1>2. TypeOK /\ Remembered /\ [Next]_vars => (TypeOK /\ Remembered)'
  BY TypeStep, RememberedStep
<1>3. Remembered => TurnsRunInTheirMode
  BY DEF Remembered, OfOneMode, TurnsRunInTheirMode
<1> QED BY <1>1, <1>2, <1>3, PTL DEF Spec
=============================================================================
