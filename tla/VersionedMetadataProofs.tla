----------------------- MODULE VersionedMetadataProofs -----------------------
(***************************************************************************)
(* What TLAPS proves of VersionedMetadata for every number of CLI          *)
(* processes, updates, hub writes and faults: the type invariant, the      *)
(* coherence of the CLI caches, that a commit changes nothing but what its *)
(* update is about, and that VersionedMetadata implements AtomicMetadata:  *)
(* the versions, the lock, the retries and the merge make each update take *)
(* effect in one step over the current value, in the order of its          *)
(* process's calls, although requests are computed from caches and may     *)
(* arrive after their process is gone.                                     *)
(***************************************************************************)
EXTENDS VersionedMetadata, SequenceTheorems, TLAPS

-----------------------------------------------------------------------------
(* The operators on values.                                                *)

LEMMA HandlerType ==
    ASSUME NEW u \in CliUpdate, NEW v \in Value
    PROVE  Handler(u, v) \in Payload
BY DEF Handler, Picked, CliUpdate, Value, Payload, Content, Field, Missing, Null

LEMMA MergeType ==
    ASSUME NEW prior \in Value, NEW next \in Payload
    PROVE  Merge(prior, next) \in Value
BY DEF Merge, Value, Payload, Content, Missing, Null

LEMMA NoValueType == NoValue \in Value /\ FirstValue \in Value
BY DEF NoValue, FirstValue, Value, Content, Missing, Field

LEMMA ParsedType ==
    ASSUME NEW c, NEW v \in Value
    PROVE  Parsed(c, v) \in Value
BY DEF Parsed, Value, Content

\* What a CLI handler makes of any value, merged into the row, changes what
\* the update is about, drops `mode` or brings that value's field, and never
\* loses a carried one.
LEMMA MergeKeeps ==
    ASSUME NEW u \in CliUpdate, NEW prior \in Value, NEW base \in Value, NEW f \in Field
    PROVE  \/ Merge(prior, Handler(u, base))[f] = prior[f]
           \/ f \in Touches(u)
           \/ u = "attach" /\ f = "mode" /\ Merge(prior, Handler(u, base))[f] = Missing
           \/ /\ Merge(prior, Handler(u, base))[f] = base[f]
              /\ f \in Carried => base[f] # Missing
<1> DEFINE next == Handler(u, base)
           merged == Merge(prior, next)
<1>1. merged[f] = IF f \in Carried /\ next[f] = Missing THEN prior[f]
                  ELSE IF next[f] = Null THEN Missing ELSE next[f]
  BY DEF Merge
<1>2. f \notin Touches(u) =>
          \/ next[f] = base[f]
          \/ f = "owner" /\ next[f] = Missing
          \/ f = "mode" /\ u = "attach" /\ next[f] = Missing
  BY DEF Handler, Picked, Touches, CliUpdate, Field
<1>3. prior[f] \in Content /\ base[f] \in Content /\ Null \notin Content /\ Null # Missing
  BY DEF Value, Content, Null, Missing
<1>4. f = "owner" => f \in Carried
  BY DEF Carried
<1> HIDE DEF next, merged
<1>5. \/ merged[f] = prior[f]
      \/ f \in Touches(u)
      \/ u = "attach" /\ f = "mode" /\ merged[f] = Missing
      \/ merged[f] = base[f] /\ (f \in Carried => base[f] # Missing)
  BY <1>1, <1>2, <1>3, <1>4
<1> QED BY <1>5 DEF next, merged

-----------------------------------------------------------------------------
(* Type correctness.                                                       *)

\* The row exists from the creation of the session on.
Typed == TypeOK /\ log # <<>>

\* Nothing travels on a transport that is gone.
DeadLinksAreEmpty ==
    \A c \in Client :
        /\ link[c] # "up" => uplink[c] = <<>> /\ downlink[c] = <<>>
        /\ link[c] # "down" => unsent[c] = <<>>

InFlight == Typed /\ DeadLinksAreEmpty /\ OneInFlight

LEMMA LastElement ==
    ASSUME NEW S, NEW s \in Seq(S), s # <<>>
    PROVE  /\ Len(s) \in Nat /\ DOMAIN s = 1..Len(s)
           /\ Len(s) \in DOMAIN s /\ s[Len(s)] \in S
<1>1. Len(s) \in Nat /\ Len(s) # 0 /\ DOMAIN s = 1..Len(s)
  OBVIOUS
<1>2. Len(s) \in 1..Len(s)
  BY <1>1
<1> QED BY <1>1, <1>2

LEMMA Appended ==
    ASSUME NEW S, NEW s \in Seq(S), NEW x \in S
    PROVE  /\ Append(s, x) \in Seq(S) /\ Append(s, x) # <<>>
           /\ Len(Append(s, x)) = Len(s) + 1
           /\ \A k \in DOMAIN s : k \in DOMAIN Append(s, x) /\ Append(s, x)[k] = s[k]
           /\ Append(s, x)[Len(s) + 1] = x
           /\ DOMAIN Append(s, x) = DOMAIN s \cup {Len(s) + 1}
  OBVIOUS

LEMMA Frames ==
    /\ HubType /\ UNCHANGED <<log, hubWrites>> => HubType'
    /\ CliType /\ UNCHANGED cliVars => CliType'
    /\ NetType /\ UNCHANGED netVars => NetType'
    /\ FaultsType /\ UNCHANGED faults => FaultsType'
<1>1. HubType /\ UNCHANGED <<log, hubWrites>> => HubType'
  BY DEF HubType
<1>2. CliType /\ UNCHANGED cliVars => CliType'
  BY DEF CliType, cliVars
<1>3. NetType /\ UNCHANGED netVars => NetType'
  BY DEF NetType, netVars
<1>4. FaultsType /\ UNCHANGED faults => FaultsType'
  BY DEF FaultsType
<1> QED BY <1>1, <1>2, <1>3, <1>4

LEMMA RowType ==
    ASSUME Typed
    PROVE  Row \in Value /\ Version \in Nat /\ Version \in DOMAIN log
<1>1. log \in Seq(Commit) /\ log # <<>>
  BY DEF Typed, TypeOK, HubType
<1>2. Len(log) \in Nat /\ Len(log) \in DOMAIN log /\ log[Len(log)] \in Commit
  BY <1>1, LastElement
<1> QED BY <1>2 DEF Row, Version, Commit

LEMMA AppendCommit ==
    ASSUME Typed, NEW x \in Commit, log' = Append(log, x)
    PROVE  log' \in Seq(Commit) /\ log' # <<>>
BY Appended DEF Typed, TypeOK, HubType

LEMMA AnswerType ==
    ASSUME Typed, NEW c, NEW reply \in Reply, NEW told \in BOOLEAN, Answer(c, reply, told)
    PROVE  downlink' \in [Client -> Seq(Reply)]
<1>1. [reply EXCEPT !.kind = "broadcast"] \in Reply
  BY DEF Reply
<1>2. \A d \in Client : downlink[d] \in Seq(Reply)
  BY DEF Typed, TypeOK, NetType
<1> QED BY <1>1, <1>2 DEF Answer

LEMMA DecideType ==
    ASSUME Typed, NEW c, NEW request \in Request, Decide(request, c)
    PROVE  log' \in Seq(Commit) /\ log' # <<>> /\ downlink' \in [Client -> Seq(Reply)]
<1> DEFINE merged == Merge(Row, request.next)
           x == [value |-> merged, by |-> request.by, update |-> request.update,
                 call |-> request.call, basis |-> request.basis]
           yes == [kind |-> "success", version |-> Version + 1, value |-> merged]
           no == [kind |-> "mismatch", version |-> Version, value |-> Row]
<1>1. Row \in Value /\ Version \in Nat /\ merged \in Value
  BY RowType, MergeType DEF Request
<1>2. x \in Commit
  BY <1>1 DEF Request, Commit
<1>3. yes \in Reply /\ no \in Reply
  BY <1>1 DEF Reply
<1>4. CASE AtVersion(request)
  <2>1. log' = Append(log, x) /\ Answer(c, yes, TRUE)
    BY <1>4 DEF Decide
  <2> HIDE DEF x, yes, merged
  <2> QED BY <2>1, <1>2, <1>3, AppendCommit, AnswerType
<1>5. CASE ~AtVersion(request)
  <2>1. log' = log /\ Answer(c, no, FALSE)
    BY <1>5 DEF Decide
  <2> HIDE DEF no
  <2> QED BY <2>1, <1>3, AnswerType DEF Typed, TypeOK, HubType
<1> QED BY <1>4, <1>5

LEMMA DecideAnswers ==
    ASSUME Typed, NEW c, NEW request \in Request, Decide(request, c)
    PROVE  \E reply \in Reply, told \in BOOLEAN : Answer(c, reply, told)
<1> DEFINE merged == Merge(Row, request.next)
           yes == [kind |-> "success", version |-> Version + 1, value |-> merged]
           no == [kind |-> "mismatch", version |-> Version, value |-> Row]
<1>1. Row \in Value /\ Version \in Nat /\ merged \in Value
  BY RowType, MergeType DEF Request
<1>2. yes \in Reply /\ no \in Reply
  BY <1>1 DEF Reply
<1>3. Answer(c, yes, TRUE) \/ Answer(c, no, FALSE)
  BY DEF Decide
<1> HIDE DEF yes, no
<1> QED BY <1>2, <1>3

LEMMA HubWritesType ==
    ASSUME Typed, NEW u \in HubUpdate,
           NEW next \in Payload, HubWrites(u, next)
    PROVE  Typed'
<1>1. Merge(Row, next) \in Value
  BY RowType, MergeType
<1> DEFINE x == [value |-> Merge(Row, next), by |-> "hub", update |-> u,
                 call |-> 0, basis |-> Version]
<1>2. x \in Commit
  BY <1>1, RowType DEF Commit
<1>3. log' = Append(log, x) /\ hubWrites' = hubWrites + 1
  BY DEF HubWrites
<1> HIDE DEF x
<1>4. log' \in Seq(Commit) /\ log' # <<>>
  BY <1>2, <1>3, AppendCommit
<1>5. HubType'
  BY <1>3, <1>4 DEF HubType, Typed, TypeOK
<1>6. UNCHANGED cliVars /\ UNCHANGED netVars /\ UNCHANGED faults
  BY DEF HubWrites
<1> QED BY <1>4, <1>5, <1>6, Frames DEF Typed, TypeOK

LEMMA ValuesArePayloads ==
    /\ Value \subseteq Payload
    /\ \A v \in Value : \A f \in Field : \A x \in Content : [v EXCEPT ![f] = x] \in Payload
BY DEF Value, Payload

LEMMA FaultType ==
    ASSUME Typed, NEW f \in FaultKind, Fault(f)
    PROVE  faults' \in [FaultKind -> Nat]
BY DEF Typed, TypeOK, FaultsType, Fault

LEMMA ToldType ==
    ASSUME NEW c, NEW known \in Cached, NEW value \in Value, NEW k \in Nat
    PROVE  Told(c, known, value, k) \in Cached
BY ParsedType DEF Told, Cached

LEMMA FetchedType ==
    ASSUME NEW c, NEW value \in Value, NEW k \in Nat
    PROVE  Fetched(c, value, k) \in Cached
<1>1. [value |-> NoValue, version |-> 0, basis |-> 0] \in Cached
  BY NoValueType DEF Cached
<1> QED BY <1>1, ToldType DEF Fetched

LEMMA RestartType ==
    ASSUME Typed, NEW c \in Client, Restart(c)
    PROVE  Typed'
<1>1. Fetched(c, Row, Version) \in Cached
  BY RowType, FetchedType
<1>2. CliType'
  BY <1>1 DEF Restart, Typed, TypeOK, CliType
<1>3. late' \in SUBSET Request
  <2>1. uplink[c] \in Seq(Request)
    BY DEF Typed, TypeOK, NetType
  <2>2. \A k \in DOMAIN uplink[c] : uplink[c][k] \in Request
    BY <2>1
  <2> QED BY <2>2 DEF Restart, Orphaned, Typed, TypeOK, NetType
<1>4. NetType'
  BY <1>3 DEF Restart, Typed, TypeOK, NetType
<1>5. HubType' /\ log' # <<>>
  BY Frames DEF Restart, Typed, TypeOK
<1>6. FaultsType'
  BY FaultType DEF Restart, FaultKind, FaultsType
<1> QED BY <1>2, <1>4, <1>5, <1>6 DEF Typed, TypeOK

LEMMA InitTyped == Init => Typed
<1> SUFFICES ASSUME Init PROVE Typed
  OBVIOUS
<1>1. FirstValue \in Value /\ Creation \in Commit
  BY NoValueType DEF Creation, Commit, HubUpdate
<1>2. log = <<Creation>>
  BY DEF Init
<1> HIDE DEF Creation
<1>3. HubType /\ log # <<>>
  BY <1>1, <1>2 DEF HubType, Init
<1>4. CliType
  <2>1. \A c \in Client : Fetched(c, FirstValue, 1) \in Cached
    BY <1>1, FetchedType
  <2> QED BY <2>1 DEF CliType, Init
<1>5. NetType
  BY DEF NetType, Init
<1>6. FaultsType
  BY DEF FaultsType, Init
<1> QED BY <1>3, <1>4, <1>5, <1>6 DEF Typed, TypeOK

LEMMA FirstReply ==
    ASSUME Typed, NEW c \in Client, downlink[c] # <<>>
    PROVE  Head(downlink[c]) \in Reply /\ Tail(downlink[c]) \in Seq(Reply)
BY DEF Typed, TypeOK, NetType

LEMMA FirstRequest ==
    ASSUME Typed, NEW c \in Client, uplink[c] # <<>>
    PROVE  Head(uplink[c]) \in Request /\ Tail(uplink[c]) \in Seq(Request)
BY DEF Typed, TypeOK, NetType

LEMMA FirstJob ==
    ASSUME Typed, NEW c \in Client, jobs[c] # <<>>
    PROVE  Head(jobs[c]) \in Job /\ Tail(jobs[c]) \in Seq(Job)
BY DEF Typed, TypeOK, CliType

LEMMA OutgoingType ==
    ASSUME Typed, NEW c \in Client, jobs[c] # <<>>
    PROVE  Outgoing(c) \in Request
<1>1. /\ Head(jobs[c]).update \in CliUpdate /\ Head(jobs[c]).call \in Nat
  BY FirstJob DEF Job
<1>2. cache[c].value \in Value /\ cache[c].version \in Nat /\ cache[c].basis \in Nat
  BY DEF Typed, TypeOK, CliType, Cached
<1>3. Handler(Head(jobs[c]).update, cache[c].value) \in Payload
  BY <1>1, <1>2, HandlerType
<1> QED BY <1>1, <1>2, <1>3 DEF Outgoing, Request

LEMMA LearnType ==
    ASSUME Typed, NEW c \in Client, NEW reply \in Reply, Learn(c, reply)
    PROVE  cache' \in [Client -> Cached]
<1>1. cache \in [Client -> Cached] /\ reply.value \in Value /\ reply.version \in Nat
  BY DEF Typed, TypeOK, CliType, Reply
<1>2. Told(c, cache[c], reply.value, reply.version) \in Cached
  BY <1>1, ToldType
<1> QED BY <1>1, <1>2 DEF Learn

LEMMA CliStepTyped ==
    ASSUME InFlight, NEW c \in Client, CliStep(c)
    PROVE  Typed'
<1> USE DEF InFlight
<1>1. CASE Attempt(c)
  <2>1. /\ uplink' = IF link[c] = "up"
                     THEN [uplink EXCEPT ![c] = Append(@, Outgoing(c))] ELSE uplink
        /\ unsent' = IF link[c] = "down"
                     THEN [unsent EXCEPT ![c] = Append(@, Outgoing(c))] ELSE unsent
    BY <1>1 DEF Attempt, Sending
  <2>2. Outgoing(c) \in Request
    BY <1>1, OutgoingType DEF Attempt
  <2>3. CliType' /\ HubType' /\ FaultsType' /\ log' # <<>>
    BY <1>1 DEF Attempt, Sending, Typed, TypeOK, CliType, HubType, FaultsType
  <2>4. NetType'
    BY <1>1, <2>1, <2>2 DEF Attempt, Sending, Typed, TypeOK, NetType
  <2> QED BY <2>3, <2>4 DEF Typed, TypeOK
<1>2. CASE ReceiveAck(c)
  <2>1. Head(downlink[c]) \in Reply /\ Tail(downlink[c]) \in Seq(Reply)
    BY <1>2, FirstReply DEF ReceiveAck
  <2>2. cache' \in [Client -> Cached]
    BY <1>2, <2>1, LearnType DEF ReceiveAck, Typed, TypeOK, CliType
  <2>7. jobs[c] # <<>>
    <3>1. 1 \in DOMAIN downlink[c] /\ downlink[c][1].kind # "broadcast"
      BY <1>2 DEF ReceiveAck, Typed, TypeOK, NetType
    <3>2. ~NoAck(downlink[c])
      BY <3>1 DEF NoAck
    <3> QED BY <3>2 DEF InFlight, OneInFlight
  <2>3. jobs' \in [Client -> Seq(Job)]
    BY <1>2, <2>7, FirstJob DEF ReceiveAck, Typed, TypeOK, CliType
  <2>4. CliType'
    BY <1>2, <2>2, <2>3 DEF ReceiveAck, Typed, TypeOK, CliType
  <2>5. NetType'
    BY <1>2, <2>1 DEF ReceiveAck, Typed, TypeOK, NetType
  <2>6. HubType' /\ FaultsType' /\ log' # <<>>
    BY <1>2 DEF ReceiveAck, Typed, TypeOK, HubType, FaultsType
  <2> QED BY <2>4, <2>5, <2>6 DEF Typed, TypeOK
<1>3. CASE ReceiveBroadcast(c)
  <2>1. Head(downlink[c]) \in Reply /\ Tail(downlink[c]) \in Seq(Reply)
    BY <1>3, FirstReply DEF ReceiveBroadcast
  <2>5. cache' \in [Client -> Cached]
    BY <1>3, <2>1, LearnType DEF ReceiveBroadcast, Typed, TypeOK, CliType
  <2>2. CliType'
    BY <1>3, <2>5 DEF ReceiveBroadcast, Typed, TypeOK, CliType
  <2>3. NetType'
    BY <1>3, <2>1 DEF ReceiveBroadcast, Typed, TypeOK, NetType
  <2>4. HubType' /\ FaultsType' /\ log' # <<>>
    BY <1>3 DEF ReceiveBroadcast, Typed, TypeOK, HubType, FaultsType
  <2> QED BY <2>2, <2>3, <2>4 DEF Typed, TypeOK
<1>4. CASE Connect(c)
  <2>1. NetType'
    BY <1>4 DEF Connect, Typed, TypeOK, NetType
  <2>2. CliType' /\ HubType' /\ FaultsType' /\ log' # <<>>
    BY <1>4, Frames DEF Connect, Typed, TypeOK
  <2> QED BY <2>1, <2>2 DEF Typed, TypeOK
<1>5. CASE NoticeDrop(c)
  <2>1. NetType' /\ CliType'
    BY <1>5 DEF NoticeDrop, Typed, TypeOK, NetType, CliType
  <2>2. HubType' /\ FaultsType' /\ log' # <<>>
    BY <1>5, Frames DEF NoticeDrop, Typed, TypeOK
  <2> QED BY <2>1, <2>2 DEF Typed, TypeOK
<1> QED BY <1>1, <1>2, <1>3, <1>4, <1>5 DEF CliStep

LEMMA OrphanedType ==
    ASSUME Typed, NEW c \in Client, NEW left \in Orphaned(c)
    PROVE  left \subseteq Request
<1>1. uplink[c] \in Seq(Request)
  BY DEF Typed, TypeOK, NetType
<1>2. \A k \in DOMAIN uplink[c] : uplink[c][k] \in Request
  BY <1>1
<1> QED BY <1>2 DEF Orphaned

LEMMA StepTyped ==
    ASSUME InFlight, [Next]_vars
    PROVE  Typed'
<1> USE DEF InFlight
<1>1. CASE UNCHANGED vars
  <2>1. UNCHANGED <<log, hubWrites>> /\ UNCHANGED cliVars /\ UNCHANGED netVars
          /\ UNCHANGED faults
    BY <1>1 DEF vars
  <2> QED BY <2>1, Frames DEF Typed, TypeOK
<1>2. ASSUME NEW c \in Client, NEW u \in CliUpdate, Update(c, u)
      PROVE  Typed'
  <2>1. [update |-> u, call |-> calls + 1] \in Job /\ calls + 1 \in Nat
    BY DEF Job, Typed, TypeOK, CliType
  <2>2. CliType'
    BY <1>2, <2>1 DEF Update, Typed, TypeOK, CliType
  <2>3. HubType' /\ NetType' /\ FaultsType' /\ log' # <<>>
    BY <1>2, Frames DEF Update, Typed, TypeOK
  <2> QED BY <2>2, <2>3 DEF Typed, TypeOK
<1>3. ASSUME NEW c \in Client, HubUpdates(c)
      PROVE  Typed'
  <2>1. /\ Head(uplink[c]) \in Request /\ Tail(uplink[c]) \in Seq(Request)
        /\ Decide(Head(uplink[c]), c)
    BY <1>3, FirstRequest DEF HubUpdates
  <2>2. log' \in Seq(Commit) /\ log' # <<>> /\ downlink' \in [Client -> Seq(Reply)]
    BY <2>1, DecideType
  <2>3. HubType' /\ NetType'
    BY <1>3, <2>1, <2>2 DEF HubUpdates, Typed, TypeOK, HubType, NetType
  <2>4. CliType' /\ FaultsType'
    BY <1>3, Frames DEF HubUpdates, Typed, TypeOK
  <2> QED BY <2>2, <2>3, <2>4 DEF Typed, TypeOK
<1>4. ASSUME NEW request \in late, HubUpdatesLate(request)
      PROVE  Typed'
  <2>1. request \in Request /\ Decide(request, "nobody")
    BY <1>4 DEF HubUpdatesLate, Typed, TypeOK, NetType
  <2>2. log' \in Seq(Commit) /\ log' # <<>> /\ downlink' \in [Client -> Seq(Reply)]
    BY <2>1, DecideType
  <2>3. HubType' /\ NetType'
    BY <1>4, <2>2 DEF HubUpdatesLate, Typed, TypeOK, HubType, NetType
  <2>4. CliType' /\ FaultsType'
    BY <1>4, Frames DEF HubUpdatesLate, Typed, TypeOK
  <2> QED BY <2>2, <2>3, <2>4 DEF Typed, TypeOK
<1>5. ASSUME NEW c \in Client, HubFails(c)
      PROVE  Typed'
  <2> DEFINE reply == [kind |-> "error", version |-> 0, value |-> NoValue]
  <2>1. reply \in Reply
    BY NoValueType DEF Reply
  <2>2. Answer(c, reply, FALSE) /\ Tail(uplink[c]) \in Seq(Request)
    BY <1>5, FirstRequest DEF HubFails
  <2> HIDE DEF reply
  <2>3. downlink' \in [Client -> Seq(Reply)]
    BY <2>1, <2>2, AnswerType
  <2>4. NetType'
    BY <1>5, <2>2, <2>3 DEF HubFails, Typed, TypeOK, NetType
  <2>5. HubType' /\ CliType' /\ log' # <<>>
    BY <1>5, Frames DEF HubFails, Typed, TypeOK
  <2>6. FaultsType'
    BY <1>5, FaultType DEF HubFails, FaultsType, FaultKind
  <2> QED BY <2>4, <2>5, <2>6 DEF Typed, TypeOK
<1>6. ASSUME NEW c \in Client, Drop(c)
      PROVE  Typed'
  <2>1. late' \in SUBSET Request
    BY <1>6, OrphanedType DEF Drop, Typed, TypeOK, NetType
  <2>2. NetType'
    BY <1>6, <2>1 DEF Drop, Typed, TypeOK, NetType
  <2>3. HubType' /\ CliType' /\ log' # <<>>
    BY <1>6, Frames DEF Drop, Typed, TypeOK
  <2>4. FaultsType'
    BY <1>6, FaultType DEF Drop, FaultsType, FaultKind
  <2> QED BY <2>2, <2>3, <2>4 DEF Typed, TypeOK
<1>7. ASSUME NEW c \in Client, Restart(c)
      PROVE  Typed'
  BY <1>7, RestartType
<1>8. ASSUME Claim \/ Unclaim \/ ArchiveFromHub \/ Reopen
                \/ Rename("first") \/ \E m \in {"plain", "odd"} : Prefer(m)
      PROVE  Typed'
  <2>1. PICK u \in HubUpdate,
             f \in Field, x \in Content : HubWrites(u, [Row EXCEPT ![f] = x])
    BY <1>8 DEF Rename, Prefer, Claim, Unclaim, ArchiveFromHub, Reopen, HubUpdate, Field,
       Content, Missing
  <2>2. [Row EXCEPT ![f] = x] \in Payload
    BY RowType, ValuesArePayloads
  <2> QED BY <2>1, <2>2, HubWritesType
<1> QED BY <1>1, <1>2, <1>3, <1>4, <1>5, <1>6, <1>7, <1>8, CliStepTyped DEF Next

-----------------------------------------------------------------------------
(* One update in flight.                                                   *)

\* DeadLinksAreEmpty and OneInFlight at one process.
Flight(c) ==
    /\ link[c] # "up" => uplink[c] = <<>> /\ downlink[c] = <<>>
    /\ link[c] # "down" => unsent[c] = <<>>
    /\ waiting[c] => jobs[c] # <<>>
    /\ ~waiting[c] => uplink[c] = <<>> /\ unsent[c] = <<>> /\ NoAck(downlink[c])
    /\ uplink[c] # <<>> => Len(uplink[c]) = 1 /\ NoAck(downlink[c])
    /\ unsent[c] # <<>> => Len(unsent[c]) = 1
    /\ OneAck(downlink[c])

LEMMA Flights ==
    /\ InFlight <=> Typed /\ \A c \in Client : Flight(c)
    /\ InFlight' <=> Typed' /\ \A c \in Client : Flight(c)'
<1>1. InFlight <=> Typed /\ \A c \in Client : Flight(c)
  BY DEF InFlight, DeadLinksAreEmpty, OneInFlight, Flight
<1>2. InFlight' <=> Typed' /\ \A c \in Client : Flight(c)'
  BY DEF InFlight, DeadLinksAreEmpty, OneInFlight, Flight
<1> QED BY <1>1, <1>2

LEMMA LastTaken ==
    ASSUME NEW S, NEW line \in Seq(S), Len(line) = 1
    PROVE  Tail(line) = <<>>
<1>1. Tail(line) \in Seq(S) /\ Len(Tail(line)) = 0
  OBVIOUS
<1> QED BY <1>1, EmptySeq

LEMMA AckAppended ==
    ASSUME NEW line \in Seq(Reply), NEW reply \in Reply
    PROVE  /\ reply.kind = "broadcast" /\ NoAck(line) => NoAck(Append(line, reply))
           /\ reply.kind = "broadcast" /\ OneAck(line) => OneAck(Append(line, reply))
           /\ NoAck(line) => OneAck(Append(line, reply))
BY DEF NoAck, OneAck

LEMMA AckTaken ==
    ASSUME NEW line \in Seq(Reply), line # <<>>
    PROVE  /\ NoAck(line) => NoAck(Tail(line))
           /\ OneAck(line) => OneAck(Tail(line))
           /\ OneAck(line) /\ Head(line).kind # "broadcast" => NoAck(Tail(line))
BY DEF NoAck, OneAck

LEMMA EmptyLines == NoAck(<<>>) /\ OneAck(<<>>)
BY DEF NoAck, OneAck

\* An answer gives its socket one reply and the others at most a broadcast.
LEMMA AnswerFlight ==
    ASSUME Typed, NEW c, NEW reply \in Reply, NEW told \in BOOLEAN, Answer(c, reply, told),
           NEW d \in Client
    PROVE  /\ link[d] # "up" => downlink'[d] = downlink[d]
           /\ NoAck(downlink[d]) => OneAck(downlink'[d])
           /\ d # c => /\ NoAck(downlink[d]) => NoAck(downlink'[d])
                       /\ OneAck(downlink[d]) => OneAck(downlink'[d])
<1> DEFINE note == [reply EXCEPT !.kind = "broadcast"]
<1>1. note \in Reply /\ note.kind = "broadcast"
  BY DEF Reply
<1>2. downlink[d] \in Seq(Reply)
  BY DEF Typed, TypeOK, NetType
<1>3. downlink'[d] = IF link[d] # "up" THEN downlink[d]
                     ELSE IF d = c THEN Append(downlink[d], reply)
                     ELSE IF told THEN Append(downlink[d], note) ELSE downlink[d]
  BY DEF Answer
<1>4. NoAck(downlink[d]) => OneAck(downlink[d])
  BY DEF NoAck, OneAck
<1> HIDE DEF note
<1> QED BY <1>1, <1>2, <1>3, <1>4, AckAppended

LEMMA InitFlight == Init => InFlight
<1> SUFFICES ASSUME Init, NEW c \in Client PROVE Flight(c)
  BY InitTyped, Flights
<1> QED BY EmptyLines DEF Init, Flight

\* An answered request: its line is empty, its socket has the one ack.
LEMMA AnsweredFlight ==
    ASSUME InFlight, NEW c \in Client, NEW d \in Client,
           NEW reply \in Reply, NEW told \in BOOLEAN, Answer(c, reply, told),
           uplink[c] # <<>>, uplink' = [uplink EXCEPT ![c] = Tail(@)],
           UNCHANGED <<link, unsent, waiting, jobs>>
    PROVE  Flight(d)'
<1>1. Flight(c) /\ Flight(d) /\ Typed
  BY Flights
<1>2. uplink[c] \in Seq(Request) /\ uplink[d] \in Seq(Request)
  BY <1>1 DEF Typed, TypeOK, NetType
<1>3. Len(uplink[c]) = 1 /\ NoAck(downlink[c]) /\ waiting[c] /\ link[c] = "up"
  BY <1>1, <1>2 DEF Flight, Typed, TypeOK, NetType, CliType
<1>4. uplink'[c] = <<>> /\ (d # c => uplink'[d] = uplink[d])
  BY <1>1, <1>2, <1>3, LastTaken DEF Typed, TypeOK, NetType
<1>5. /\ link[d] # "up" => downlink'[d] = downlink[d]
      /\ NoAck(downlink[d]) => OneAck(downlink'[d])
      /\ d # c => /\ NoAck(downlink[d]) => NoAck(downlink'[d])
                  /\ OneAck(downlink[d]) => OneAck(downlink'[d])
  BY <1>1, AnswerFlight
<1>6. CASE d = c
  BY <1>1, <1>3, <1>4, <1>5, <1>6 DEF Flight
<1>7. CASE d # c
  BY <1>1, <1>4, <1>5, <1>7 DEF Flight
<1> QED BY <1>6, <1>7

\* A process whose network and jobs are left alone keeps what it has.
LEMMA SameFlight ==
    ASSUME NEW d, Flight(d),
           link'[d] = link[d], uplink'[d] = uplink[d], downlink'[d] = downlink[d],
           unsent'[d] = unsent[d], waiting'[d] = waiting[d], jobs'[d] = jobs[d]
    PROVE  Flight(d)'
BY DEF Flight

LEMMA CliStepFlight ==
    ASSUME InFlight, NEW c \in Client, NEW d \in Client, CliStep(c)
    PROVE  Flight(d)'
<1>1. Flight(c) /\ Flight(d) /\ Typed
  BY Flights
<1>2. CASE d # c
  <2>1. /\ link'[d] = link[d] /\ uplink'[d] = uplink[d] /\ downlink'[d] = downlink[d]
        /\ unsent'[d] = unsent[d] /\ waiting'[d] = waiting[d] /\ jobs'[d] = jobs[d]
    BY <1>1, <1>2 DEF CliStep, Attempt, Sending, ReceiveAck, ReceiveBroadcast, Connect,
       NoticeDrop, cliVars, Typed, TypeOK, NetType, CliType
  <2> QED BY <1>1, <2>1, SameFlight
<1>3. CASE d = c /\ Attempt(c)
  <2>1. /\ uplink' = IF link[c] = "up"
                     THEN [uplink EXCEPT ![c] = Append(@, Outgoing(c))] ELSE uplink
        /\ unsent' = IF link[c] = "down"
                     THEN [unsent EXCEPT ![c] = Append(@, Outgoing(c))] ELSE unsent
        /\ waiting' = [waiting EXCEPT ![c] = TRUE]
        /\ jobs[c] # <<>> /\ ~waiting[c] /\ UNCHANGED <<jobs, link, downlink>>
    BY <1>3 DEF Attempt, Sending
  <2>2. uplink[c] = <<>> /\ unsent[c] = <<>> /\ NoAck(downlink[c])
    BY <1>1, <2>1 DEF Flight
  <2>3. waiting'[c]
    BY <1>1, <2>1 DEF Typed, TypeOK, CliType
  <2>4. /\ uplink'[c] = IF link[c] = "up" THEN Append(uplink[c], Outgoing(c)) ELSE uplink[c]
        /\ unsent'[c] = IF link[c] = "down" THEN Append(unsent[c], Outgoing(c))
                        ELSE unsent[c]
    BY <1>1, <2>1 DEF Typed, TypeOK, NetType
  <2>5. Len(Append(<<>>, Outgoing(c))) = 1
    OBVIOUS
  <2> QED BY <1>1, <1>3, <2>1, <2>2, <2>3, <2>4, <2>5 DEF Flight
<1>4. CASE d = c /\ ReceiveAck(c)
  <2>1. /\ downlink[c] # <<>> /\ Head(downlink[c]).kind # "broadcast"
        /\ downlink' = [downlink EXCEPT ![c] = Tail(@)]
        /\ waiting' = [waiting EXCEPT ![c] = FALSE]
        /\ UNCHANGED <<link, unsent, uplink>>
    BY <1>4 DEF ReceiveAck
  <2>2. downlink[c] \in Seq(Reply) /\ downlink'[c] = Tail(downlink[c]) /\ ~waiting'[c]
    BY <1>1, <2>1 DEF Typed, TypeOK, NetType, CliType
  <2>3. NoAck(downlink'[c]) /\ OneAck(downlink'[c])
    BY <1>1, <2>1, <2>2, AckTaken DEF Flight
  <2>4. ~NoAck(downlink[c])
    BY <2>1, <2>2 DEF NoAck
  <2>5. uplink[c] = <<>> /\ link[c] = "up"
    BY <1>1, <2>1, <2>4 DEF Flight, Typed, TypeOK, NetType
  <2>6. unsent[c] = <<>>
    BY <1>1, <2>5 DEF Flight
  <2> QED BY <1>4, <2>1, <2>2, <2>3, <2>5, <2>6 DEF Flight
<1>5. CASE d = c /\ ReceiveBroadcast(c)
  <2>1. /\ downlink[c] # <<>> /\ downlink' = [downlink EXCEPT ![c] = Tail(@)]
        /\ UNCHANGED <<link, unsent, uplink, waiting, jobs>>
    BY <1>5 DEF ReceiveBroadcast
  <2>2. downlink[c] \in Seq(Reply) /\ downlink'[c] = Tail(downlink[c])
    BY <1>1, <2>1 DEF Typed, TypeOK, NetType
  <2>3. /\ NoAck(downlink[c]) => NoAck(downlink'[c])
        /\ OneAck(downlink'[c])
    BY <1>1, <2>1, <2>2, AckTaken DEF Flight
  <2> QED BY <1>1, <1>5, <2>1, <2>3 DEF Flight
<1>6. CASE d = c /\ Connect(c)
  <2>1. /\ link[c] = "down" /\ link'[c] = "up" /\ uplink'[c] = unsent[c]
        /\ unsent'[c] = <<>> /\ UNCHANGED <<downlink, waiting, jobs>>
    BY <1>1, <1>6 DEF Connect, cliVars, Typed, TypeOK, NetType
  <2>2. downlink[c] = <<>> /\ NoAck(downlink[c])
    BY <1>1, <2>1, EmptyLines DEF Flight
  <2> QED BY <1>1, <1>6, <2>1, <2>2 DEF Flight
<1>7. CASE d = c /\ NoticeDrop(c)
  <2>1. /\ link[c] = "dead" /\ link'[c] = "down" /\ ~waiting'[c]
        /\ UNCHANGED <<downlink, uplink, unsent, jobs>>
    BY <1>1, <1>7 DEF NoticeDrop, Typed, TypeOK, NetType, CliType
  <2> QED BY <1>1, <1>7, <2>1, EmptyLines DEF Flight
<1> QED BY <1>2, <1>3, <1>4, <1>5, <1>6, <1>7 DEF CliStep

LEMMA RestartFlight ==
    ASSUME InFlight, NEW c \in Client, NEW d \in Client, Restart(c)
    PROVE  Flight(d)'
<1>1. Flight(c) /\ Flight(d) /\ Typed
  BY Flights
<1>2. CASE d # c
  <2>1. /\ link'[d] = link[d] /\ uplink'[d] = uplink[d] /\ downlink'[d] = downlink[d]
        /\ unsent'[d] = unsent[d] /\ waiting'[d] = waiting[d] /\ jobs'[d] = jobs[d]
    BY <1>1, <1>2 DEF Restart, Typed, TypeOK, NetType, CliType
  <2> QED BY <1>1, <2>1, SameFlight
<1>3. CASE d = c
  <2>1. /\ link'[c] = "down" /\ uplink'[c] = <<>> /\ downlink'[c] = <<>>
        /\ unsent'[c] = <<>> /\ ~waiting'[c]
    BY <1>1 DEF Restart, Typed, TypeOK, NetType, CliType
  <2> QED BY <1>3, <2>1, EmptyLines DEF Flight
<1> QED BY <1>2, <1>3

LEMMA StepInFlight ==
    ASSUME InFlight, [Next]_vars
    PROVE  InFlight'
<1> SUFFICES ASSUME NEW d \in Client PROVE Flight(d)'
  BY StepTyped, Flights
<1>0. Flight(d) /\ Typed
  BY Flights
<1>1. CASE UNCHANGED vars
  <2>1. UNCHANGED <<link, uplink, downlink, unsent, waiting, jobs>>
    BY <1>1 DEF vars, cliVars, netVars
  <2> QED BY <1>0, <2>1, SameFlight
<1>2. ASSUME NEW c \in Client, NEW u \in CliUpdate, Update(c, u)
      PROVE  Flight(d)'
  <2>1. UNCHANGED <<link, uplink, downlink, unsent, waiting>>
    BY <1>2 DEF Update, netVars
  <2>2. jobs[d] # <<>> => jobs'[d] # <<>>
    BY <1>0, <1>2 DEF Update, Typed, TypeOK, CliType
  <2> QED BY <1>0, <2>1, <2>2 DEF Flight
<1>3. ASSUME NEW c \in Client, HubUpdates(c)
      PROVE  Flight(d)'
  <2>1. PICK reply \in Reply, told \in BOOLEAN : Answer(c, reply, told)
    <3>1. Head(uplink[c]) \in Request /\ Decide(Head(uplink[c]), c)
      BY <1>0, <1>3, FirstRequest DEF HubUpdates
    <3> QED BY <1>0, <3>1, DecideAnswers
  <2>2. /\ uplink[c] # <<>> /\ uplink' = [uplink EXCEPT ![c] = Tail(@)]
        /\ UNCHANGED <<link, unsent, waiting, jobs>>
    BY <1>3 DEF HubUpdates, cliVars
  <2> QED BY <2>1, <2>2, AnsweredFlight
<1>4. ASSUME NEW request \in late, HubUpdatesLate(request)
      PROVE  Flight(d)'
  <2>1. request \in Request /\ Decide(request, "nobody")
    BY <1>0, <1>4 DEF HubUpdatesLate, Typed, TypeOK, NetType
  <2>2. PICK reply \in Reply, told \in BOOLEAN : Answer("nobody", reply, told)
    BY <1>0, <2>1, DecideAnswers
  <2>3. UNCHANGED <<link, unsent, waiting, jobs, uplink>>
    BY <1>4 DEF HubUpdatesLate, cliVars
  <2>4. d # "nobody"
    BY MetadataAssumption
  <2>5. /\ link[d] # "up" => downlink'[d] = downlink[d]
        /\ NoAck(downlink[d]) => NoAck(downlink'[d])
        /\ OneAck(downlink[d]) => OneAck(downlink'[d])
    BY <1>0, <2>2, <2>4, AnswerFlight
  <2> QED BY <1>0, <2>3, <2>5 DEF Flight
<1>5. ASSUME NEW c \in Client, HubFails(c)
      PROVE  Flight(d)'
  <2> DEFINE reply == [kind |-> "error", version |-> 0, value |-> NoValue]
  <2>1. reply \in Reply
    BY NoValueType DEF Reply
  <2>2. /\ Answer(c, reply, FALSE) /\ uplink[c] # <<>>
        /\ uplink' = [uplink EXCEPT ![c] = Tail(@)]
        /\ UNCHANGED <<link, unsent, waiting, jobs>>
    BY <1>5 DEF HubFails, cliVars
  <2> HIDE DEF reply
  <2> QED BY <2>1, <2>2, AnsweredFlight
<1>6. ASSUME NEW c \in Client, Drop(c)
      PROVE  Flight(d)'
  <2>1. CASE d = c
    <3>1. /\ link[c] = "up" /\ link'[c] = "dead" /\ uplink'[c] = <<>>
          /\ downlink'[c] = <<>> /\ UNCHANGED <<unsent, waiting, jobs>>
      BY <1>0, <1>6 DEF Drop, cliVars, Typed, TypeOK, NetType
    <3> QED BY <1>0, <2>1, <3>1, EmptyLines DEF Flight
  <2>2. CASE d # c
    <3>1. /\ link'[d] = link[d] /\ uplink'[d] = uplink[d] /\ downlink'[d] = downlink[d]
          /\ unsent'[d] = unsent[d] /\ waiting'[d] = waiting[d] /\ jobs'[d] = jobs[d]
      BY <1>0, <1>6, <2>2 DEF Drop, cliVars, Typed, TypeOK, NetType
    <3> QED BY <1>0, <3>1, SameFlight
  <2> QED BY <2>1, <2>2
<1>7. ASSUME NEW c \in Client, Restart(c)
      PROVE  Flight(d)'
  BY <1>7, RestartFlight
<1>8. ASSUME Claim \/ Unclaim \/ ArchiveFromHub \/ Reopen
                \/ Rename("first") \/ \E m \in {"plain", "odd"} : Prefer(m)
      PROVE  Flight(d)'
  <2>1. UNCHANGED <<link, uplink, downlink, unsent, waiting, jobs>>
    BY <1>8 DEF Rename, Prefer, Claim, Unclaim, ArchiveFromHub, Reopen, HubWrites, cliVars, netVars
  <2> QED BY <1>0, <2>1, SameFlight
<1> QED BY <1>1, <1>2, <1>3, <1>4, <1>5, <1>6, <1>7, <1>8, CliStepFlight DEF Next

\* The inductive invariant of the two theorems below.
THEOREM Spec_InFlight == Spec => []InFlight
<1>1. Init => InFlight
  BY InitFlight
<1>2. InFlight /\ [Next]_vars => InFlight'
  BY StepInFlight
<1> QED BY <1>1, <1>2, PTL DEF Spec

\* Every variable keeps its type, whatever is lost, restarted or refused.
THEOREM WellTyped == Spec => []TypeOK
<1>1. InFlight => TypeOK
  BY DEF InFlight, Typed
<1> QED BY <1>1, Spec_InFlight, PTL

\* The lock and emitWithAck keep one update of a process in flight, so that an
\* ack always answers the job that holds the lock.
THEOREM OneUpdateInFlight == Spec => []OneInFlight
<1>1. InFlight => OneInFlight
  BY DEF InFlight
<1> QED BY <1>1, Spec_InFlight, PTL

-----------------------------------------------------------------------------
(* Coherence.  What travels names a version and agrees with the value that *)
(* was committed there: replies carry it, requests were computed from it.  *)
(* The log only grows, so this stays true however long they travel.        *)

TrueAt(reply, l) ==
    reply.kind # "error" =>
        reply.version \in DOMAIN l /\ reply.value = l[reply.version].value
ReadIn(c, k, l) == IF k = 0 THEN NoValue ELSE Parsed(c, l[k].value)
SoundAt(request, l) ==
    /\ request.version \in DOMAIN l /\ request.basis \in DOMAIN l \cup {0}
    /\ request.next = Handler(request.update, ReadIn(request.by, request.basis, l))
    /\ request.basis # request.version =>
           ~Parses(request.by, l[request.version].value)

AllTrue(line, l) == \A k \in DOMAIN line : TrueAt(line[k], l)
AllSound(line, l) == \A k \in DOMAIN line : SoundAt(line[k], l)

RepliesTrue == \A c \in Client : AllTrue(downlink[c], log)
RequestsSound ==
    /\ \A c \in Client : AllSound(unsent[c], log) /\ AllSound(uplink[c], log)
    /\ \A request \in late : SoundAt(request, log)

\* The same of a commit as the log l has it.
RightfulIn(w, prior, f, l) ==
    \/ w.value[f] = prior[f]
    \/ f \in Touches(w.update)
    \/ /\ w.by \in Client
       /\ f \in Carried => w.value[f] # Missing
       /\ \/ Rebuilt(w, f)
          \/ Stripped(w, f)
          \/ ~Parses(w.by, prior) /\ w.value[f] = ReadIn(w.by, w.basis, l)[f]
OwnIn(l) ==
    \A k \in DOMAIN l \ {1} : \A f \in Field : RightfulIn(l[k], l[k - 1].value, f, l)

\* What a commit was computed from is older than the commit.
BasesKnown == \A k \in DOMAIN log : log[k].basis \in DOMAIN log \cup {0}

OwnFields == OnlyOwnFields /\ BasesKnown

Coherent == InFlight /\ CacheIsHistory /\ RepliesTrue /\ RequestsSound /\ OwnFields

Grows == \A k \in DOMAIN log : k \in DOMAIN log' /\ log'[k] = log[k]

LEMMA GrowsKeeps ==
    ASSUME Grows
    PROVE  /\ \A reply : TrueAt(reply, log) => TrueAt(reply, log')
           /\ \A request : SoundAt(request, log) => SoundAt(request, log')
           /\ \A line : AllTrue(line, log) => AllTrue(line, log')
           /\ \A line : AllSound(line, log) => AllSound(line, log')
<1>1. \A reply : TrueAt(reply, log) => TrueAt(reply, log')
  BY DEF Grows, TrueAt
<1>2. \A request : SoundAt(request, log) => SoundAt(request, log')
  <2> SUFFICES ASSUME NEW request, SoundAt(request, log) PROVE SoundAt(request, log')
    OBVIOUS
  <2>1. /\ request.version \in DOMAIN log' /\ request.basis \in DOMAIN log' \cup {0}
        /\ log'[request.version] = log[request.version]
        /\ request.basis # 0 => log'[request.basis] = log[request.basis]
    BY DEF Grows, SoundAt
  <2>2. ReadIn(request.by, request.basis, log') = ReadIn(request.by, request.basis, log)
    BY <2>1 DEF ReadIn
  <2> QED BY <2>1, <2>2 DEF SoundAt
<1>3. \A line : AllTrue(line, log) => AllTrue(line, log')
  BY <1>1 DEF AllTrue
<1>4. \A line : AllSound(line, log) => AllSound(line, log')
  BY <1>2 DEF AllSound
<1> QED BY <1>1, <1>2, <1>3, <1>4

LEMMA Lines ==
    ASSUME NEW S, NEW line \in Seq(S), NEW l
    PROVE  /\ \A x \in S : /\ AllTrue(line, l) /\ TrueAt(x, l) => AllTrue(Append(line, x), l)
                           /\ AllSound(line, l) /\ SoundAt(x, l)
                                => AllSound(Append(line, x), l)
           /\ line # <<>> => /\ AllTrue(line, l) => AllTrue(Tail(line), l)
                             /\ AllSound(line, l) => AllSound(Tail(line), l)
                             /\ AllTrue(line, l) => TrueAt(Head(line), l)
                             /\ AllSound(line, l) => SoundAt(Head(line), l)
           /\ AllTrue(<<>>, l) /\ AllSound(<<>>, l)
<1>1. ASSUME NEW x \in S
      PROVE  /\ AllTrue(line, l) /\ TrueAt(x, l) => AllTrue(Append(line, x), l)
             /\ AllSound(line, l) /\ SoundAt(x, l) => AllSound(Append(line, x), l)
  <2>1. /\ DOMAIN Append(line, x) = DOMAIN line \cup {Len(line) + 1}
        /\ Append(line, x)[Len(line) + 1] = x
        /\ \A k \in DOMAIN line : Append(line, x)[k] = line[k]
    BY Appended
  <2> QED BY <2>1 DEF AllTrue, AllSound
<1>2. ASSUME line # <<>>
      PROVE  /\ AllTrue(line, l) => AllTrue(Tail(line), l)
             /\ AllSound(line, l) => AllSound(Tail(line), l)
             /\ AllTrue(line, l) => TrueAt(Head(line), l)
             /\ AllSound(line, l) => SoundAt(Head(line), l)
  <2>1. \A k \in DOMAIN Tail(line) : k + 1 \in DOMAIN line /\ Tail(line)[k] = line[k + 1]
    BY <1>2
  <2>2. 1 \in DOMAIN line /\ Head(line) = line[1]
    BY <1>2
  <2> QED BY <2>1, <2>2 DEF AllTrue, AllSound
<1>3. AllTrue(<<>>, l) /\ AllSound(<<>>, l)
  BY DEF AllTrue, AllSound
<1> QED BY <1>1, <1>2, <1>3

\* An answer that is true at the new log keeps every line true.
LEMMA AnswerTrue ==
    ASSUME Typed, RepliesTrue, Grows, NEW c, NEW reply \in Reply, NEW told \in BOOLEAN,
           Answer(c, reply, told), TrueAt(reply, log'), told => reply.kind # "error"
    PROVE  RepliesTrue'
<1> SUFFICES ASSUME NEW d \in Client PROVE AllTrue(downlink'[d], log')
  BY DEF RepliesTrue
<1> DEFINE note == [reply EXCEPT !.kind = "broadcast"]
<1>1. note \in Reply /\ (told => TrueAt(note, log'))
  BY DEF Reply, TrueAt
<1>2. downlink[d] \in Seq(Reply) /\ AllTrue(downlink[d], log')
  BY GrowsKeeps DEF Typed, TypeOK, NetType, RepliesTrue
<1>3. downlink'[d] = IF link[d] # "up" THEN downlink[d]
                     ELSE IF d = c THEN Append(downlink[d], reply)
                     ELSE IF told THEN Append(downlink[d], note) ELSE downlink[d]
  BY DEF Answer
<1> HIDE DEF note
<1> QED BY <1>1, <1>2, <1>3, Lines

LEMMA SameKeeps ==
    ASSUME Grows
    PROVE  /\ CacheIsHistory /\ UNCHANGED cache => CacheIsHistory'
           /\ RepliesTrue /\ UNCHANGED downlink => RepliesTrue'
           /\ RequestsSound /\ UNCHANGED <<unsent, uplink, late>> => RequestsSound'
<1>1. CacheIsHistory /\ UNCHANGED cache => CacheIsHistory'
  BY DEF Grows, CacheIsHistory, Reading
<1>2. RepliesTrue /\ UNCHANGED downlink => RepliesTrue'
  BY GrowsKeeps DEF RepliesTrue
<1>3. RequestsSound /\ UNCHANGED <<unsent, uplink, late>> => RequestsSound'
  BY GrowsKeeps DEF RequestsSound
<1> QED BY <1>1, <1>2, <1>3

LEMMA GrowsByOne ==
    ASSUME Typed, log' = log \/ \E x \in Commit : log' = Append(log, x)
    PROVE  Grows
BY Appended DEF Typed, TypeOK, HubType, Grows

LEMMA OwnInLog ==
    /\ OnlyOwnFields <=> OwnIn(log)
    /\ OnlyOwnFields' <=> OwnIn(log')
<1>1. OnlyOwnFields <=> OwnIn(log)
  BY DEF OnlyOwnFields, OwnIn, Rightful, RightfulIn, Reverted, Reading, ReadIn
<1>2. OnlyOwnFields' <=> OwnIn(log')
  BY DEF OnlyOwnFields, OwnIn, Rightful, RightfulIn, Reverted, Reading, ReadIn
<1> QED BY <1>1, <1>2

\* One more commit that changes what it is about and nothing else.
LEMMA AppendKeepsOwn ==
    ASSUME Typed, OwnFields, NEW x \in Commit, log' = Append(log, x),
           x.basis \in DOMAIN log \cup {0},
           \A f \in Field : Rightful(x, Row, f)
    PROVE  OwnFields'
<1>1. /\ Len(log) \in Nat /\ DOMAIN log = 1..Len(log)
      /\ DOMAIN log' = DOMAIN log \cup {Len(log) + 1}
      /\ log'[Len(log) + 1] = x /\ \A k \in DOMAIN log : log'[k] = log[k]
  BY Appended, LastElement DEF Typed, TypeOK, HubType
<1>2. Len(log) \in DOMAIN log /\ Row = log[Len(log)].value
  BY LastElement DEF Typed, TypeOK, HubType, Row
<1>3. BasesKnown'
  <2>1. \A k \in DOMAIN log' : log'[k].basis \in DOMAIN log \cup {0}
    BY <1>1 DEF OwnFields, BasesKnown
  <2> QED BY <1>1, <2>1 DEF BasesKnown
<1>4. ASSUME NEW w, w.basis \in DOMAIN log \cup {0}, NEW prior, NEW f,
             RightfulIn(w, prior, f, log)
      PROVE  RightfulIn(w, prior, f, log')
  <2>1. w.basis # 0 => log'[w.basis] = log[w.basis]
    BY <1>1, <1>4
  <2>2. ReadIn(w.by, w.basis, log') = ReadIn(w.by, w.basis, log)
    BY <2>1 DEF ReadIn
  <2> QED BY <1>4, <2>2 DEF RightfulIn
<1>5. ASSUME NEW k \in DOMAIN log', k # 1, NEW f \in Field
      PROVE  RightfulIn(log'[k], log'[k - 1].value, f, log')
  <2>1. CASE k \in DOMAIN log
    <3>1. k - 1 \in DOMAIN log
      BY <1>1, <1>5, <2>1
    <3>2. RightfulIn(log[k], log[k - 1].value, f, log) /\ log[k].basis \in DOMAIN log \cup {0}
      BY <1>5, <2>1, OwnInLog DEF OwnFields, OwnIn, BasesKnown
    <3>3. RightfulIn(log[k], log[k - 1].value, f, log')
      BY <1>4, <3>2
    <3> QED BY <1>1, <2>1, <3>1, <3>3
  <2>2. CASE k = Len(log) + 1
    <3>1. log'[k] = x /\ log'[k - 1].value = Row
      BY <1>1, <1>2, <2>2
    <3>2. RightfulIn(x, Row, f, log)
      BY DEF Rightful, RightfulIn, Reverted, Reading, ReadIn
    <3>3. RightfulIn(x, Row, f, log')
      BY <1>4, <3>2
    <3> QED BY <3>1, <3>3
  <2> QED BY <1>1, <2>1, <2>2
<1>6. OnlyOwnFields'
  BY <1>5, OwnInLog DEF OwnIn
<1> QED BY <1>3, <1>6 DEF OwnFields

\* A request that was computed from what its process read changes, at its
\* version, no field that is not its own.
LEMMA RequestRightful ==
    ASSUME Typed, NEW r \in Request, SoundAt(r, log), r.version = Version,
           NEW w, w.value = Merge(Row, r.next), w.by = r.by, w.update = r.update,
           w.basis = r.basis, NEW f \in Field
    PROVE  Rightful(w, Row, f)
<1> DEFINE base == Reading(r.by, r.basis)
<1>1. Row \in Value /\ r.by \in Client /\ r.update \in CliUpdate
  BY RowType DEF Request
<1>2. base \in Value
  <2>1. ASSUME r.basis # 0
        PROVE  log[r.basis].value \in Value
    <3>1. r.basis \in DOMAIN log /\ log \in Seq(Commit)
      BY <2>1 DEF SoundAt, Typed, TypeOK, HubType
    <3>2. log[r.basis] \in Commit
      BY <3>1
    <3> QED BY <3>2 DEF Commit
  <2> QED BY <2>1, NoValueType, ParsedType DEF Reading
<1>3. r.next = Handler(r.update, base)
  BY DEF SoundAt, ReadIn, Reading
<1>4. r.basis = Version => base[f] = Row[f] \/ (f \in Unknown[r.by] /\ base[f] = Missing)
  BY RowType DEF Reading, Parsed, Row, Version, Typed
<1>5. r.basis # Version => ~Parses(r.by, Row)
  BY DEF SoundAt, Row, Version
<1>6. Reading(w.by, w.basis) = base
  OBVIOUS
<1> HIDE DEF base
<1>7. \/ w.value[f] = Row[f]
      \/ f \in Touches(r.update)
      \/ r.update = "attach" /\ f = "mode" /\ w.value[f] = Missing
      \/ w.value[f] = base[f] /\ (f \in Carried => base[f] # Missing)
  BY <1>1, <1>2, <1>3, MergeKeeps
<1>8. "mode" \notin Carried
  BY DEF Carried
<1> QED BY <1>1, <1>4, <1>5, <1>6, <1>7, <1>8 DEF Rightful, Rebuilt, Stripped, Reverted

LEMMA SameLog ==
    ASSUME log' = log
    PROVE  /\ OwnFields => OwnFields'
           /\ CacheIsHistory /\ cache' = cache => CacheIsHistory'
<1>1. OwnFields => OwnFields'
  BY DEF OwnFields, OnlyOwnFields, BasesKnown, Rightful, Reverted, Reading
<1>2. CacheIsHistory /\ cache' = cache => CacheIsHistory'
  BY DEF CacheIsHistory, Reading
<1> QED BY <1>1, <1>2

\* update-metadata: the commit, the ack and the broadcasts.
LEMMA DecideCoherent ==
    ASSUME Coherent, NEW c, NEW request \in Request, SoundAt(request, log),
           Decide(request, c)
    PROVE  Grows /\ RepliesTrue' /\ OwnFields'
<1> DEFINE merged == Merge(Row, request.next)
           x == [value |-> merged, by |-> request.by, update |-> request.update,
                 call |-> request.call, basis |-> request.basis]
           yes == [kind |-> "success", version |-> Version + 1, value |-> merged]
           no == [kind |-> "mismatch", version |-> Version, value |-> Row]
<1>1. Typed /\ RepliesTrue /\ OwnFields
  BY DEF Coherent, InFlight
<1>2. Row \in Value /\ Version \in Nat /\ Version \in DOMAIN log /\ merged \in Value
  BY <1>1, RowType, MergeType DEF Request
<1>3. x \in Commit /\ yes \in Reply /\ no \in Reply
  BY <1>2 DEF Request, Commit, Reply
<1>4. CASE AtVersion(request)
  <2>1. log' = Append(log, x) /\ Answer(c, yes, TRUE)
    BY <1>4 DEF Decide
  <2>2. x.basis \in DOMAIN log \cup {0}
    BY DEF SoundAt
  <2>3. \A f \in Field : Rightful(x, Row, f)
    <3>1. /\ x.value = Merge(Row, request.next) /\ x.by = request.by
          /\ x.update = request.update /\ x.basis = request.basis
      OBVIOUS
    <3>2. request.version = Version
      BY <1>4 DEF AtVersion
    <3> HIDE DEF x
    <3> QED BY <1>1, <3>1, <3>2, RequestRightful
  <2>5. x.value = merged
    OBVIOUS
  <2>6. yes.version = Len(log) + 1 /\ yes.value = merged /\ yes.kind = "success"
    BY DEF Version
  <2> HIDE DEF x, yes, merged
  <2>7. Grows
    BY <1>1, <1>3, <2>1, GrowsByOne
  <2>8. OwnFields'
    BY <1>1, <1>3, <2>1, <2>2, <2>3, AppendKeepsOwn
  <2>9. TrueAt(yes, log')
    <3>1. Len(log) + 1 \in DOMAIN log' /\ log'[Len(log) + 1] = x
      BY <1>1, <1>3, <2>1, Appended DEF Typed, TypeOK, HubType
    <3> QED BY <2>5, <2>6, <3>1 DEF TrueAt
  <2> QED BY <1>1, <1>3, <2>1, <2>6, <2>7, <2>8, <2>9, AnswerTrue
<1>5. CASE ~AtVersion(request)
  <2>1. log' = log /\ Answer(c, no, FALSE)
    BY <1>5 DEF Decide
  <2>2. TrueAt(no, log')
    BY <1>2, <2>1 DEF TrueAt, Row, Version
  <2> HIDE DEF no
  <2>3. Grows
    BY <1>1, <2>1, GrowsByOne
  <2>4. OwnFields'
    BY <1>1, <2>1, SameLog
  <2> QED BY <1>1, <1>3, <2>1, <2>2, <2>3, <2>4, AnswerTrue
<1> QED BY <1>4, <1>5

LEMMA HubWritesCoherent ==
    ASSUME Coherent, NEW u \in HubUpdate,
           NEW g \in Touches(u), NEW y \in Content, HubWrites(u, [Row EXCEPT ![g] = y])
    PROVE  Coherent'
<1>1. Typed /\ InFlight /\ OwnFields
  BY DEF Coherent, InFlight
<1>2. Row \in Value /\ [Row EXCEPT ![g] = y] \in Payload /\ g \in Field
  BY <1>1, RowType, ValuesArePayloads DEF Touches
<1> DEFINE merged == Merge(Row, [Row EXCEPT ![g] = y])
           x == [value |-> merged, by |-> "hub", update |-> u, call |-> 0, basis |-> Version]
<1>3. merged \in Value
  BY <1>2, MergeType
<1>4. \A f \in Field : f # g => merged[f] = Row[f]
  BY <1>2 DEF Merge, Value, Content, Null, Missing
<1>5. /\ x \in Commit /\ log' = Append(log, x) /\ x.value = merged /\ x.update = u
      /\ x.basis \in DOMAIN log
  BY <1>1, <1>3, RowType DEF Commit, HubWrites
<1>6. UNCHANGED <<cache, unsent, uplink, late, downlink>>
  BY DEF HubWrites, cliVars, netVars
<1>7. InFlight'
  <2>1. Typed'
    BY <1>1, <1>2, HubWritesType
  <2>2. UNCHANGED <<link, unsent, uplink, downlink, waiting, jobs>>
    BY DEF HubWrites, cliVars, netVars
  <2> QED BY <1>1, <2>1, <2>2 DEF InFlight, DeadLinksAreEmpty, OneInFlight
<1> HIDE DEF x, merged
<1>8. Grows
  BY <1>1, <1>5, GrowsByOne
<1>9. OwnFields'
  <2>1. \A f \in Field : Rightful(x, Row, f)
    BY <1>4, <1>5 DEF Rightful
  <2> QED BY <1>1, <1>5, <2>1, AppendKeepsOwn
<1>10. CacheIsHistory' /\ RepliesTrue' /\ RequestsSound'
  BY <1>6, <1>8, SameKeeps DEF Coherent
<1> QED BY <1>7, <1>9, <1>10 DEF Coherent

\* A cache that is told the value of a commit follows the log.
LEMMA ToldHistory ==
    ASSUME Typed, CacheIsHistory, log' = log, NEW c \in Client, NEW k \in DOMAIN log,
           NEW known, known.value = Reading(c, known.basis),
           known.basis \in DOMAIN log \cup {0},
           cache' = [cache EXCEPT ![c] = Told(c, known, log[k].value, k)]
    PROVE  CacheIsHistory'
<1> DEFINE told == Told(c, known, log[k].value, k)
<1>1. /\ told.version = k /\ told.basis \in DOMAIN log \cup {0}
      /\ told.value = Reading(c, told.basis)
      /\ told.basis # told.version => ~Parses(c, log[k].value)
  <2>1. CASE Parses(c, log[k].value)
    <3>1. told = [value |-> Parsed(c, log[k].value), version |-> k, basis |-> k]
      BY <2>1 DEF Told
    <3>2. k # 0
      BY LastElement DEF Typed, TypeOK, HubType
    <3> QED BY <3>1, <3>2 DEF Reading
  <2>2. CASE ~Parses(c, log[k].value)
    <3>1. told = [value |-> known.value, version |-> k, basis |-> known.basis]
      BY <2>2 DEF Told
    <3> QED BY <2>2, <3>1
  <2> QED BY <2>1, <2>2
<1>2. \A d \in Client : cache'[d] = IF d = c THEN told ELSE cache[d]
  BY DEF Typed, TypeOK, CliType
<1> HIDE DEF told
<1> QED BY <1>1, <1>2 DEF CacheIsHistory, Reading

LEMMA CliStepCoherent ==
    ASSUME Coherent, NEW c \in Client, CliStep(c)
    PROVE  CacheIsHistory' /\ RepliesTrue' /\ RequestsSound' /\ OwnFields'
<1>1. Typed /\ CacheIsHistory /\ RepliesTrue /\ RequestsSound /\ OwnFields
  BY DEF Coherent, InFlight
<1>2. log' = log /\ late' = late
  BY DEF CliStep, Attempt, Sending, ReceiveAck, ReceiveBroadcast, Connect, NoticeDrop
<1>3. OwnFields'
  BY <1>1, <1>2, SameLog
<1>4. CASE Attempt(c)
  <2>1. jobs[c] # <<>> /\ Sending(c) /\ cache' = cache /\ downlink' = downlink
    BY <1>4 DEF Attempt, Sending
  <2>2. Outgoing(c) \in Request /\ Head(jobs[c]).update \in CliUpdate
    BY <1>1, <2>1, OutgoingType, FirstJob DEF Job
  <2>3. SoundAt(Outgoing(c), log)
    <3>1. /\ Outgoing(c).version = cache[c].version
          /\ Outgoing(c).update = Head(jobs[c]).update /\ Outgoing(c).by = c
          /\ Outgoing(c).next = Handler(Outgoing(c).update, cache[c].value)
          /\ Outgoing(c).basis = cache[c].basis
      BY DEF Outgoing
    <3>2. /\ cache[c].version \in DOMAIN log /\ cache[c].basis \in DOMAIN log \cup {0}
          /\ cache[c].value = ReadIn(c, cache[c].basis, log)
          /\ cache[c].basis # cache[c].version => ~Parses(c, log[cache[c].version].value)
      BY <1>1 DEF CacheIsHistory, Reading, ReadIn
    <3> QED BY <3>1, <3>2 DEF SoundAt
  <2>4. ASSUME NEW d \in Client
        PROVE  /\ uplink'[d] \in {uplink[d], Append(uplink[d], Outgoing(c))}
               /\ unsent'[d] \in {unsent[d], Append(unsent[d], Outgoing(c))}
    BY <1>1, <2>1 DEF Sending, Typed, TypeOK, NetType
  <2>5. RequestsSound'
    <3>1. \A d \in Client : AllSound(uplink'[d], log) /\ AllSound(unsent'[d], log)
      <4> SUFFICES ASSUME NEW d \in Client
                   PROVE  AllSound(uplink'[d], log) /\ AllSound(unsent'[d], log)
        OBVIOUS
      <4>1. /\ uplink[d] \in Seq(Request) /\ unsent[d] \in Seq(Request)
            /\ AllSound(uplink[d], log) /\ AllSound(unsent[d], log)
        BY <1>1 DEF Typed, TypeOK, NetType, RequestsSound
      <4>2. /\ AllSound(Append(uplink[d], Outgoing(c)), log)
            /\ AllSound(Append(unsent[d], Outgoing(c)), log)
        BY <4>1, <2>2, <2>3, Lines
      <4> QED BY <4>1, <4>2, <2>4
    <3> QED BY <1>1, <1>2, <3>1 DEF RequestsSound
  <2> QED BY <1>1, <1>2, <1>3, <2>1, <2>5, SameLog DEF RepliesTrue
<1>5. CASE ReceiveAck(c) \/ ReceiveBroadcast(c)
  <2>1. /\ downlink[c] # <<>> /\ downlink' = [downlink EXCEPT ![c] = Tail(@)]
        /\ unsent' = unsent /\ uplink' = uplink
        /\ cache' = cache \/ (Head(downlink[c]).kind # "error" /\ Learn(c, Head(downlink[c])))
    BY <1>5 DEF ReceiveAck, ReceiveBroadcast
  <2>2. /\ \A d \in Client : downlink[d] \in Seq(Reply) /\ AllTrue(downlink[d], log)
        /\ downlink \in [Client -> Seq(Reply)]
    BY <1>1 DEF Typed, TypeOK, NetType, RepliesTrue
  <2>3. TrueAt(Head(downlink[c]), log) /\ AllTrue(Tail(downlink[c]), log)
    BY <2>1, <2>2, Lines
  <2>4. RepliesTrue'
    BY <1>2, <2>1, <2>2, <2>3 DEF RepliesTrue
  <2>5. CacheIsHistory'
    <3>1. CASE cache' = cache
      BY <1>1, <1>2, <3>1, SameLog
    <3>2. CASE Head(downlink[c]).kind # "error" /\ Learn(c, Head(downlink[c]))
      <4> DEFINE reply == Head(downlink[c])
      <4>1. reply.version \in DOMAIN log /\ reply.value = log[reply.version].value
        BY <2>3, <3>2 DEF TrueAt
      <4>2. cache' = [cache EXCEPT ![c] = Told(c, cache[c], reply.value, reply.version)]
        BY <1>1, <3>2 DEF Learn, Typed, TypeOK, CliType
      <4>3. cache' = [cache EXCEPT ![c] =
                          Told(c, cache[c], log[reply.version].value, reply.version)]
        BY <4>1, <4>2
      <4>4. /\ cache[c].value = Reading(c, cache[c].basis)
            /\ cache[c].basis \in DOMAIN log \cup {0}
        BY <1>1 DEF CacheIsHistory
      <4> HIDE DEF reply
      <4> QED BY <1>1, <1>2, <4>1, <4>3, <4>4, ToldHistory
    <3> QED BY <2>1, <3>1, <3>2
  <2>6. RequestsSound'
    BY <1>1, <1>2, <2>1 DEF RequestsSound
  <2> QED BY <1>3, <2>4, <2>5, <2>6
<1>6. CASE Connect(c)
  <2>1. /\ cache' = cache /\ downlink' = downlink
        /\ \A d \in Client : uplink'[d] \in {uplink[d], unsent[d]}
        /\ \A d \in Client : unsent'[d] \in {unsent[d], <<>>}
    BY <1>1, <1>6 DEF Connect, cliVars, Typed, TypeOK, NetType
  <2>2. AllSound(<<>>, log)
    BY DEF AllSound
  <2> QED BY <1>1, <1>2, <1>3, <2>1, <2>2, SameLog DEF RepliesTrue, RequestsSound
<1>7. CASE NoticeDrop(c)
  <2>1. UNCHANGED <<cache, downlink, uplink, unsent>>
    BY <1>7 DEF NoticeDrop
  <2> QED BY <1>1, <1>2, <1>3, <2>1, SameLog DEF RepliesTrue, RequestsSound
<1> QED BY <1>4, <1>5, <1>6, <1>7 DEF CliStep

LEMMA OrphanedSound ==
    ASSUME Typed, RequestsSound, NEW c \in Client, NEW left \in Orphaned(c)
    PROVE  \A request \in left : SoundAt(request, log)
BY DEF Orphaned, RequestsSound, AllSound

LEMMA RestartCoherent ==
    ASSUME Coherent, NEW c \in Client, Restart(c)
    PROVE  CacheIsHistory' /\ RepliesTrue' /\ RequestsSound' /\ OwnFields'
<1>1. Typed /\ CacheIsHistory /\ RepliesTrue /\ RequestsSound /\ OwnFields
  BY DEF Coherent, InFlight
<1>2. log' = log
  BY DEF Restart
<1>3. OwnFields'
  BY <1>1, <1>2, SameLog
<1>4. CacheIsHistory'
  <2> DEFINE nothing == [value |-> NoValue, version |-> 0, basis |-> 0]
  <2>1. nothing.value = Reading(c, nothing.basis) /\ nothing.basis = 0
    BY DEF Reading
  <2>2. Version \in DOMAIN log /\ Row = log[Version].value
    BY <1>1, RowType DEF Row, Version
  <2>3. cache' = [cache EXCEPT ![c] = Told(c, nothing, log[Version].value, Version)]
    BY <2>2 DEF Restart, Fetched
  <2> HIDE DEF nothing
  <2> QED BY <1>1, <1>2, <2>1, <2>2, <2>3, ToldHistory
<1>5. \A d \in Client : /\ uplink'[d] \in {uplink[d], <<>>}
                        /\ unsent'[d] \in {unsent[d], <<>>}
                        /\ downlink'[d] \in {downlink[d], <<>>}
  BY <1>1 DEF Restart, Typed, TypeOK, NetType
<1>6. AllSound(<<>>, log) /\ AllTrue(<<>>, log)
  BY DEF AllSound, AllTrue
<1>7. \A request \in late' : SoundAt(request, log)
  BY <1>1, OrphanedSound DEF Restart, RequestsSound
<1> QED BY <1>1, <1>2, <1>3, <1>4, <1>5, <1>6, <1>7 DEF RepliesTrue, RequestsSound

LEMMA InitCoherent == Init => Coherent
<1> SUFFICES ASSUME Init PROVE Coherent
  OBVIOUS
<1>1. /\ Len(log) = 1 /\ DOMAIN log = {1} /\ log[1] = Creation
      /\ Creation.value = FirstValue /\ Creation.basis = 0
  <2>1. log = <<Creation>>
    BY DEF Init
  <2>2. Creation.value = FirstValue /\ Creation.basis = 0
    BY DEF Creation
  <2> HIDE DEF Creation
  <2> QED BY <2>1, <2>2
<1> HIDE DEF Creation
<1>2. CacheIsHistory
  <2>1. \A c \in Client : cache[c] =
            IF Parses(c, FirstValue)
            THEN [value |-> Parsed(c, FirstValue), version |-> 1, basis |-> 1]
            ELSE [value |-> NoValue, version |-> 1, basis |-> 0]
    BY DEF Init, Fetched, Told
  <2> SUFFICES ASSUME NEW c \in Client
               PROVE  /\ cache[c].version = 1 /\ cache[c].basis \in {0, 1}
                      /\ cache[c].value = Reading(c, cache[c].basis)
                      /\ cache[c].basis # 1 => ~Parses(c, FirstValue)
    BY <1>1 DEF CacheIsHistory
  <2>2. CASE Parses(c, FirstValue)
    <3>1. cache[c] = [value |-> Parsed(c, FirstValue), version |-> 1, basis |-> 1]
      BY <2>1, <2>2
    <3>2. Reading(c, 1) = Parsed(c, FirstValue)
      BY <1>1 DEF Reading
    <3> QED BY <3>1, <3>2
  <2>3. CASE ~Parses(c, FirstValue)
    <3>1. cache[c] = [value |-> NoValue, version |-> 1, basis |-> 0]
      BY <2>1, <2>3
    <3>2. Reading(c, 0) = NoValue
      BY DEF Reading
    <3> QED BY <2>3, <3>1, <3>2
  <2> QED BY <2>2, <2>3
<1>3. RepliesTrue /\ RequestsSound
  BY DEF Init, RepliesTrue, RequestsSound, AllTrue, AllSound
<1>4. OwnFields
  BY <1>1 DEF OwnFields, OnlyOwnFields, BasesKnown
<1> QED BY <1>2, <1>3, <1>4, InitFlight DEF Coherent

LEMMA StepCoherent ==
    ASSUME Coherent, [Next]_vars
    PROVE  Coherent'
<1>1. /\ InFlight /\ Typed /\ CacheIsHistory /\ RepliesTrue /\ RequestsSound
      /\ OwnFields
  BY DEF Coherent, InFlight
<1>2. InFlight'
  BY <1>1, StepInFlight
<1> SUFFICES CacheIsHistory' /\ RepliesTrue' /\ RequestsSound' /\ OwnFields'
  BY <1>2 DEF Coherent
<1>3. ASSUME log' = log, UNCHANGED <<cache, unsent, uplink, late, downlink>>
      PROVE  CacheIsHistory' /\ RepliesTrue' /\ RequestsSound' /\ OwnFields'
  BY <1>1, <1>3, SameLog DEF RepliesTrue, RequestsSound
<1>4. CASE UNCHANGED vars
  BY <1>3, <1>4 DEF vars, cliVars, netVars
<1>5. ASSUME NEW c \in Client, NEW u \in CliUpdate, Update(c, u)
      PROVE  CacheIsHistory' /\ RepliesTrue' /\ RequestsSound' /\ OwnFields'
  BY <1>3, <1>5 DEF Update, netVars
<1>6. ASSUME NEW c \in Client, HubUpdates(c)
      PROVE  CacheIsHistory' /\ RepliesTrue' /\ RequestsSound' /\ OwnFields'
  <2>1. /\ uplink[c] \in Seq(Request) /\ uplink[c] # <<>> /\ AllSound(uplink[c], log)
        /\ Decide(Head(uplink[c]), c) /\ UNCHANGED <<cache, unsent, late>>
        /\ \A d \in Client : uplink'[d] \in {uplink[d], Tail(uplink[c])}
    BY <1>1, <1>6 DEF HubUpdates, cliVars, Typed, TypeOK, NetType, RequestsSound
  <2>2. /\ Head(uplink[c]) \in Request /\ SoundAt(Head(uplink[c]), log)
        /\ AllSound(Tail(uplink[c]), log)
    BY <1>1, <2>1, FirstRequest, Lines
  <2>3. Grows /\ RepliesTrue' /\ OwnFields'
    BY <2>1, <2>2, DecideCoherent
  <2>4. RequestsSound'
    BY <1>1, <2>1, <2>2, <2>3, GrowsKeeps DEF RequestsSound
  <2> QED BY <1>1, <2>1, <2>3, <2>4, SameKeeps
<1>7. ASSUME NEW request \in late, HubUpdatesLate(request)
      PROVE  CacheIsHistory' /\ RepliesTrue' /\ RequestsSound' /\ OwnFields'
  <2>1. /\ Decide(request, "nobody") /\ UNCHANGED <<cache, unsent, uplink>>
        /\ late' \subseteq late /\ request \in Request /\ SoundAt(request, log)
    BY <1>1, <1>7 DEF HubUpdatesLate, cliVars, Typed, TypeOK, NetType, RequestsSound
  <2>2. Grows /\ RepliesTrue' /\ OwnFields'
    BY <2>1, DecideCoherent
  <2>3. RequestsSound'
    BY <1>1, <2>1, <2>2, GrowsKeeps DEF RequestsSound
  <2> QED BY <1>1, <2>1, <2>2, <2>3, SameKeeps
<1>8. ASSUME NEW c \in Client, HubFails(c)
      PROVE  CacheIsHistory' /\ RepliesTrue' /\ RequestsSound' /\ OwnFields'
  <2> DEFINE reply == [kind |-> "error", version |-> 0, value |-> NoValue]
  <2>1. reply \in Reply /\ TrueAt(reply, log')
    BY NoValueType DEF Reply, TrueAt
  <2>2. /\ Answer(c, reply, FALSE) /\ uplink[c] # <<>> /\ log' = log
        /\ UNCHANGED <<cache, unsent, late>>
        /\ uplink[c] \in Seq(Request) /\ AllSound(uplink[c], log)
        /\ \A d \in Client : uplink'[d] \in {uplink[d], Tail(uplink[c])}
    BY <1>1, <1>8 DEF HubFails, cliVars, Typed, TypeOK, NetType, RequestsSound
  <2> HIDE DEF reply
  <2>3. Grows /\ RepliesTrue'
    BY <1>1, <2>1, <2>2, GrowsByOne, AnswerTrue
  <2>4. AllSound(Tail(uplink[c]), log)
    BY <2>2, Lines
  <2>5. RequestsSound'
    BY <1>1, <2>2, <2>4 DEF RequestsSound
  <2> QED BY <1>1, <2>2, <2>3, <2>5, SameKeeps, SameLog
<1>9. ASSUME NEW c \in Client, Drop(c)
      PROVE  CacheIsHistory' /\ RepliesTrue' /\ RequestsSound' /\ OwnFields'
  <2>1. /\ UNCHANGED <<log, cache, unsent>>
        /\ \A d \in Client : /\ uplink'[d] \in {uplink[d], <<>>}
                             /\ downlink'[d] \in {downlink[d], <<>>}
    BY <1>1, <1>9 DEF Drop, cliVars, Typed, TypeOK, NetType
  <2>2. AllSound(<<>>, log) /\ AllTrue(<<>>, log)
    BY DEF AllSound, AllTrue
  <2>3. \A request \in late' : SoundAt(request, log)
    BY <1>1, <1>9, OrphanedSound DEF Drop, RequestsSound
  <2>4. RepliesTrue' /\ RequestsSound'
    BY <1>1, <2>1, <2>2, <2>3 DEF RepliesTrue, RequestsSound
  <2> QED BY <1>1, <2>1, <2>4, SameLog
<1>10. ASSUME NEW c \in Client, Restart(c)
       PROVE  CacheIsHistory' /\ RepliesTrue' /\ RequestsSound' /\ OwnFields'
  BY <1>10, RestartCoherent
<1>11. ASSUME Claim \/ Unclaim \/ ArchiveFromHub \/ Reopen
                 \/ Rename("first") \/ \E m \in {"plain", "odd"} : Prefer(m)
       PROVE  CacheIsHistory' /\ RepliesTrue' /\ RequestsSound' /\ OwnFields'
  <2>1. /\ "name" \in Touches("rename") /\ "owner" \in Touches("claim")
        /\ "owner" \in Touches("unclaim") /\ "life" \in Touches("hubArchive")
        /\ "life" \in Touches("reopen") /\ "mode" \in Touches("prefer")
    BY DEF Touches, Field
  <2>2. PICK u \in HubUpdate,
             g \in Field, y \in Content :
                 g \in Touches(u) /\ HubWrites(u, [Row EXCEPT ![g] = y])
    BY <1>11, <2>1 DEF Rename, Prefer, Claim, Unclaim, ArchiveFromHub, Reopen, HubUpdate, Field,
       Content, Missing
  <2> QED BY <2>2, HubWritesCoherent DEF Coherent
<1> QED BY <1>4, <1>5, <1>6, <1>7, <1>8, <1>9, <1>10, <1>11, CliStepCoherent DEF Next

\* The inductive invariant of the two theorems below.
THEOREM Spec_Coherent == Spec => []Coherent
<1>1. Init => Coherent
  BY InitCoherent
<1>2. Coherent /\ [Next]_vars => Coherent'
  BY StepCoherent
<1> QED BY <1>1, <1>2, PTL DEF Spec

\* The metadata a CLI process works from is what the hub committed at the
\* version it holds, or, only if the process refuses that value, what the hub
\* committed at the last version whose value the process could read.
THEOREM CachesFollowTheLog == Spec => []CacheIsHistory
<1>1. Coherent => CacheIsHistory
  BY DEF Coherent
<1> QED BY <1>1, Spec_Coherent, PTL

\* No update is lost: a commit of the hub or of any CLI process changes only
\* what it is about, except that an attaching process drops `mode`, an older
\* build what it does not know, and a process that refuses the row puts back
\* what it read before; and a carried field survives all of them.
THEOREM NoLostUpdate == Spec => []OnlyOwnFields
<1>1. Coherent => OnlyOwnFields
  BY DEF Coherent, OwnFields
<1> QED BY <1>1, Spec_Coherent, PTL

-----------------------------------------------------------------------------
(* The order of calls.                                                     *)

\* No update that process c still has to settle is older than this call.
Behind(call, c) ==
    /\ call <= calls
    /\ \A i \in DOMAIN jobs[c] : call <= jobs[c][i].call

JobsOrdered ==
    /\ calls <= MaxUpdates
    /\ \A c \in Client : \A i \in DOMAIN jobs[c] : jobs[c][i].call \in 1..calls
    /\ \A c \in Client : \A i, j \in DOMAIN jobs[c] :
           i < j => jobs[c][i].call <= jobs[c][j].call

InTransit ==
    late \cup {r \in Request : \E c \in Client :
                  \/ \E k \in DOMAIN uplink[c] : r = uplink[c][k]
                  \/ \E k \in DOMAIN unsent[c] : r = unsent[c][k]}

\* A request follows every commit of its process that it could know of.
Placed(request) ==
    /\ request.call >= 1
    /\ Behind(request.call, request.by)
    /\ \A k \in DOMAIN log :
           k <= request.version /\ log[k].by = request.by => log[k].call <= request.call

Ordered ==
    /\ JobsOrdered
    /\ \A k \in DOMAIN log : log[k].by \in Client => Behind(log[k].call, log[k].by)
    /\ \A request \in InTransit : Placed(request)
    /\ \A k \in DOMAIN log : log[k].by = "hub" => log[k].call = 0
    /\ CommitsInOrder

Faithful == Coherent /\ Ordered

LEMMA CoherentTypes ==
    ASSUME Coherent
    PROVE  /\ Typed
           /\ log \in Seq(Commit) /\ calls \in Nat
           /\ \A c \in Client : /\ jobs[c] \in Seq(Job)
                                /\ uplink[c] \in Seq(Request) /\ unsent[c] \in Seq(Request)
           /\ late \subseteq Request
           /\ \A c \in Client : \A k \in DOMAIN uplink[c] : uplink[c][k] \in InTransit
           /\ \A c \in Client : \A k \in DOMAIN unsent[c] : unsent[c][k] \in InTransit
           /\ InTransit \subseteq Request
           /\ \A r \in InTransit : SoundAt(r, log)
<1>1. Typed /\ RequestsSound
  BY DEF Coherent, InFlight
<1>2. /\ log \in Seq(Commit) /\ calls \in Nat /\ late \subseteq Request
      /\ \A c \in Client : /\ jobs[c] \in Seq(Job)
                           /\ uplink[c] \in Seq(Request) /\ unsent[c] \in Seq(Request)
  BY <1>1 DEF Typed, TypeOK, HubType, CliType, NetType
<1>3. ASSUME NEW c \in Client
      PROVE  /\ \A k \in DOMAIN uplink[c] : uplink[c][k] \in Request
             /\ \A k \in DOMAIN unsent[c] : unsent[c][k] \in Request
  <2>1. uplink[c] \in Seq(Request)
    BY <1>2
  <2>2. unsent[c] \in Seq(Request)
    BY <1>2
  <2>3. \A k \in DOMAIN uplink[c] : uplink[c][k] \in Request
    BY <2>1
  <2>4. \A k \in DOMAIN unsent[c] : unsent[c][k] \in Request
    BY <2>2
  <2> QED BY <2>3, <2>4
<1>4. /\ \A c \in Client : \A k \in DOMAIN uplink[c] : uplink[c][k] \in InTransit
      /\ \A c \in Client : \A k \in DOMAIN unsent[c] : unsent[c][k] \in InTransit
      /\ InTransit \subseteq Request
  BY <1>2, <1>3 DEF InTransit
<1>5. \A r \in InTransit : SoundAt(r, log)
  BY <1>1 DEF InTransit, RequestsSound, AllSound
<1> QED BY <1>1, <1>2, <1>4, <1>5

-----------------------------------------------------------------------------
(* What a step does to the jobs, the requests and the log.                 *)

LEMMA StepJobs ==
    ASSUME Coherent, JobsOrdered, [Next]_vars
    PROVE  /\ JobsOrdered'
           /\ \A c \in Client : \A call \in Nat : Behind(call, c) => Behind(call, c)'
<1>1. calls \in Nat /\ jobs \in [Client -> Seq(Job)] /\ \A c \in Client : jobs[c] \in Seq(Job)
  BY CoherentTypes DEF Typed, TypeOK, CliType
<1>2. \/ /\ calls' = calls
         /\ \A d \in Client : jobs'[d] \in {jobs[d], Tail(jobs[d]), <<>>}
         /\ \A d \in Client : jobs[d] = <<>> => jobs'[d] = <<>>
      \/ \E c \in Client, u \in CliUpdate : Update(c, u)
  <2>1. CASE UNCHANGED <<jobs, calls>>
    BY <2>1
  <2>2. ASSUME NEW c \in Client, ReceiveAck(c)
        PROVE  /\ calls' = calls
               /\ \A d \in Client : jobs'[d] \in {jobs[d], Tail(jobs[d]), <<>>}
               /\ \A d \in Client : jobs[d] = <<>> => jobs'[d] = <<>>
    <3>1. jobs[c] # <<>>
      <4>1. downlink[c] \in Seq(Reply) /\ OneInFlight
        BY DEF Coherent, InFlight, Typed, TypeOK, NetType
      <4>2. 1 \in DOMAIN downlink[c] /\ downlink[c][1].kind # "broadcast"
        BY <2>2, <4>1 DEF ReceiveAck
      <4> QED BY <4>1, <4>2 DEF OneInFlight, NoAck
    <3> QED BY <1>1, <2>2, <3>1 DEF ReceiveAck
  <2>3. ASSUME NEW c \in Client, Restart(c)
        PROVE  /\ calls' = calls
               /\ \A d \in Client : jobs'[d] \in {jobs[d], Tail(jobs[d]), <<>>}
               /\ \A d \in Client : jobs[d] = <<>> => jobs'[d] = <<>>
    BY <1>1, <2>3 DEF Restart
  <2>4. CASE UNCHANGED vars
    BY <2>1, <2>4 DEF vars, cliVars
  <2>5. ASSUME NEW c \in Client,
               \/ Attempt(c) \/ ReceiveBroadcast(c) \/ Connect(c) \/ NoticeDrop(c)
               \/ HubUpdates(c) \/ HubFails(c) \/ Drop(c)
        PROVE  UNCHANGED <<jobs, calls>>
    BY <2>5 DEF Attempt, Sending, ReceiveBroadcast, Connect, NoticeDrop, HubUpdates,
       HubFails, Drop, cliVars
  <2>6. ASSUME \/ \E request \in late : HubUpdatesLate(request)
               \/ Rename("first") \/ \E m \in {"plain", "odd"} : Prefer(m)
               \/ Claim \/ Unclaim \/ ArchiveFromHub \/ Reopen
        PROVE  UNCHANGED <<jobs, calls>>
    BY <2>6 DEF HubUpdatesLate, Rename, Prefer, Claim, Unclaim, ArchiveFromHub, Reopen, HubWrites,
       cliVars
  <2> QED BY <2>1, <2>2, <2>3, <2>4, <2>5, <2>6 DEF Next, CliStep
<1>3. CASE /\ calls' = calls
           /\ \A d \in Client : jobs'[d] \in {jobs[d], Tail(jobs[d]), <<>>}
           /\ \A d \in Client : jobs[d] = <<>> => jobs'[d] = <<>>
  <2>1. ASSUME NEW d \in Client
        PROVE  \E n \in {0, 1} : \A i \in DOMAIN jobs'[d] :
                   i + n \in DOMAIN jobs[d] /\ jobs'[d][i] = jobs[d][i + n]
    <3>1. CASE jobs'[d] = jobs[d]
      <4>1. \A i \in DOMAIN jobs'[d] : i + 0 \in DOMAIN jobs[d] /\ jobs'[d][i] = jobs[d][i + 0]
        BY <1>1, <3>1
      <4> QED BY <4>1
    <3>2. CASE jobs'[d] = <<>>
      BY <3>2
    <3>3. CASE jobs'[d] = Tail(jobs[d]) /\ jobs[d] # <<>>
      <4>1. \A i \in DOMAIN jobs'[d] : i + 1 \in DOMAIN jobs[d] /\ jobs'[d][i] = jobs[d][i + 1]
        BY <1>1, <3>3
      <4> QED BY <4>1
    <3> QED BY <1>3, <3>1, <3>2, <3>3
  <2>2. \A d \in Client : \A i \in DOMAIN jobs[d] : i \in Nat
    BY <1>1
  <2>4. \A d \in Client : jobs'[d] \in Seq(Job)
    <3> SUFFICES ASSUME NEW d \in Client PROVE jobs'[d] \in Seq(Job)
      OBVIOUS
    <3>1. jobs[d] # <<>> => Tail(jobs[d]) \in Seq(Job)
      BY CoherentTypes, FirstJob
    <3>2. <<>> \in Seq(Job)
      OBVIOUS
    <3> QED BY <1>1, <1>3, <3>1, <3>2
  <2>5. \A d \in Client : \A i \in DOMAIN jobs'[d] : i \in Nat
    BY <2>4
  <2>6. \A d \in Client : \A i \in DOMAIN jobs[d] : jobs[d][i].call \in Nat
    BY <1>1 DEF JobsOrdered
  <2>3. JobsOrdered'
    <3>1. \A d \in Client : \A i \in DOMAIN jobs'[d] : jobs'[d][i].call \in 1..calls'
      BY <1>3, <2>1 DEF JobsOrdered
    <3>2. ASSUME NEW d \in Client, NEW i \in DOMAIN jobs'[d], NEW j \in DOMAIN jobs'[d], i < j
          PROVE  jobs'[d][i].call <= jobs'[d][j].call
      <4>1. PICK n \in {0, 1} : \A l \in DOMAIN jobs'[d] :
                   l + n \in DOMAIN jobs[d] /\ jobs'[d][l] = jobs[d][l + n]
        BY <2>1
      <4>2. i + n < j + n
        BY <2>5, <3>2
      <4> QED BY <4>1, <4>2 DEF JobsOrdered
    <3> QED BY <1>3, <3>1, <3>2 DEF JobsOrdered
  <2> QED BY <1>3, <2>1, <2>3 DEF Behind
<1>4. ASSUME NEW c \in Client, NEW u \in CliUpdate, Update(c, u)
      PROVE  /\ JobsOrdered'
             /\ \A d \in Client : \A call \in Nat : Behind(call, d) => Behind(call, d)'
  <2> DEFINE job == [update |-> u, call |-> calls + 1]
  <2>1. job \in Job /\ job.call = calls + 1
    BY <1>1, <1>4 DEF Job
  <2>2. /\ calls < MaxUpdates /\ calls' = calls + 1
        /\ \A d \in Client : jobs'[d] = IF d = c THEN Append(jobs[d], job) ELSE jobs[d]
    BY <1>1, <1>4 DEF Update
  <2>3. MaxUpdates \in Nat
    BY MetadataAssumption
  <2> HIDE DEF job
  <2>4. ASSUME NEW d \in Client, NEW i \in DOMAIN jobs'[d]
        PROVE  \/ i \in DOMAIN jobs[d] /\ jobs'[d][i] = jobs[d][i]
               \/ /\ d = c /\ i = Len(jobs[c]) + 1 /\ jobs'[d][i] = job
                  /\ \A j \in DOMAIN jobs[d] : j < i
    <3>1. jobs[d] \in Seq(Job)
      BY <1>1
    <3>2. \A j \in DOMAIN jobs[d] : j < Len(jobs[d]) + 1
      BY <3>1
    <3>3. /\ DOMAIN Append(jobs[d], job) = DOMAIN jobs[d] \cup {Len(jobs[d]) + 1}
          /\ Append(jobs[d], job)[Len(jobs[d]) + 1] = job
          /\ \A j \in DOMAIN jobs[d] : Append(jobs[d], job)[j] = jobs[d][j]
      BY <2>1, <3>1, Appended
    <3> QED BY <2>2, <3>2, <3>3
  <2>5. \A d \in Client : \A i \in DOMAIN jobs[d] : i \in Nat /\ jobs[d][i].call \in 1..calls
    BY <1>1 DEF JobsOrdered
  <2>6. \A d \in Client : \A i \in DOMAIN jobs'[d] : jobs'[d][i].call \in 1..calls'
    BY <1>1, <2>1, <2>2, <2>4, <2>5
  <2>7. ASSUME NEW d \in Client, NEW i \in DOMAIN jobs'[d], NEW j \in DOMAIN jobs'[d], i < j
        PROVE  jobs'[d][i].call <= jobs'[d][j].call
    <3>1. CASE j \in DOMAIN jobs[d] /\ jobs'[d][j] = jobs[d][j]
      <4>1. i \in DOMAIN jobs[d] /\ jobs'[d][i] = jobs[d][i]
        BY <1>1, <2>4, <2>7, <3>1
      <4> QED BY <2>7, <3>1, <4>1 DEF JobsOrdered
    <3>2. CASE jobs'[d][j] = job
      BY <1>1, <2>1, <2>2, <2>6, <3>2
    <3> QED BY <2>4, <3>1, <3>2
  <2>8. JobsOrdered'
    <3>1. calls' <= MaxUpdates
      BY <1>1, <2>2, <2>3
    <3> QED BY <3>1, <2>6, <2>7 DEF JobsOrdered
  <2>9. ASSUME NEW d \in Client, NEW call \in Nat, Behind(call, d)
        PROVE  Behind(call, d)'
    BY <1>1, <2>1, <2>2, <2>4, <2>9 DEF Behind
  <2> QED BY <2>8, <2>9
<1> QED BY <1>2, <1>3, <1>4

LEMMA StepTransit ==
    ASSUME Coherent, [Next]_vars
    PROVE  \A r \in InTransit' : \/ r \in InTransit
                                 \/ \E c \in Client : jobs[c] # <<>> /\ r = Outgoing(c)
<1>1. /\ uplink \in [Client -> Seq(Request)] /\ unsent \in [Client -> Seq(Request)]
      /\ \A c \in Client : uplink[c] \in Seq(Request) /\ unsent[c] \in Seq(Request)
  BY CoherentTypes DEF Typed, TypeOK, NetType
<1> DEFINE Kept(line) == \A k \in DOMAIN line : line[k] \in InTransit
           Added(line) == \A k \in DOMAIN line : \/ line[k] \in InTransit
                              \/ \E c \in Client : jobs[c] # <<>> /\ line[k] = Outgoing(c)
<1>2. /\ \A d \in Client : Kept(uplink[d]) /\ Kept(unsent[d])
      /\ late \subseteq InTransit
  BY CoherentTypes DEF InTransit
<1>3. Kept(<<>>) /\ \A d \in Client : uplink[d] # <<>> => Kept(Tail(uplink[d]))
  <2>1. ASSUME NEW d \in Client, uplink[d] # <<>>, NEW k \in DOMAIN Tail(uplink[d])
        PROVE  Tail(uplink[d])[k] \in InTransit
    <3>1. k + 1 \in DOMAIN uplink[d] /\ Tail(uplink[d])[k] = uplink[d][k + 1]
      BY <1>1, <2>1
    <3> QED BY <1>2, <3>1
  <2> QED BY <2>1
<1>4. SUFFICES /\ late' \subseteq InTransit
               /\ \A d \in Client : Added(uplink'[d]) /\ Added(unsent'[d])
  BY DEF InTransit
<1>5. ASSUME NEW line, Kept(line) PROVE Added(line)
  BY <1>5
<1>6. ASSUME UNCHANGED late, UNCHANGED uplink, UNCHANGED unsent
      PROVE  /\ late' \subseteq InTransit
             /\ \A d \in Client : Added(uplink'[d]) /\ Added(unsent'[d])
  BY <1>2, <1>5, <1>6
<1>7. ASSUME NEW c \in Client, Attempt(c)
      PROVE  /\ late' \subseteq InTransit
             /\ \A d \in Client : Added(uplink'[d]) /\ Added(unsent'[d])
  <2>1. Outgoing(c) \in Request /\ jobs[c] # <<>> /\ late' = late
    BY <1>7, OutgoingType, CoherentTypes DEF Attempt, Sending
  <2>2. \A d \in Client : /\ uplink'[d] \in {uplink[d], Append(uplink[d], Outgoing(c))}
                          /\ unsent'[d] \in {unsent[d], Append(unsent[d], Outgoing(c))}
    BY <1>1, <1>7 DEF Attempt, Sending
  <2>3. ASSUME NEW line \in Seq(Request), Kept(line)
        PROVE  Added(Append(line, Outgoing(c)))
    <3>1. \A k \in DOMAIN Append(line, Outgoing(c)) :
              \/ k \in DOMAIN line /\ Append(line, Outgoing(c))[k] = line[k]
              \/ Append(line, Outgoing(c))[k] = Outgoing(c)
      BY <2>1
    <3> QED BY <2>1, <2>3, <3>1
  <2>4. \A d \in Client : /\ Added(Append(uplink[d], Outgoing(c))) /\ Added(uplink[d])
                          /\ Added(Append(unsent[d], Outgoing(c))) /\ Added(unsent[d])
    BY <1>1, <1>2, <1>5, <2>3
  <2> HIDE DEF Added, Kept
  <2> QED BY <1>2, <2>1, <2>2, <2>4
<1>8. ASSUME NEW c \in Client,
             \/ ReceiveAck(c) \/ ReceiveBroadcast(c) \/ NoticeDrop(c)
             \/ \E u \in CliUpdate : Update(c, u)
      PROVE  UNCHANGED late /\ UNCHANGED uplink /\ UNCHANGED unsent
  BY <1>8 DEF ReceiveAck, ReceiveBroadcast, NoticeDrop, Update, netVars
<1>9. ASSUME NEW c \in Client,
             \/ Connect(c) \/ HubUpdates(c) \/ HubFails(c) \/ Drop(c)
             \/ Restart(c)
      PROVE  /\ late' \subseteq InTransit
             /\ \A d \in Client : Added(uplink'[d]) /\ Added(unsent'[d])
  <2>1. \A left \in Orphaned(c) : left \subseteq InTransit
    BY <1>2 DEF Orphaned
  <2>2. late' \subseteq InTransit
    BY <1>2, <1>9, <2>1 DEF Connect, HubUpdates, HubFails, Drop, Restart
  <2>3. \A d \in Client : /\ \/ uplink'[d] \in {uplink[d], unsent[d], <<>>}
                             \/ uplink[d] # <<>> /\ uplink'[d] = Tail(uplink[d])
                          /\ unsent'[d] \in {unsent[d], <<>>}
    BY <1>1, <1>9 DEF Connect, HubUpdates, HubFails, Drop, Restart
  <2>4. \A d \in Client : Kept(uplink'[d]) /\ Kept(unsent'[d])
    <3> HIDE DEF Kept
    <3> QED BY <1>2, <1>3, <2>3
  <2> QED BY <1>5, <2>2, <2>4
<1>10. ASSUME NEW request \in late, HubUpdatesLate(request)
       PROVE  /\ late' \subseteq InTransit
              /\ \A d \in Client : Added(uplink'[d]) /\ Added(unsent'[d])
  BY <1>2, <1>5, <1>10 DEF HubUpdatesLate
<1>11. ASSUME \/ Rename("first") \/ \E m \in {"plain", "odd"} : Prefer(m)
              \/ Claim \/ Unclaim \/ ArchiveFromHub \/ Reopen
       PROVE  UNCHANGED late /\ UNCHANGED uplink /\ UNCHANGED unsent
  BY <1>11 DEF Rename, Prefer, Claim, Unclaim, ArchiveFromHub, Reopen, HubWrites, netVars
<1>12. CASE UNCHANGED vars
  BY <1>6, <1>12 DEF vars, netVars
<1> HIDE DEF Added
<1> QED BY <1>6, <1>7, <1>8, <1>9, <1>10, <1>11, <1>12 DEF Next, CliStep

LEMMA StepLog ==
    ASSUME Coherent, [Next]_vars
    PROVE  \/ log' = log
           \/ \E r \in InTransit :
                /\ r.version = Version
                /\ log' = Append(log, [value |-> Merge(Row, r.next), by |-> r.by,
                                       update |-> r.update, call |-> r.call,
                                       basis |-> r.basis])
           \/ \E u \in HubUpdate, f \in Field, x \in Content :
                /\ f \in Touches(u)
                /\ log' = Append(log, [value |-> Merge(Row, [Row EXCEPT ![f] = x]),
                                       by |-> "hub", update |-> u, call |-> 0,
                                       basis |-> Version])
<1>1. ASSUME NEW c, NEW r \in InTransit, Decide(r, c)
      PROVE  \/ log' = log
             \/ /\ r.version = Version
                /\ log' = Append(log, [value |-> Merge(Row, r.next), by |-> r.by,
                                       update |-> r.update, call |-> r.call,
                                       basis |-> r.basis])
  BY <1>1 DEF Decide, AtVersion
<1>2. ASSUME NEW c \in Client, HubUpdates(c)
      PROVE  Head(uplink[c]) \in InTransit /\ Decide(Head(uplink[c]), c)
  <2>1. uplink[c] \in Seq(Request) /\ uplink[c] # <<>> /\ Decide(Head(uplink[c]), c)
    BY <1>2, CoherentTypes DEF HubUpdates
  <2>2. 1 \in DOMAIN uplink[c] /\ Head(uplink[c]) = uplink[c][1]
    BY <2>1
  <2> QED BY <2>1, <2>2, CoherentTypes
<1>3. ASSUME NEW request \in late, HubUpdatesLate(request)
      PROVE  request \in InTransit /\ Decide(request, "nobody")
  BY <1>3 DEF HubUpdatesLate, InTransit
<1>4. ASSUME \/ Rename("first") \/ \E m \in {"plain", "odd"} : Prefer(m)
             \/ Claim \/ Unclaim \/ ArchiveFromHub \/ Reopen
      PROVE  \E u \in HubUpdate, f \in Field, x \in Content :
                 f \in Touches(u) /\ HubWrites(u, [Row EXCEPT ![f] = x])
  <2>1. /\ "name" \in Touches("rename") /\ "owner" \in Touches("claim")
        /\ "owner" \in Touches("unclaim") /\ "life" \in Touches("hubArchive")
        /\ "life" \in Touches("reopen") /\ "mode" \in Touches("prefer")
    BY DEF Touches, Field
  <2> QED BY <1>4, <2>1 DEF Rename, Prefer, Claim, Unclaim, ArchiveFromHub, Reopen, HubUpdate,
             Field, Content, Missing
<1>5. ASSUME NEW c \in Client,
             \/ CliStep(c) \/ HubFails(c) \/ Drop(c) \/ Restart(c)
             \/ \E u \in CliUpdate : Update(c, u)
      PROVE  log' = log
  BY <1>5 DEF CliStep, Attempt, Sending, ReceiveAck, ReceiveBroadcast, Connect, NoticeDrop,
     HubFails, Drop, Restart, Update
<1>6. CASE UNCHANGED vars
  BY <1>6 DEF vars
<1>7. ASSUME NEW c \in Client, HubUpdates(c)
      PROVE  \/ log' = log
             \/ \E r \in InTransit :
                  /\ r.version = Version
                  /\ log' = Append(log, [value |-> Merge(Row, r.next), by |-> r.by,
                                         update |-> r.update, call |-> r.call,
                                         basis |-> r.basis])
  <2>1. PICK r \in InTransit : Decide(r, c)
    BY <1>2, <1>7
  <2> QED BY <1>1, <2>1
<1>8. ASSUME NEW request \in late, HubUpdatesLate(request)
      PROVE  \/ log' = log
             \/ \E r \in InTransit :
                  /\ r.version = Version
                  /\ log' = Append(log, [value |-> Merge(Row, r.next), by |-> r.by,
                                         update |-> r.update, call |-> r.call,
                                         basis |-> r.basis])
  <2>1. request \in InTransit /\ Decide(request, "nobody")
    BY <1>3, <1>8
  <2> QED BY <1>1, <2>1
<1>9. ASSUME NEW u \in HubUpdate, NEW f \in Field, NEW x \in Content,
             HubWrites(u, [Row EXCEPT ![f] = x])
      PROVE  log' = Append(log, [value |-> Merge(Row, [Row EXCEPT ![f] = x]),
                                 by |-> "hub", update |-> u, call |-> 0, basis |-> Version])
  BY <1>9 DEF HubWrites
<1> QED BY <1>4, <1>5, <1>6, <1>7, <1>8, <1>9 DEF Next

-----------------------------------------------------------------------------
(* The order of the commits, and the refinement.                           *)

\* One more commit: it is younger than those of its writer.
LEMMA AppendOrdered ==
    ASSUME Coherent, Ordered, NEW x \in Commit, log' = Append(log, x),
           x.by \in Client => Behind(x.call, x.by),
           x.by = "hub" => x.call = 0,
           \A k \in DOMAIN log : log[k].by = x.by => log[k].call <= x.call
    PROVE  /\ CommitsInOrder'
           /\ \A k \in DOMAIN log' : log'[k].by = "hub" => log'[k].call = 0
           /\ \A k \in DOMAIN log' : log'[k].by \in Client => Behind(log'[k].call, log'[k].by)
           /\ \A r \in InTransit : \A k \in DOMAIN log' :
                  k <= r.version /\ log'[k].by = r.by => log'[k].call <= r.call
<1>1. /\ Len(log) \in Nat /\ DOMAIN log = 1..Len(log)
      /\ DOMAIN log' = DOMAIN log \cup {Len(log) + 1}
      /\ log'[Len(log) + 1] = x /\ \A k \in DOMAIN log : log'[k] = log[k]
  BY CoherentTypes, Appended, LastElement
<1>2. CommitsInOrder'
  <2> SUFFICES ASSUME NEW k \in DOMAIN log', NEW l \in DOMAIN log', k < l,
                      log'[k].by = log'[l].by
               PROVE  log'[k].call <= log'[l].call
    BY DEF CommitsInOrder
  <2>1. k \in DOMAIN log
    BY <1>1
  <2>2. CASE l \in DOMAIN log
    BY <1>1, <2>1, <2>2 DEF Ordered, CommitsInOrder
  <2>3. CASE l = Len(log) + 1
    BY <1>1, <2>1, <2>3
  <2> QED BY <1>1, <2>2, <2>3
<1>3. \A k \in DOMAIN log' : log'[k].by \in Client => Behind(log'[k].call, log'[k].by)
  BY <1>1 DEF Ordered
<1>4. ASSUME NEW r \in InTransit, NEW k \in DOMAIN log', k <= r.version, log'[k].by = r.by
      PROVE  log'[k].call <= r.call
  <2>1. r.version \in DOMAIN log
    BY CoherentTypes DEF SoundAt
  <2>2. k \in DOMAIN log
    BY <1>1, <1>4, <2>1
  <2> QED BY <1>1, <1>4, <2>2 DEF Ordered, Placed
<1>5. \A k \in DOMAIN log' : log'[k].by = "hub" => log'[k].call = 0
  BY <1>1 DEF Ordered
<1> QED BY <1>2, <1>3, <1>4, <1>5

LEMMA StepGrows ==
    ASSUME Coherent, [Next]_vars
    PROVE  Grows
<1>1. CASE log' = log
  BY <1>1 DEF Grows
<1>2. ASSUME NEW x, log' = Append(log, x)
      PROVE  Grows
  BY <1>2, CoherentTypes DEF Grows
<1> QED BY <1>1, <1>2, StepLog

LEMMA GrownByOne ==
    ASSUME NEW S, NEW s \in Seq(S), NEW x
    PROVE  Len(Append(s, x)) = Len(s) + 1
OBVIOUS

LEMMA LogOrdered ==
    ASSUME Coherent, Ordered, [Next]_vars
    PROVE  /\ CommitsInOrder'
           /\ \A k \in DOMAIN log' : log'[k].by = "hub" => log'[k].call = 0
           /\ \A k \in DOMAIN log' : log'[k].by \in Client => Behind(log'[k].call, log'[k].by)
           /\ \A r \in InTransit : \A k \in DOMAIN log' :
                  k <= r.version /\ log'[k].by = r.by => log'[k].call <= r.call
<1>1. /\ Row \in Value /\ Version \in Nat /\ Typed /\ InTransit \subseteq Request
      /\ DOMAIN log = 1..Version
  <2>1. Typed /\ InTransit \subseteq Request /\ log \in Seq(Commit)
    BY CoherentTypes
  <2> QED BY <2>1, RowType, LastElement DEF Version, Typed
<1>2. CASE log' = log
  BY <1>2 DEF Ordered, Placed, CommitsInOrder
<1>3. ASSUME NEW r \in InTransit, r.version = Version,
             log' = Append(log, [value |-> Merge(Row, r.next), by |-> r.by,
                                 update |-> r.update, call |-> r.call, basis |-> r.basis])
      PROVE  /\ CommitsInOrder'
             /\ \A k \in DOMAIN log' : log'[k].by = "hub" => log'[k].call = 0
             /\ \A k \in DOMAIN log' :
                    log'[k].by \in Client => Behind(log'[k].call, log'[k].by)
             /\ \A s \in InTransit : \A k \in DOMAIN log' :
                    k <= s.version /\ log'[k].by = s.by => log'[k].call <= s.call
  <2> DEFINE x == [value |-> Merge(Row, r.next), by |-> r.by,
                   update |-> r.update, call |-> r.call, basis |-> r.basis]
  <2>1. Merge(Row, r.next) \in Value
    BY <1>1, MergeType DEF Request
  <2>2. x \in Commit /\ x.by = r.by /\ x.call = r.call
    BY <1>1, <2>1 DEF Request, Commit
  <2>3. log' = Append(log, x)
    BY <1>3
  <2> HIDE DEF x
  <2>4. Behind(x.call, x.by)
    BY <2>2 DEF Ordered, Placed
  <2>5. \A k \in DOMAIN log : log[k].by = x.by => log[k].call <= x.call
    BY <1>1, <1>3, <2>2 DEF Ordered, Placed
  <2>6. x.by # "hub"
    BY <1>1, <2>2, MetadataAssumption DEF Request
  <2> QED BY <2>2, <2>3, <2>4, <2>5, <2>6, AppendOrdered
<1>4. ASSUME NEW u \in HubUpdate, NEW f \in Field, NEW y \in Content,
             log' = Append(log, [value |-> Merge(Row, [Row EXCEPT ![f] = y]),
                                 by |-> "hub", update |-> u, call |-> 0, basis |-> Version])
      PROVE  /\ CommitsInOrder'
             /\ \A k \in DOMAIN log' : log'[k].by = "hub" => log'[k].call = 0
             /\ \A k \in DOMAIN log' :
                    log'[k].by \in Client => Behind(log'[k].call, log'[k].by)
             /\ \A r \in InTransit : \A k \in DOMAIN log' :
                    k <= r.version /\ log'[k].by = r.by => log'[k].call <= r.call
  <2> DEFINE x == [value |-> Merge(Row, [Row EXCEPT ![f] = y]),
                   by |-> "hub", update |-> u, call |-> 0, basis |-> Version]
  <2>1. Merge(Row, [Row EXCEPT ![f] = y]) \in Value
    BY <1>1, MergeType, ValuesArePayloads
  <2>2. x \in Commit /\ x.by = "hub" /\ x.call = 0
    BY <1>1, <2>1 DEF Commit
  <2>3. log' = Append(log, x)
    BY <1>4
  <2> HIDE DEF x
  <2>4. "hub" \notin Client
    BY MetadataAssumption
  <2>5. \A k \in DOMAIN log : log[k].by = "hub" => log[k].call = 0
    BY DEF Ordered
  <2> QED BY <2>2, <2>3, <2>4, <2>5, AppendOrdered
<1> QED BY <1>2, <1>3, <1>4, StepLog

LEMMA OutgoingPlaced ==
    ASSUME Coherent, Ordered, NEW c \in Client, jobs[c] # <<>>
    PROVE  Placed(Outgoing(c)) /\ Outgoing(c).version \in DOMAIN log
<1>1. /\ Outgoing(c).call = Head(jobs[c]).call /\ Outgoing(c).by = c
      /\ Outgoing(c).update = Head(jobs[c]).update
      /\ Outgoing(c).version = cache[c].version
  BY DEF Outgoing
<1>2. jobs[c] \in Seq(Job) /\ calls \in Nat
  BY CoherentTypes
<1>3. 1 \in DOMAIN jobs[c] /\ Head(jobs[c]) = jobs[c][1]
  BY <1>2
<1>4. \A i \in DOMAIN jobs[c] : i \in Nat /\ 1 <= i
  BY <1>2
<1>5. jobs[c][1].call \in 1..calls
  BY <1>3 DEF Ordered, JobsOrdered
<1>6. \A i \in DOMAIN jobs[c] : jobs[c][1].call <= jobs[c][i].call
  <2> SUFFICES ASSUME NEW i \in DOMAIN jobs[c] PROVE jobs[c][1].call <= jobs[c][i].call
    OBVIOUS
  <2>1. i = 1 \/ 1 < i
    BY <1>4
  <2> QED BY <1>2, <1>3, <1>5, <2>1 DEF Ordered, JobsOrdered
<1>7. Behind(Outgoing(c).call, c)
  BY <1>1, <1>2, <1>3, <1>5, <1>6 DEF Behind
<1>8. \A k \in DOMAIN log : log[k].by = c => log[k].call <= jobs[c][1].call
  BY <1>3 DEF Ordered, Behind
<1>9. Outgoing(c).call >= 1
  BY <1>1, <1>2, <1>3, <1>5
<1>10. Outgoing(c).version \in DOMAIN log
  BY <1>1 DEF Coherent, CacheIsHistory
<1> QED BY <1>1, <1>3, <1>7, <1>8, <1>9, <1>10 DEF Placed

LEMMA StepFaithful ==
    ASSUME Faithful, [Next]_vars
    PROVE  Faithful'
<1>1. Coherent /\ Ordered /\ JobsOrdered
  BY DEF Faithful, Ordered
<1>2. Coherent'
  BY <1>1, StepCoherent
<1>3. /\ JobsOrdered'
      /\ \A c \in Client : \A call \in Nat : Behind(call, c) => Behind(call, c)'
  BY <1>1, StepJobs
<1>4. /\ CommitsInOrder'
      /\ \A k \in DOMAIN log' : log'[k].by = "hub" => log'[k].call = 0
      /\ \A k \in DOMAIN log' : log'[k].by \in Client => Behind(log'[k].call, log'[k].by)
      /\ \A r \in InTransit : \A k \in DOMAIN log' :
             k <= r.version /\ log'[k].by = r.by => log'[k].call <= r.call
  BY <1>1, LogOrdered
<1>5. (\A k \in DOMAIN log : log[k].by \in Client => Behind(log[k].call, log[k].by))'
  <2>1. log' \in Seq(Commit)
    BY <1>2 DEF Coherent, InFlight, Typed, TypeOK, HubType
  <2>2. \A k \in DOMAIN log' : log'[k].call \in Nat
    <3>1. \A k \in DOMAIN log' : log'[k] \in Commit
      BY <2>1
    <3> QED BY <3>1 DEF Commit
  <2> SUFFICES ASSUME NEW k \in DOMAIN log', log'[k].by \in Client
               PROVE  /\ log'[k].call <= calls'
                      /\ \A i \in DOMAIN jobs'[log'[k].by] :
                             log'[k].call <= jobs'[log'[k].by][i].call
    BY DEF Behind
  <2> DEFINE c == log'[k].by
             call == log'[k].call
  <2>3. c \in Client /\ call \in Nat /\ Behind(call, c)
    BY <1>4, <2>2
  <2> HIDE DEF c, call
  <2>4. call <= calls' /\ \A i \in DOMAIN jobs'[c] : call <= jobs'[c][i].call
    BY <1>3, <2>3 DEF Behind
  <2> QED BY <2>4 DEF c, call
<1>6. InTransit \subseteq Request
  BY <1>1, CoherentTypes
<1>7. ASSUME NEW r \in InTransit'
      PROVE  Placed(r)'
  <2>1. CASE r \in InTransit
    <3>1. r \in Request /\ Placed(r)
      BY <1>1, <1>6, <2>1 DEF Ordered
    <3>2. Behind(r.call, r.by)'
      BY <1>3, <3>1 DEF Placed, Request
    <3> QED BY <1>4, <2>1, <3>1, <3>2 DEF Placed
  <2>2. ASSUME NEW c \in Client, jobs[c] # <<>>, r = Outgoing(c), r \notin InTransit
        PROVE  Placed(r)'
    <3>1. Placed(r) /\ r.version \in DOMAIN log /\ r \in Request
      BY <1>1, <2>2, OutgoingPlaced, OutgoingType, CoherentTypes
    <3>2. Behind(r.call, r.by)'
      BY <1>3, <3>1 DEF Placed, Request
    <3>3. \A k \in DOMAIN log' : k <= r.version => k \in DOMAIN log /\ log'[k] = log[k]
      <4>1. Grows
        BY <1>1, StepGrows
      <4>2. /\ DOMAIN log = 1..Len(log) /\ Len(log) \in Nat
            /\ DOMAIN log' = 1..Len(log') /\ Len(log') \in Nat
        BY <1>1, <1>2 DEF Coherent, InFlight, Typed, TypeOK, HubType
      <4> QED BY <3>1, <4>1, <4>2 DEF Grows
    <3>4. \A k \in DOMAIN log' : k <= r.version /\ log'[k].by = r.by => log'[k].call <= r.call
      BY <3>1, <3>3 DEF Placed
    <3> QED BY <3>1, <3>2, <3>4 DEF Placed
  <2> QED BY <1>1, <2>1, <2>2, StepTransit
<1> QED BY <1>2, <1>3, <1>4, <1>5, <1>7 DEF Faithful, Ordered

LEMMA InitFaithful == Init => Faithful
<1> SUFFICES ASSUME Init PROVE Faithful
  OBVIOUS
<1>1. Coherent /\ Typed
  BY InitCoherent DEF Coherent, InFlight
<1>2. /\ Creation.by = "hub" /\ Creation.call = 0
  BY DEF Creation
<1>3. log = <<Creation>> /\ calls = 0 /\ \A c \in Client : jobs[c] = <<>>
  BY DEF Init
<1>4. InTransit = {}
  BY DEF Init, InTransit
<1> HIDE DEF Creation
<1>5. /\ DOMAIN log = {1} /\ log[1] = Creation
  BY <1>3
<1>6. JobsOrdered
  BY <1>3, MetadataAssumption DEF JobsOrdered
<1>7. "hub" \notin Client
  BY MetadataAssumption
<1>8. CommitsInOrder
  BY <1>5, <1>2 DEF CommitsInOrder
<1> QED BY <1>1, <1>2, <1>4, <1>5, <1>6, <1>7, <1>8 DEF Faithful, Ordered

THEOREM Spec_Faithful == Spec => []Faithful
<1>1. Init => Faithful
  BY InitFaithful
<1>2. Faithful /\ [Next]_vars => Faithful'
  BY StepFaithful
<1> QED BY <1>1, <1>2, PTL DEF Spec

\* The updates of a process are committed in the order of its calls, however
\* often they are sent and however late they arrive.
THEOREM CallsTakeEffectInOrder == Spec => []CommitsInOrder
<1>1. Faithful => CommitsInOrder
  BY DEF Faithful, Ordered
<1> QED BY <1>1, Spec_Faithful, PTL

\* The abstract specification speaks of the same values.
LEMMA SameValues ==
    /\ Atomic!CliUpdate = CliUpdate /\ Atomic!HubUpdate = HubUpdate
    /\ Atomic!Field = Field /\ Atomic!Content = Content
    /\ Atomic!NoValue = NoValue /\ Atomic!FirstValue = FirstValue
    /\ \A u, v : Atomic!Handler(u, v) = Handler(u, v)
    /\ \A p, n : Atomic!Merge(p, n) = Merge(p, n)
    /\ \A u : Atomic!Touches(u) = Touches(u)
    /\ \A c, v : Atomic!Parses(c, v) <=> Parses(c, v)
    /\ \A c, v : Atomic!Parsed(c, v) = Parsed(c, v)
<1>1. Atomic!Missing = Missing /\ Atomic!Null = Null /\ Atomic!Carried = Carried
  BY DEF Atomic!Missing, Missing, Atomic!Null, Null, Atomic!Carried, Carried
<1>2. Atomic!Field = Field /\ Atomic!Content = Content
  BY <1>1 DEF Atomic!Field, Field, Atomic!Content, Content
<1>3. Atomic!CliUpdate = CliUpdate /\ Atomic!HubUpdate = HubUpdate
  BY DEF Atomic!CliUpdate, CliUpdate, Atomic!HubUpdate, HubUpdate
<1>4. Atomic!NoValue = NoValue
  BY <1>1, <1>2 DEF Atomic!NoValue, NoValue
<1>5. Atomic!FirstValue = FirstValue
  BY <1>4 DEF Atomic!FirstValue, FirstValue
<1>6. \A u, v : Atomic!Handler(u, v) = Handler(u, v)
  BY <1>1, <1>2 DEF Atomic!Handler, Handler, Atomic!Picked, Picked
<1>7. \A p, n : Atomic!Merge(p, n) = Merge(p, n)
  BY <1>1, <1>2 DEF Atomic!Merge, Merge
<1>8. \A u : Atomic!Touches(u) = Touches(u)
  BY <1>2 DEF Atomic!Touches, Touches
<1>9. \A c, v : Atomic!Parses(c, v) <=> Parses(c, v)
  BY <1>2 DEF Atomic!Parses, Parses
<1>10. \A c, v : Atomic!Parsed(c, v) = Parsed(c, v)
  BY <1>1, <1>2 DEF Atomic!Parsed, Parsed
<1> QED BY <1>2, <1>3, <1>4, <1>5, <1>6, <1>7, <1>8, <1>9, <1>10

LEMMA StepAtomic ==
    ASSUME Faithful, [Next]_vars
    PROVE  [Atomic!Next]_log
<1>1. Coherent /\ Ordered
  BY DEF Faithful
<1>2. /\ log \in Seq(Commit) /\ log # <<>> /\ Typed /\ InTransit \subseteq Request
      /\ DOMAIN log = 1..Version /\ Version \in Nat /\ Row \in Value
      /\ calls \in Nat /\ calls <= MaxUpdates /\ MaxUpdates \in Nat
  <2>1. log \in Seq(Commit) /\ log # <<>> /\ Typed /\ InTransit \subseteq Request
        /\ calls \in Nat
    BY <1>1, CoherentTypes DEF Typed
  <2> QED BY <1>1, <2>1, RowType, LastElement, MetadataAssumption
          DEF Version, Ordered, JobsOrdered
<1>3. Atomic!Latest = Row
  BY DEF Atomic!Latest, Row
<1>4. ASSUME NEW r \in InTransit, r.version = Version,
             log' = Append(log, [value |-> Merge(Row, r.next), by |-> r.by,
                                 update |-> r.update, call |-> r.call, basis |-> r.basis])
      PROVE  Atomic!Next
  <2>1. r \in Request /\ Placed(r) /\ SoundAt(r, log)
    BY <1>1, <1>2, CoherentTypes DEF Ordered
  <2>2. /\ r.by \in Client /\ r.update \in CliUpdate
        /\ r.call \in 1..MaxUpdates /\ r.basis \in DOMAIN log \cup {0}
    BY <1>2, <2>1 DEF Request, Placed, Behind, SoundAt
  <2>3. r.next = Handler(r.update, Atomic!Reading(r.by, r.basis))
    BY <2>1, SameValues DEF SoundAt, ReadIn, Atomic!Reading
  <2>4. \A k \in DOMAIN log : log[k].by = r.by => log[k].call <= r.call
    BY <1>2, <1>4, <2>1 DEF Placed
  <2>7. r.basis # Len(log) => ~Parses(r.by, Row)
    BY <1>4, <2>1 DEF SoundAt, Row, Version
  <2>5. Atomic!ClientUpdate(r.by, r.update, r.call, r.basis)
    BY <1>3, <1>4, <2>3, <2>4, <2>7, SameValues DEF Atomic!ClientUpdate
  <2>6. Len(log') = Len(log) + 1
    BY <1>2, <1>4, GrownByOne
  <2> QED BY <2>2, <2>5, <2>6, SameValues DEF Atomic!Next
<1>5. ASSUME NEW u \in HubUpdate, NEW f \in Field, NEW x \in Content, f \in Touches(u),
             log' = Append(log, [value |-> Merge(Row, [Row EXCEPT ![f] = x]),
                                 by |-> "hub", update |-> u, call |-> 0, basis |-> Version])
      PROVE  Atomic!Next
  <2>1. Atomic!HubSets(u, f, x)
    BY <1>3, <1>5, SameValues DEF Atomic!HubSets, Version
  <2>2. Len(log') = Len(log) + 1
    BY <1>2, <1>5, GrownByOne
  <2> QED BY <1>5, <2>1, <2>2, SameValues DEF Atomic!Next
<1> QED BY <1>1, <1>4, <1>5, StepLog

\* The caches, versions, locks, retries and late requests of any number of
\* processes implement a register whose updates are atomic.
THEOREM UpdatesAreAtomic == Spec => AtomicUpdates
<1>1. Init => Atomic!Init
  <2> SUFFICES ASSUME Init PROVE Atomic!Init
    OBVIOUS
  <2>1. log = <<Creation>> /\ Creation.value = FirstValue
    BY DEF Init, Creation
  <2> HIDE DEF Creation
  <2>2. Len(log) = 1 /\ log[1] = Creation
    BY <2>1
  <2> QED BY <2>1, <2>2, SameValues DEF Atomic!Init, Atomic!Latest
<1>2. Faithful /\ [Next]_vars => [Atomic!Next]_log
  BY StepAtomic
<1> QED BY <1>1, <1>2, Spec_Faithful, PTL DEF Spec, AtomicUpdates, Atomic!Spec

=============================================================================
