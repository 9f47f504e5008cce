---------------------------- MODULE TurnDelivery ----------------------------
(***************************************************************************)
(* How a user turn travels from the hub's messages table to one agent      *)
(* session and how the hub learns what became of it:                       *)
(*                                                                         *)
(*   web --POST/DELETE--> hub table --Socket.IO room--> CLI filter         *)
(*        CLI memory queue --> agent;   messages-consumed and cancel acks  *)
(*        travel back; after a reconnect the CLI backfills over HTTP.      *)
(*                                                                         *)
(* Hub handlers (messageService.ts, sessionHandlers.ts) and CLI handlers   *)
(* (apiSession.ts, MessageQueue2.ts) each run to completion, so each is    *)
(* one action; a synchronous CLI loop is a run of small steps during which *)
(* CliBusy holds every other CLI handler back.                             *)
(***************************************************************************)
EXTENDS MessageStore, IncomingFilter

CONSTANTS
    ClearTurn,      \* turns that are a /clear or /compact command
    Request,        \* DELETE requests, each made at most once
    MaxPosts,       \* bound: POSTs per localId (retries included)
    MaxAgentRows,   \* bound: rows of the agent's output
    MaxTyped,       \* bound: rows of prompts typed at the CLI's terminal
    MaxDrops,       \* bound: lost transports and hub restarts
    MaxRestarts,    \* bound: restarts of the CLI process
    MaxTimeouts,    \* bound: acks slower than the 500 ms of the hub
    MaxFailures     \* bound: failed backfill requests

ASSUME DeliveryAssumption ==
    /\ ClearTurn \subseteq Turn
    /\ {MaxPosts, MaxAgentRows, MaxTyped, MaxDrops, MaxRestarts, MaxTimeouts,
        MaxFailures} \subseteq Nat

VARIABLES
    rows,       \* hub: the messages table
    due,        \* hub clock: scheduled turns whose scheduled_at has passed
    cancels,    \* hub: cancelQueuedMessage calls, by request
    posts,      \* POSTs made so far, by localId
    link,       \* transport as the CLI sees it: "up", "dead" (gone, unnoticed), "down"
    stale,      \* hub: a dead socket of this CLI is still in the session's room
    downlink,   \* packets on their way to the CLI
    uplink,     \* packets on their way to the hub
    unsent,     \* socket.io send buffer of the CLI while it is disconnected
    seen,       \* CLI: IncomingMessageFilter.seenIds
    cursor,     \* CLI: IncomingMessageFilter.lastSeenSeq
    backfill,   \* CLI: the backfill run in flight
    needsBackfill, connectedOnce,
    ready,      \* CLI: onUserMessage and onCancelQueuedMessage are registered
    pending,    \* CLI: pendingMessages, before registration
    queue,      \* CLI: MessageQueue2.queue
    handed,     \* history: rows handed to the agent by the running process
    reached,    \* history: rows handed to the agent by any process
    sinceRead,  \* history: turns inserted after this process first read a message
    faults      \* how many of each kind of fault have happened

hubVars  == <<rows, due, cancels, posts>>
netVars  == <<link, stale, downlink, uplink, unsent>>
bfVars   == <<backfill, needsBackfill, connectedOnce>>
inVars   == <<seen, cursor, ready, pending, queue>>
pastVars == <<handed, reached, sinceRead>>
vars == <<rows, due, cancels, posts, link, stale, downlink, uplink, unsent,
          seen, cursor, backfill, needsBackfill, connectedOnce, ready, pending,
          queue, pastVars, faults>>

Packet == [kind : {"message"}, id : Id] \cup [kind : {"cancel"}, req : Request]
Reply == [kind : {"consumed"}, turn : Turn]
           \cup [kind : {"ack"}, req : Request, removed : BOOLEAN]

Message(i)  == [kind |-> "message", id |-> i]
Cancel(r)   == [kind |-> "cancel", req |-> r]
Consumed(t) == [kind |-> "consumed", turn |-> t]
Ack(r, b)   == [kind |-> "ack", req |-> r, removed |-> b]

\* A cancel call: `wide` says the room also held a dead socket when the
\* request was broadcast, `got` is the answer received so far.
Call == [st : {"idle", "asked", "cancelled", "sent", "unconfirmed"},
         id : Id \cup {0}, wide : BOOLEAN, got : {"none", "removed", "notFound"}]
NoCall == [st |-> "idle", id |-> 0, wide |-> FALSE, got |-> "none"]
Settled(r, result) == [cancels EXCEPT ![r].st = result]

\* A backfill run: page holds the rows of the current response.
Run == [st : {"idle", "asked", "answered", "loop"},
        after : 0..MaxRows, page : SUBSET Id, full : BOOLEAN]
NoRun == [st |-> "idle", after |-> 0, page |-> {}, full |-> FALSE]
Asking(n) == [NoRun EXCEPT !.st = "asked", !.after = n]

FaultKind == {"drops", "restarts", "timeouts", "failures"}
NoFaults == [drops |-> 0, restarts |-> 0, timeouts |-> 0, failures |-> 0]
MaxFaults == [drops |-> MaxDrops, restarts |-> MaxRestarts,
              timeouts |-> MaxTimeouts, failures |-> MaxFailures]
Fault(f) == /\ faults[f] < MaxFaults[f]
            /\ faults' = [faults EXCEPT ![f] = @ + 1]

Init ==
    /\ rows = EmptyTable
    /\ due = {}
    /\ cancels = [r \in Request |-> NoCall]
    /\ posts = [t \in Turn |-> 0]
    /\ link = "down" /\ stale = FALSE
    /\ downlink = <<>> /\ uplink = <<>> /\ unsent = <<>>
    /\ seen = <<>> /\ cursor = 0
    /\ backfill = NoRun /\ needsBackfill = FALSE /\ connectedOnce = FALSE
    /\ ready = FALSE /\ pending = <<>> /\ queue = <<>>
    /\ handed = {} /\ reached = {} /\ sinceRead = {}
    /\ faults = NoFaults

-----------------------------------------------------------------------------
(* The hub.                                                                *)

\* io.of('/cli').to(`session:...`).emit: packets to a dead socket are lost.
EmitToRoom(p) ==
    downlink' = IF link = "up" THEN Append(downlink, p) ELSE downlink

RoomIsEmpty == link # "up" /\ ~stale

\* POST /messages: addMessage returns the row of a localId it knows, else
\* inserts one; a turn that is not scheduled for later goes to the room.
PostTurn(t) ==
    /\ posts[t] < MaxPosts
    /\ posts' = [posts EXCEPT ![t] = @ + 1]
    /\ \E i \in Id :
        /\ \/ /\ i \in Existing(rows, t)
              /\ rows' = rows
              /\ UNCHANGED pastVars
           \/ /\ Existing(rows, t) = {}
              /\ IsFresh(rows, i)
              /\ \E n \in Id : IsNextSeq(rows, n) /\ rows' = Inserted(rows, i, t, "user", n)
              /\ sinceRead' = sinceRead \cup (IF cursor > 0 THEN {i} ELSE {})
              /\ UNCHANGED <<handed, reached>>
        /\ IF t \in Scheduled \ due THEN UNCHANGED downlink
                                    ELSE EmitToRoom(Message(i))
    /\ UNCHANGED <<due, cancels, link, stale, uplink, unsent, bfVars, inVars,
                   faults>>

\* The 'message' handler: what the CLI posts becomes a row of the session.
\* A prompt typed at the terminal has run by then.
CliPosts(role) ==
    /\ link = "up"
    /\ Cardinality({i \in Present(rows) : rows[i].local = NoTurn /\ rows[i].role = role})
           < IF role = "user" THEN MaxTyped ELSE MaxAgentRows
    /\ \E i, n \in Id :
        /\ IsFresh(rows, i)
        /\ IsNextSeq(rows, n)
        /\ rows' = Inserted(rows, i, NoTurn, role, n)
        /\ handed' = handed \cup (IF role = "user" THEN {i} ELSE {})
        /\ reached' = reached \cup (IF role = "user" THEN {i} ELSE {})
    /\ UNCHANGED <<due, cancels, posts, netVars, bfVars, inVars,
                   sinceRead, faults>>

BecomeDue(t) ==
    /\ t \in Scheduled \ due
    /\ due' = due \cup {t}
    /\ UNCHANGED <<rows, cancels, posts, netVars, bfVars, inVars, pastVars, faults>>

\* Mutant: the tick stamps the row when it emits it.
ReleaseAndStamp(i) ==
    /\ link = "up" /\ i \in Mature(rows, due)
    /\ rows' = MarkedInvoked(rows, rows[i].local)
    /\ EmitToRoom(Message(i))
    /\ UNCHANGED <<due, cancels, posts, link, stale, uplink, unsent, bfVars,
                   inVars, pastVars, faults>>

\* One row of the 5 s tick, releaseMatureScheduledMessages: re-emitted until
\* the CLI acknowledges it.  Bound: not while its last copy is in flight.
ReleaseMature(i) ==
    /\ link = "up" /\ i \in Mature(rows, due)
    /\ Message(i) \notin Elements(downlink)
    /\ EmitToRoom(Message(i))
    /\ UNCHANGED <<rows, due, cancels, posts, link, stale, uplink, unsent,
                   bfVars, inVars, pastVars, faults>>

\* DELETE /messages/:id up to its first await: settled at once, or the CLI
\* is asked.
RequestCancel(r, i) ==
    LET settleBy(result, table) ==
            cancels' = [Settled(r, result) EXCEPT ![r].id = i]
              /\ rows' = table /\ UNCHANGED downlink
    IN
    /\ cancels[r].st = "idle"
    /\ rows[i].st # "unused" /\ rows[i].local \in Turn
    /\ \/ rows[i].st = "deleted" /\ settleBy("cancelled", rows)
       \/ rows[i].st = "invoked" /\ settleBy("sent", rows)
       \/ /\ rows[i].st = "queued"
          /\ Future(rows, due, i) \/ RoomIsEmpty
          /\ settleBy("cancelled", DeletedIfQueued(rows, i))
       \/ /\ rows[i].st = "queued"
          /\ ~Future(rows, due, i) /\ ~RoomIsEmpty
          /\ cancels' = [cancels EXCEPT ![r] =
                [st |-> "asked", id |-> i, wide |-> stale, got |-> "none"]]
          /\ EmitToRoom(Cancel(r))
          /\ UNCHANGED rows
    /\ UNCHANGED <<due, posts, link, stale, uplink, unsent, bfVars, inVars,
                   pastVars, faults>>

\* The continuation of cancelQueuedMessage once the CLI has answered.
ConfirmRemoved(r) ==
    /\ rows' = DeletedIfQueued(rows, cancels[r].id)
    /\ cancels' = Settled(r, "cancelled")

AssumeConsumed(r) ==
    LET t == rows[cancels[r].id].local
    IN  /\ rows' = MarkedInvoked(rows, t)
        /\ cancels' = Settled(r, IF Existing(rows, t) # {} THEN "sent" ELSE "cancelled")

InFlight(r) ==
    \/ Cancel(r) \in Elements(downlink)
    \/ {Ack(r, TRUE), Ack(r, FALSE)} \cap Elements(uplink) # {}

\* The 500 ms pass before every socket of the room has answered: a removal
\* already confirmed wins, otherwise the call fails and the row stays.
\* It counts as a fault only if the sole answer is still travelling.
CancelTimesOut(r) ==
    /\ cancels[r].st = "asked"
    /\ IF ~cancels[r].wide /\ InFlight(r) THEN Fault("timeouts") ELSE UNCHANGED faults
    /\ IF cancels[r].got = "removed"
       THEN ConfirmRemoved(r)
       ELSE cancels' = Settled(r, "unconfirmed") /\ UNCHANGED rows
    /\ UNCHANGED <<due, posts, netVars, bfVars, inVars, pastVars>>

\* The hub's handlers for what the CLI sends.
HubReceives ==
    /\ uplink # <<>>
    /\ uplink' = Tail(uplink)
    /\ LET p == Head(uplink) IN
       \/ /\ p.kind = "consumed"
          /\ rows' = MarkedInvoked(rows, p.turn)
          /\ UNCHANGED cancels
       \/ /\ p.kind = "ack" /\ cancels[p.req].st = "asked"
          /\ IF cancels[p.req].wide
             THEN /\ cancels' = [cancels EXCEPT ![p.req].got =
                                    IF p.removed THEN "removed" ELSE "notFound"]
                  /\ UNCHANGED rows
             ELSE IF p.removed THEN ConfirmRemoved(p.req) ELSE AssumeConsumed(p.req)
       \/ /\ p.kind = "ack" /\ cancels[p.req].st # "asked"
          /\ UNCHANGED <<rows, cancels>>
    /\ UNCHANGED <<due, posts, link, stale, downlink, unsent, bfVars, inVars,
                   pastVars, faults>>

\* GET /cli/sessions/:id/messages
HubServesBackfill ==
    /\ backfill.st = "asked"
    /\ LET page == Page(rows, due, backfill.after) IN
       backfill' = [backfill EXCEPT !.st = "answered", !.page = page,
                                    !.full = Cardinality(page) = PageLimit]
    /\ UNCHANGED <<hubVars, netVars, needsBackfill, connectedOnce, inVars,
                   pastVars, faults>>

-----------------------------------------------------------------------------
(* The CLI process.                                                        *)

\* A synchronous loop is running: a backfill page, or the drain of
\* pendingMessages at registration.
CliBusy == backfill.st = "loop" \/ (ready /\ pending # <<>>)

\* socket.emit: buffered while disconnected, lost in a dead transport.
EmitToHub(p) ==
    /\ uplink' = IF link = "up" THEN Append(uplink, p) ELSE uplink
    /\ unsent' = IF link = "down" THEN Append(unsent, p) ELSE unsent

\* The onUserMessage callback: a /clear or /compact turn empties the queue.
Enqueued(q, i) == IF rows[i].local \in ClearTurn THEN <<i>> ELSE Append(q, i)

\* handleIncomingMessage: a message the filter accepts and that parses as a
\* user message is queued, whoever posted it.
Receive(i) ==
    LET isNew == Accepts(seen, i) /\ rows[i].role = "user" IN
    /\ seen' = SeenAfter(seen, i)
    /\ cursor' = CursorAfter(cursor, seen, i, rows[i].seq)
    /\ queue' = IF isNew /\ ready THEN Enqueued(queue, i) ELSE queue
    /\ pending' = IF isNew /\ ~ready THEN Append(pending, i) ELSE pending
    /\ UNCHANGED ready

ReceiveMessage ==
    /\ ~CliBusy /\ downlink # <<>>
    /\ Head(downlink).kind = "message"
    /\ downlink' = Tail(downlink)
    /\ Receive(Head(downlink).id)
    /\ UNCHANGED <<hubVars, link, stale, uplink, unsent, bfVars, pastVars, faults>>

\* Queue positions holding localId t.
Places(q, t) == {k \in DOMAIN q : rows[q[k]].local = t}

\* q without its k-th item
Without(q, k) ==
    [j \in 1..(Len(q) - 1) |-> IF j < k THEN q[j] ELSE q[j + 1]]

\* Mutant: the CLI removes the item but answers that it did not.
ReceiveCancelAnswerNo ==
    /\ ~CliBusy /\ downlink # <<>>
    /\ Head(downlink).kind = "cancel"
    /\ downlink' = Tail(downlink)
    /\ LET r == Head(downlink).req IN
       /\ queue' = SelectSeq(queue, LAMBDA i : rows[i].local # rows[cancels[r].id].local)
       /\ EmitToHub(Ack(r, FALSE))
    /\ UNCHANGED <<hubVars, link, stale, bfVars, seen, cursor, ready, pending,
                   pastVars, faults>>

\* Mutant: the CLI reports a removal it did not make.
ReceiveCancelKeepItem ==
    /\ ~CliBusy /\ downlink # <<>>
    /\ Head(downlink).kind = "cancel"
    /\ downlink' = Tail(downlink)
    /\ EmitToHub(Ack(Head(downlink).req, ready))
    /\ UNCHANGED <<hubVars, link, stale, bfVars, inVars, pastVars, faults>>

\* cancel-queued-message: cancelByLocalId removes the first item of that
\* localId; before registration the answer is always "not removed".
ReceiveCancel ==
    /\ ~CliBusy /\ downlink # <<>>
    /\ Head(downlink).kind = "cancel"
    /\ downlink' = Tail(downlink)
    /\ LET r  == Head(downlink).req
           at == Places(queue, rows[cancels[r].id].local)
       IN  IF ready /\ at # {}
           THEN /\ \E k \in at : (\A j \in at : k <= j) /\ queue' = Without(queue, k)
                /\ EmitToHub(Ack(r, TRUE))
           ELSE EmitToHub(Ack(r, FALSE)) /\ UNCHANGED queue
    /\ UNCHANGED <<hubVars, link, stale, bfVars, seen, cursor, ready, pending,
                   pastVars, faults>>

\* The agent loop registers its callbacks, then drains pendingMessages.
Register ==
    /\ ~CliBusy /\ ~ready
    /\ ready' = TRUE
    /\ UNCHANGED <<hubVars, netVars, bfVars, seen, cursor, pending, queue,
                   pastVars, faults>>

DrainPending ==
    /\ ready /\ pending # <<>>
    /\ queue' = Enqueued(queue, Head(pending))
    /\ pending' = Tail(pending)
    /\ UNCHANGED <<hubVars, netVars, bfVars, seen, cursor, ready, pastVars, faults>>

\* collectBatch: a hub turn is taken alone, acknowledged in the same
\* synchronous call that takes it.
TakeTurn ==
    /\ ~CliBusy /\ ready /\ queue # <<>>
    /\ queue' = Tail(queue)
    /\ handed' = handed \cup {Head(queue)}
    /\ reached' = reached \cup {Head(queue)}
    /\ IF rows[Head(queue)].local \in Turn
       THEN EmitToHub(Consumed(rows[Head(queue)].local))
       ELSE UNCHANGED <<uplink, unsent>>
    /\ UNCHANGED <<hubVars, link, stale, downlink, bfVars, seen, cursor, ready,
                   pending, sinceRead, faults>>

\* The page loop of backfillMessages.
BeginPage ==
    /\ ~CliBusy /\ backfill.st = "answered"
    /\ IF backfill.page = {}
       THEN backfill' = NoRun /\ needsBackfill' = FALSE
       ELSE backfill' = [backfill EXCEPT !.st = "loop"] /\ UNCHANGED needsBackfill
    /\ UNCHANGED <<hubVars, netVars, connectedOnce, inVars, pastVars, faults>>

PageStep(i) ==
    /\ backfill.st = "loop"
    /\ i \in backfill.page
    /\ \A j \in backfill.page : rows[i].seq <= rows[j].seq
    /\ Receive(i)
    /\ IF backfill.page # {i}
       THEN /\ backfill' = [backfill EXCEPT !.page = @ \ {i}]
            /\ UNCHANGED needsBackfill
       ELSE LET next == IF rows[i].seq > cursor' THEN rows[i].seq ELSE cursor' IN
            IF backfill.full
            THEN backfill' = Asking(next) /\ UNCHANGED needsBackfill
            ELSE backfill' = NoRun /\ needsBackfill' = FALSE
    /\ UNCHANGED <<hubVars, netVars, connectedOnce, pastVars, faults>>

\* The request fails; nothing retries it before the next connect.
BackfillFails ==
    /\ backfill.st \in {"asked", "answered"}
    /\ Fault("failures")
    /\ backfill' = NoRun /\ needsBackfill' = TRUE
    /\ UNCHANGED <<hubVars, netVars, connectedOnce, inVars, pastVars>>

\* The 'connect' handler: the send buffer is flushed; a reconnect starts a
\* backfill from the cursor, or joins the run in flight.
Connect ==
    /\ ~CliBusy /\ link = "down"
    /\ link' = "up" /\ connectedOnce' = TRUE
    /\ uplink' = unsent /\ unsent' = <<>>
    /\ LET wanted == connectedOnce \/ needsBackfill IN
       IF wanted /\ backfill.st = "idle"
       THEN /\ backfill' = IF cursor = 0 THEN NoRun ELSE Asking(cursor)
            /\ needsBackfill' = (cursor # 0)
       ELSE needsBackfill' = wanted /\ UNCHANGED backfill
    /\ UNCHANGED <<hubVars, stale, downlink, inVars, pastVars, faults>>

-----------------------------------------------------------------------------
(* The transport and the processes' failures.                              *)

\* The transport breaks: what was in flight is lost, and each side notices
\* at once or later.
Drop ==
    /\ link = "up" /\ Fault("drops")
    /\ link' \in IF CliBusy THEN {"dead"} ELSE {"dead", "down"}
    /\ stale' \in BOOLEAN
    /\ needsBackfill' = (needsBackfill \/ link' = "down")
    /\ downlink' = <<>> /\ uplink' = <<>>
    /\ UNCHANGED <<hubVars, unsent, backfill, connectedOnce, inVars, pastVars>>

CliNoticesDrop ==
    /\ ~CliBusy /\ link = "dead"
    /\ link' = "down" /\ needsBackfill' = TRUE
    /\ UNCHANGED <<hubVars, stale, downlink, uplink, unsent, backfill,
                   connectedOnce, inVars, pastVars, faults>>

HubNoticesDrop ==
    /\ stale /\ stale' = FALSE
    /\ UNCHANGED <<hubVars, link, downlink, uplink, unsent, bfVars, inVars,
                   pastVars, faults>>

\* The hub process restarts: the table survives; rooms, cancel calls and
\* HTTP requests in flight do not.
HubRestart ==
    /\ Fault("drops")
    /\ link' = IF link = "up" THEN "dead" ELSE link
    /\ stale' = FALSE
    /\ downlink' = <<>> /\ uplink' = <<>>
    /\ cancels' = [r \in Request |-> IF cancels[r].st = "asked"
                                     THEN [cancels[r] EXCEPT !.st = "unconfirmed"]
                                     ELSE cancels[r]]
    /\ IF backfill.st = "asked"
       THEN backfill' = NoRun /\ needsBackfill' = TRUE
       ELSE UNCHANGED <<backfill, needsBackfill>>
    /\ UNCHANGED <<rows, due, posts, unsent, connectedOnce, inVars, pastVars>>

\* The CLI process dies and a new one serves the session: nothing of its
\* memory survives.
CliRestart ==
    /\ Fault("restarts")
    /\ link' = "down"
    /\ stale' \in IF link = "up" THEN BOOLEAN ELSE {stale}
    /\ downlink' = <<>> /\ uplink' = <<>> /\ unsent' = <<>>
    /\ seen' = <<>> /\ cursor' = 0
    /\ backfill' = NoRun /\ needsBackfill' = FALSE /\ connectedOnce' = FALSE
    /\ ready' = FALSE /\ pending' = <<>> /\ queue' = <<>>
    /\ handed' = {} /\ sinceRead' = {}
    /\ UNCHANGED <<hubVars, reached>>

-----------------------------------------------------------------------------
CliStep ==
    \/ ReceiveMessage \/ ReceiveCancel \/ Register \/ DrainPending \/ TakeTurn
    \/ BeginPage \/ (\E i \in Id : PageStep(i)) \/ Connect \/ CliNoticesDrop

Next ==
    \/ \E t \in Turn : PostTurn(t) \/ BecomeDue(t)
    \/ \E role \in {"user", "agent"} : CliPosts(role)
    \/ \E i \in Id : ReleaseMature(i) \/ (\E r \in Request : RequestCancel(r, i))
    \/ \E r \in Request : CancelTimesOut(r)
    \/ HubReceives \/ HubServesBackfill
    \/ CliStep
    \/ BackfillFails \/ Drop \/ HubNoticesDrop \/ HubRestart \/ CliRestart

Spec == Init /\ [][Next]_vars

\* The event loops run and the network delivers; users and faults may stop.
Fairness ==
    /\ WF_vars(Register) /\ WF_vars(DrainPending) /\ WF_vars(TakeTurn)
    /\ WF_vars(ReceiveMessage) /\ WF_vars(ReceiveCancel)
    /\ WF_vars(BeginPage) /\ WF_vars(\E i \in Id : PageStep(i))
    /\ WF_vars(Connect) /\ WF_vars(CliNoticesDrop)
    /\ WF_vars(HubReceives) /\ WF_vars(HubServesBackfill)
    /\ \A i \in Id : WF_vars(ReleaseMature(i))

FairSpec == Spec /\ Fairness

-----------------------------------------------------------------------------
(* Properties.                                                             *)

HubType ==
    /\ rows \in [Id -> Row]
    /\ due \in SUBSET Scheduled
    /\ cancels \in [Request -> Call]
    /\ posts \in [Turn -> 0..MaxPosts]
NetType ==
    /\ link \in {"up", "dead", "down"} /\ stale \in BOOLEAN
    /\ downlink \in Seq(Packet) /\ uplink \in Seq(Reply) /\ unsent \in Seq(Reply)
BackfillType ==
    /\ backfill \in Run /\ needsBackfill \in BOOLEAN /\ connectedOnce \in BOOLEAN
InputType ==
    /\ seen \in Seq(Id) /\ cursor \in 0..MaxRows
    /\ ready \in BOOLEAN /\ pending \in Seq(Id) /\ queue \in Seq(Id)
PastType ==
    handed \in SUBSET Id /\ reached \in SUBSET Id /\ sinceRead \in SUBSET Id
FaultsType == faults \in [FaultKind -> Nat]

\* Every variable keeps its type.
TypeOK == HubType /\ NetType /\ BackfillType /\ InputType /\ PastType /\ FaultsType

\* A turn scheduled for later is in no CLI queue and reaches no agent before
\* its time: the room emit, the tick and the backfill query each hold it back.
NoEarlyHandOff ==
    \A i \in reached \cup Elements(queue) \cup Elements(pending) : ~Future(rows, due, i)

\* Rows somewhere between the table and an agent, and rows that may be there.
Travelling ==
    reached \cup Elements(queue) \cup Elements(pending) \cup backfill.page
      \cup {i \in Id : Message(i) \in Elements(downlink)}
Ripe == {i \in Id : rows[i].st # "unused" /\ ~Future(rows, due, i)}

\* No packet, response or queue carries a row that does not exist or whose
\* time has not come: the inductive form of NoEarlyHandOff.
NoneTravelsEarly == Travelling \subseteq Ripe

\* A row is in line, or was handed to this process's agent, once at most.
RunsOnce(i) ==
    LET line == pending \o queue
        places == {k \in DOMAIN line : line[k] = i}
    IN  Cardinality(places) + (IF i \in handed THEN 1 ELSE 0) <= 1

\* One process runs a turn sent from the web at most once, whatever mixture of
\* retried POSTs, tick re-emissions and backfilled copies reaches it.
TurnsRunOnce == \A i \in Id : rows[i].local \in Turn => RunsOnce(i)

\* Once the row of a turn is deleted by a cancel, no agent starts that turn.
NoRunAfterCancel ==
    [][\A i \in Id : rows[i].st = "deleted" /\ i \in handed' => i \in handed]_vars

\* A row leaves the queued state once: invoked and deleted rows never change,
\* although cancels, acks and repeated acks race for them.
SettledRowsStay ==
    [][\A i \in Id : rows[i].st \in {"invoked", "deleted"} => rows'[i] = rows[i]]_vars

OnItsWay(i) ==
    i \in Elements(queue) \cup Elements(pending) \/ Message(i) \in Elements(downlink)

\* "Only messages-consumed settles them": a turn the table shows as invoked
\* was handed to an agent, or sits where it will be.
InvokedTurnArrives(i) ==
    rows[i].st = "invoked" /\ rows[i].local \in Turn => i \in reached \/ OnItsWay(i)

\* A turn the CLI has read and of which every cancel was answered "already
\* sent" was indeed handed over, or sits where it will be.
SentAnswersAreTrue ==
    \A i \in Elements(seen) :
        (\A r \in Request : cancels[r].st # "idle" /\ rows[cancels[r].id].local = rows[i].local
                               => cancels[r].st = "sent")
        => InvokedTurnArrives(i)

\* The CLI is connected, idle, and has nothing left to read.
CaughtUp == link = "up" /\ backfill.st = "idle" /\ downlink = <<>>

\* A CLI that has read a message and is caught up has read every immediate turn
\* inserted since: between live packets and backfill there is no gap.
ReconnectPicksUp ==
    CaughtUp => \A i \in sinceRead \ Elements(seen) :
                    rows[i].st # "queued" \/ rows[i].local \in Scheduled

\* A scheduled turn whose time has come reaches an agent, across lost
\* transports and restarts: the tick repeats it until it is acknowledged.
DueTurnsReachAgent == \A i \in Id : i \in Mature(rows, due) ~> i \in reached

=============================================================================
