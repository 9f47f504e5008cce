--------------------------- MODULE ControlRelease ---------------------------
(***************************************************************************)
(* Releasing a Codex session from SHAPI so that another program can open   *)
(* its thread (syncEngine.ts, releaseSessionControl), together with what   *)
(* the hub believes about the session while that happens: it is active as  *)
(* long as keep-alives arrive (sessionCache.ts), thinking when the process *)
(* or a freshly queued turn says so, and reachable for an RPC while the    *)
(* socket has registered the method (rpcRegistry.ts).  The process refuses *)
(* the hand-off or shuts down (localHandoff.ts, runnerLifecycle.ts).       *)
(*                                                                         *)
(* Time passes in ticks of 15 s, the unit of the code's time-outs; an age  *)
(* or a delay counts ticks.  A tick happens only after everything that a   *)
(* working process, link or timer does well within 15 s has happened.      *)
(***************************************************************************)
EXTENDS Naturals, Sequences

CONSTANTS
    Turn,           \* turns sent from the web
    NoTurn,
    GraceTicks,     \* QUEUED_MESSAGE_THINKING_GRACE_MS, 15 s
    ExpiryTicks,    \* sessionTimeoutMs, 30 s
    RpcTicks,       \* DEFAULT_RPC_TIMEOUT_MS, 30 s
    WaitTicks,      \* waitForSessionInactive, 15 s
    MaxCalls,       \* bound: release requests
    MaxBreaks,      \* bound: lost transports
    MaxStalls,      \* bound: periods in which the link delivers late
    MaxBacklog      \* bound: packets up to which a stalled link takes keep-alives

ASSUME ReleaseAssumption ==
    /\ {GraceTicks, ExpiryTicks, RpcTicks, WaitTicks} \subseteq Nat \ {0}
    /\ {MaxCalls, MaxBreaks, MaxStalls, MaxBacklog} \subseteq Nat
    /\ NoTurn \notin Turn

VARIABLES
    active,     \* hub: session.active
    age,        \* hub: ticks since session.activeAt
    spin,       \* hub: session.thinking
    grace,      \* hub: ticks until pendingThinkingUntil
    external,   \* hub: metadata.controlOwner is 'external'
    rows,       \* hub: the turns in the messages table
    registered, \* hub: the RPC registry knows a socket for the session
    call,       \* hub: the release under way; while it is, its gate is set
    answer,     \* hub: what the last release answered
    proc,       \* CLI: "running", "closing", "stopped" (agent shut down), "gone"
    chain,      \* CLI: turns read whose handlers await (userMessageChain), in order
    queue,      \* CLI: MessageQueue2
    seen,       \* CLI: turns read so far
    turn,       \* CLI: the turn the launcher has taken and not finished
    thinking,   \* CLI: session.thinking, set once the agent reports the turn
    handed,     \* CLI: a hand-off has been accepted
    beat,       \* CLI: keep-alive sent since the last tick
    link,       \* "up", "stalled" (delivers late or never), "down"
    uplink,     \* packets on their way to the hub
    unsent,     \* CLI: socket.io send buffer
    downlink,   \* packets on their way to the CLI
    faults      \* lost transports and stalls so far

presence == <<active, age, spin, grace>>
hubVars == <<presence, external, rows, registered, call, answer>>
cliVars == <<proc, chain, queue, seen, turn, thinking, handed, beat>>
netVars == <<link, uplink, unsent, downlink>>
vars == <<hubVars, cliVars, netVars, faults>>

OldAge == ExpiryTicks + 1   \* older does not matter
Packet == [kind : {"alive"}, thinking : BOOLEAN, age : 0..OldAge]
            \cup [kind : {"consumed"}, turn : Turn]
            \cup [kind : {"end", "register"}]
            \cup [kind : {"reply"}, call : 1..MaxCalls, ok : BOOLEAN]
Request == [kind : {"turn"}, turn : Turn] \cup [kind : {"handoff"}, call : 1..MaxCalls]

Alive(b)    == [kind |-> "alive", thinking |-> b, age |-> 0]
Consumed(t) == [kind |-> "consumed", turn |-> t]
End         == [kind |-> "end"]
Register    == [kind |-> "register"]
Reply(c, b) == [kind |-> "reply", call |-> c, ok |-> b]
Deliver(t)  == [kind |-> "turn", turn |-> t]
Handoff(c)  == [kind |-> "handoff", call |-> c]

\* A release: `left` counts down to the time-out of the RPC, then of the wait.
Call == [st : {"idle", "asked", "waiting"}, id : 0..MaxCalls, left : Nat]

Lesser(m, n) == IF m < n THEN m ELSE n

\* The process has just connected for the first time.
Init ==
    /\ active = FALSE /\ age = OldAge /\ spin = FALSE /\ grace = 0
    /\ external = FALSE
    /\ rows = [t \in Turn |-> "none"]
    /\ registered = FALSE
    /\ call = [st |-> "idle", id |-> 0, left |-> 0]
    /\ answer = "none"
    /\ proc = "running" /\ chain = <<>> /\ queue = <<>> /\ seen = {}
    /\ turn = NoTurn /\ thinking = FALSE /\ handed = FALSE /\ beat = FALSE
    /\ link = "up" /\ uplink = <<Register, Alive(FALSE)>>
    /\ unsent = <<>> /\ downlink = <<>>
    /\ faults = [breaks |-> 0, stalls |-> 0]

-----------------------------------------------------------------------------
(* The hub: what it believes about the session.                            *)

Queued == {t \in Turn : rows[t] = "queued"}

\* handleSessionAlive: thinking is kept through the grace of a queued turn.
Spins(b) == b \/ grace > 0

\* Mutant: activeAt is not moved.
HearAliveOnly(p) ==
    /\ active' = TRUE /\ age' = age
    /\ spin' = Spins(p.thinking)
    /\ grace' = IF p.thinking THEN 0 ELSE grace

HearAlive(p) ==
    /\ active' = TRUE
    /\ age' = Lesser(age, p.age)
    /\ spin' = Spins(p.thinking)
    /\ grace' = IF p.thinking THEN 0 ELSE grace

\* handleSessionEnd, and what expireInactive does to a session it expires.
GoQuiet == active' = FALSE /\ spin' = FALSE /\ grace' = 0 /\ UNCHANGED age
HearEnd == IF active \/ spin THEN GoQuiet ELSE UNCHANGED presence

\* expireInactive, every 5 s.
Expired == active /\ age > ExpiryTicks
Expire ==
    /\ Expired
    /\ GoQuiet
    /\ UNCHANGED <<external, rows, registered, call, answer, cliVars, netVars, faults>>

\* Mutant: an inactive session starts to spin as well.
MarkQueuedAlways == spin' = TRUE /\ grace' = GraceTicks /\ UNCHANGED <<active, age>>

\* markMessageQueued: only an active session starts to spin.
MarkQueued ==
    IF active THEN spin' = TRUE /\ grace' = GraceTicks /\ UNCHANGED <<active, age>>
              ELSE UNCHANGED presence

\* POST /messages checks that the session is active, then awaits the
\* preparation of skills before it calls sendMessage, which does not.
AcceptPost(t) ==
    /\ rows[t] = "none" /\ active
    /\ rows' = [rows EXCEPT ![t] = "accepted"]
    /\ UNCHANGED <<presence, external, registered, call, answer, cliVars, netVars, faults>>
RefusesPost == call.st # "idle" \/ external
PostTurn(t) ==
    /\ rows[t] = "accepted"
    /\ \/ /\ RefusesPost
          /\ rows' = [rows EXCEPT ![t] = "none"]
          /\ UNCHANGED <<presence, downlink>>
       \/ /\ ~RefusesPost
          /\ rows' = [rows EXCEPT ![t] = "queued"]
          /\ downlink' = IF link = "down" THEN downlink ELSE Append(downlink, Deliver(t))
          /\ MarkQueued
    /\ UNCHANGED <<external, registered, call, answer, cliVars, link, uplink,
                   unsent, faults>>

-----------------------------------------------------------------------------
(* The hub: the release.                                                   *)

Ends(result) == call' = [call EXCEPT !.st = "idle", !.left = 0] /\ answer' = result

\* Mutant: the roll-back clears the marker.
Cleared(owned) == FALSE

\* clearSessionControlOwner deletes the field from its copy, and the write
\* carries the stored owner forward again: the marker stays.
RolledBack(owned) == owned

\* Nothing is contacted when the session is not active, and a session that
\* is marked already is released at once, without a change.
ReleaseOffline ==
    /\ call.st = "idle" /\ ~active /\ ~external
    /\ external' = TRUE
    /\ answer' = "offline"
    /\ UNCHANGED <<presence, rows, registered, call, cliVars, netVars, faults>>

\* Mutant: the hub leaves the look at the queue to the process.
ReleasableQueued == active /\ ~spin

\* Of the reasons to refuse an active session these are the ones that turns
\* give; open requests and background tasks only refuse more.
Releasable == active /\ ~spin /\ Queued = {}

\* A session that is thinking or has queued turns is refused without a trace.
\* Else the marker is written before the RPC.  A method without a registered,
\* connected socket is a missing target, and the marker is rolled back.
Release ==
    /\ call.st = "idle" /\ call.id < MaxCalls
    /\ Releasable
    /\ \/ /\ registered
          /\ external' = TRUE
          /\ call' = [st |-> "asked", id |-> call.id + 1, left |-> RpcTicks]
          /\ downlink' = Append(downlink, Handoff(call.id + 1))
          /\ answer' = "none"
       \/ /\ ~registered
          /\ external' = RolledBack(TRUE)
          /\ call' = [call EXCEPT !.id = @ + 1] /\ answer' = "error"
          /\ UNCHANGED downlink
    /\ UNCHANGED <<presence, rows, registered, cliVars, link, uplink, unsent, faults>>

\* The runner's reply: refused, or wait for the session to become inactive.
\* Replies to calls that have timed out are dropped by socket.io.
HearReply(p) ==
    IF call.st = "asked" /\ p.call = call.id
    THEN \/ /\ ~p.ok
            /\ external' = RolledBack(external) /\ Ends("error")
         \/ /\ p.ok /\ Queued # {}
            /\ Ends("error") /\ UNCHANGED external
         \/ /\ p.ok /\ Queued = {}
            /\ call' = [call EXCEPT !.st = "waiting", !.left = WaitTicks]
            /\ UNCHANGED <<external, answer>>
    ELSE UNCHANGED <<external, call, answer>>

\* Mutant: without a reply the call goes on to wait for inactivity.
ReplyPresumed ==
    /\ call' = [call EXCEPT !.st = "waiting", !.left = WaitTicks]
    /\ UNCHANGED <<external, answer>>

\* No reply in time: the marker is kept and the caller told that it is unclear.
ReplyOverdue ==
    /\ Ends("error")
    /\ UNCHANGED external

\* Mutant: the RPC has no time-out of its own.
RpcTimesOutConnected ==
    /\ call.st = "asked" /\ call.left = 0 /\ registered
    /\ ReplyOverdue
    /\ UNCHANGED <<presence, rows, registered, cliVars, netVars, faults>>

RpcTimesOut ==
    /\ call.st = "asked" /\ call.left = 0
    /\ ReplyOverdue
    /\ UNCHANGED <<presence, rows, registered, cliVars, netVars, faults>>

\* waitForSessionInactive looks every 250 ms.
WaitEnds ==
    /\ call.st = "waiting"
    /\ \/ ~active /\ Ends("success")
       \/ active /\ call.left = 0 /\ Ends("error")
    /\ UNCHANGED <<presence, external, rows, registered, cliVars, netVars, faults>>

HubReceives ==
    /\ uplink # <<>>
    /\ uplink' = Tail(uplink)
    /\ LET p == Head(uplink) IN
        \/ /\ p.kind = "alive" /\ HearAlive(p)
           /\ UNCHANGED <<external, rows, registered, call, answer>>
        \/ /\ p.kind = "end" /\ HearEnd
           /\ UNCHANGED <<external, rows, registered, call, answer>>
        \/ /\ p.kind = "consumed"
           /\ rows' = [rows EXCEPT ![p.turn] = "invoked"]
           /\ UNCHANGED <<presence, external, registered, call, answer>>
        \/ /\ p.kind = "register" /\ registered' = TRUE
           /\ UNCHANGED <<presence, external, rows, call, answer>>
        \/ /\ p.kind = "reply" /\ HearReply(p)
           /\ UNCHANGED <<presence, rows, registered>>
    /\ UNCHANGED <<cliVars, link, unsent, downlink, faults>>

-----------------------------------------------------------------------------
(* The CLI process.                                                        *)

\* socket.emit is buffered while disconnected; socket.volatile.emit is not,
\* and is also dropped when the transport is not writable.
Emit(p) ==
    IF link = "down" THEN unsent' = Append(unsent, p) /\ UNCHANGED uplink
                     ELSE uplink' = Append(uplink, p) /\ UNCHANGED unsent
EmitVolatile(p) ==
    /\ UNCHANGED unsent
    /\ \/ link # "up" /\ UNCHANGED uplink
       \/ /\ link # "down"
          /\ link = "stalled" => Len(uplink) < MaxBacklog
          /\ uplink' = Append(uplink, p)

\* SessionBase sends a keep-alive every 2 s until cleanup stops the timer;
\* one a tick is enough here.
KeepAlive ==
    /\ proc = "running" /\ ~beat
    /\ beat' = TRUE
    /\ EmitVolatile(Alive(thinking))
    /\ UNCHANGED <<hubVars, proc, chain, queue, seen, turn, thinking, handed, link,
                   downlink, faults>>

\* The hub's new-message, and the backfill after a reconnect (in detail in
\* TurnDelivery): the handler of a turn that was not read before joins the
\* chain.
Read(t) ==
    /\ seen' = seen \cup {t}
    /\ chain' = IF t \in seen THEN chain ELSE Append(chain, t)
    /\ UNCHANGED <<proc, queue, turn, thinking, handed, beat>>
ReceiveTurn ==
    /\ proc # "gone" /\ downlink # <<>> /\ Head(downlink).kind = "turn"
    /\ downlink' = Tail(downlink)
    /\ Read(Head(downlink).turn)
    /\ UNCHANGED <<hubVars, link, uplink, unsent, faults>>
BackfillTurn(t) ==
    /\ proc # "gone" /\ link = "up" /\ faults.breaks > 0
    /\ t \in Queued \ seen
    /\ Read(t)
    /\ UNCHANGED <<hubVars, netVars, faults>>

\* A handler has awaited the list of slash commands: the turn is queued, alone
\* if it is a command of the agent, or it is a command handled here.
QueueTurn ==
    /\ proc # "gone" /\ chain # <<>>
    /\ chain' = Tail(chain)
    /\ \/ /\ queue' \in {Append(queue, Head(chain)), <<Head(chain)>>}
          /\ UNCHANGED <<uplink, unsent>>
       \/ /\ Emit(Consumed(Head(chain)))
          /\ UNCHANGED queue
    /\ UNCHANGED <<hubVars, proc, seen, turn, thinking, handed, beat, link, downlink,
                   faults>>

\* The launcher takes a turn, which is acknowledged at once; the thread is
\* started or resumed before the agent reports the turn as started.
TakeTurn ==
    /\ proc = "running" /\ turn = NoTurn /\ queue # <<>>
    /\ turn' = Head(queue) /\ queue' = Tail(queue)
    /\ Emit(Consumed(Head(queue)))
    /\ UNCHANGED <<hubVars, proc, chain, seen, thinking, handed, beat, link, downlink,
                   faults>>
AgentStarts ==
    /\ proc = "running" /\ turn # NoTurn /\ ~thinking
    /\ thinking' = TRUE
    /\ EmitVolatile(Alive(TRUE))
    /\ UNCHANGED <<hubVars, proc, chain, queue, seen, turn, handed, beat, link, downlink,
                   faults>>

\* The turn ends, fails to start, or is aborted by the shutdown.
TurnEnds ==
    /\ proc # "gone" /\ turn # NoTurn
    /\ turn' = NoTurn /\ thinking' = FALSE
    /\ EmitVolatile(Alive(FALSE))
    /\ UNCHANGED <<hubVars, proc, chain, queue, seen, handed, beat, link, downlink, faults>>

\* canReleaseControl, which does not see the chain, and the reply before
\* setImmediate starts the cleanup.
Refuses == thinking \/ queue # <<>>
ReceiveHandoff ==
    /\ proc # "gone" /\ downlink # <<>> /\ Head(downlink).kind = "handoff"
    /\ downlink' = Tail(downlink)
    /\ uplink' = Append(uplink, Reply(Head(downlink).call, ~Refuses))
    /\ proc' = IF ~Refuses /\ proc = "running" THEN "closing" ELSE proc
    /\ handed' = (handed \/ ~Refuses)
    /\ UNCHANGED <<hubVars, chain, queue, seen, turn, thinking, beat, link, unsent, faults>>

\* SIGTERM, Ctrl-C, or the end of the agent loop.
Quit ==
    /\ proc = "running" /\ proc' = "closing"
    /\ UNCHANGED <<hubVars, chain, queue, seen, turn, thinking, handed, beat, netVars, faults>>

\* cleanup: the agent is shut down, then session-end is sent, then the socket
\* is flushed, for at most 5 s, and closed.
StopAgent ==
    /\ proc = "closing" /\ proc' = "stopped"
    /\ Emit(End)
    /\ UNCHANGED <<hubVars, chain, queue, seen, turn, thinking, handed, beat, link, downlink,
                   faults>>
Exit ==
    /\ proc = "stopped" /\ proc' = "gone"
    /\ unsent' = <<>>
    /\ UNCHANGED <<hubVars, chain, queue, seen, turn, thinking, handed, beat, link, uplink,
                   downlink, faults>>
Crash ==
    /\ proc # "gone" /\ proc' = "gone"
    /\ unsent' = <<>>
    /\ UNCHANGED <<hubVars, chain, queue, seen, turn, thinking, handed, beat, link, uplink,
                   downlink, faults>>

-----------------------------------------------------------------------------
(* The transport and the clock.                                            *)

Disconnected == link' = "down" /\ registered' = FALSE /\ uplink' = <<>> /\ downlink' = <<>>

Stall ==
    /\ link = "up" /\ faults.stalls < MaxStalls
    /\ link' = "stalled" /\ faults' = [faults EXCEPT !.stalls = @ + 1]
    /\ UNCHANGED <<hubVars, cliVars, uplink, unsent, downlink>>
Recover ==
    /\ link = "stalled" /\ link' = "up"
    /\ UNCHANGED <<hubVars, cliVars, uplink, unsent, downlink, faults>>
Break ==
    /\ link # "down" /\ faults.breaks < MaxBreaks
    /\ faults' = [faults EXCEPT !.breaks = @ + 1]
    /\ Disconnected
    /\ UNCHANGED <<presence, external, rows, call, answer, cliVars, unsent>>
\* The hub reads what a process had sent before it went.
NoticeExit ==
    /\ proc = "gone" /\ link # "down" /\ uplink = <<>>
    /\ Disconnected
    /\ UNCHANGED <<presence, external, rows, call, answer, cliVars, unsent, faults>>

\* socket.io sends its buffer, then the connect handler registers the RPC
\* methods again and reports the session alive.
Connect ==
    /\ proc # "gone" /\ link = "down"
    /\ link' = "up"
    /\ uplink' = unsent \o <<Register, Alive(FALSE)>>
    /\ unsent' = <<>>
    /\ UNCHANGED <<hubVars, cliVars, downlink, faults>>

\* What happens before 15 s have passed: a link that is up has delivered, the
\* keep-alive timer has fired, the 5 s sweep and the timers of a call have run.
Due ==
    \/ link = "up" /\ (uplink # <<>> \/ (proc # "gone" /\ downlink # <<>>))
    \/ proc = "running" /\ ~beat
    \/ Expired
    \/ call.st # "idle" /\ call.left = 0
    \/ call.st = "waiting" /\ ~active

Older(p) == IF p.kind = "alive" THEN [p EXCEPT !.age = Lesser(@ + 1, OldAge)] ELSE p

Less(n) == IF n = 0 THEN 0 ELSE n - 1
Tick ==
    /\ ~Due
    /\ age' = Lesser(age + 1, OldAge)
    /\ grace' = Less(grace)
    /\ call' = [call EXCEPT !.left = Less(@)]
    /\ beat' = FALSE
    /\ uplink' = [k \in DOMAIN uplink |-> Older(uplink[k])]
    /\ UNCHANGED <<active, spin, external, rows, registered, answer, proc, chain,
                   queue, seen, turn, thinking, handed, link, unsent, downlink, faults>>

-----------------------------------------------------------------------------
HubStep == Expire \/ RpcTimesOut \/ WaitEnds \/ HubReceives
CliStep ==
    \/ KeepAlive \/ ReceiveTurn \/ (\E t \in Turn : BackfillTurn(t))
    \/ QueueTurn \/ TakeTurn \/ AgentStarts \/ TurnEnds
    \/ ReceiveHandoff \/ StopAgent \/ Exit

Next ==
    \/ \E t \in Turn : AcceptPost(t) \/ PostTurn(t)
    \/ ReleaseOffline \/ Release
    \/ HubStep \/ CliStep
    \/ Quit \/ Crash
    \/ Stall \/ Recover \/ Break \/ NoticeExit \/ Connect
    \/ Tick

Spec == Init /\ [][Next]_vars

\* The event loops run, the clock ticks, a link that is up delivers, a lost
\* one is opened again; the agent, the user and the faults may stop.
Fairness ==
    /\ WF_vars(Tick) /\ WF_vars(Expire) /\ WF_vars(RpcTimesOut) /\ WF_vars(WaitEnds)
    /\ WF_vars(link = "up" /\ HubReceives)
    /\ WF_vars(KeepAlive) /\ WF_vars(link = "up" /\ ReceiveTurn)
    /\ WF_vars(link = "up" /\ ReceiveHandoff)
    /\ WF_vars(QueueTurn) /\ WF_vars(TakeTurn) /\ WF_vars(Connect)

FairSpec == Spec /\ Fairness

-----------------------------------------------------------------------------
(* Properties.                                                             *)

PresenceType ==
    /\ active \in BOOLEAN /\ age \in 0..OldAge
    /\ spin \in BOOLEAN /\ grace \in 0..GraceTicks
ReleaseType ==
    /\ external \in BOOLEAN /\ registered \in BOOLEAN
    /\ rows \in [Turn -> {"none", "accepted", "queued", "invoked"}]
    /\ call \in Call
    /\ answer \in {"none", "offline", "error", "success"}
CliType ==
    /\ proc \in {"running", "closing", "stopped", "gone"}
    /\ chain \in Seq(Turn) /\ queue \in Seq(Turn) /\ seen \in SUBSET Turn /\ turn \in Turn \cup {NoTurn}
    /\ thinking \in BOOLEAN /\ handed \in BOOLEAN /\ beat \in BOOLEAN
NetType ==
    /\ link \in {"up", "stalled", "down"}
    /\ uplink \in Seq(Packet) /\ unsent \in Seq(Packet) /\ downlink \in Seq(Request)
    /\ faults \in [{"breaks", "stalls"} -> Nat]

\* Every variable keeps its type.
TypeOK == PresenceType /\ ReleaseType /\ CliType /\ NetType

\* A session shown as inactive is not shown as thinking, and no grace period
\* is left that would make it spin when it comes back.
InactiveIsQuiet == active \/ (~spin /\ grace = 0)

\* A process that has given the thread away is marked as externally owned, so
\* that no later send or resume runs a SHAPI turn in it; in particular after
\* requests that timed out, were repeated, or met a lost transport.
HandedOffIsMarked == handed => external

\* A release that asked the runner and answers success has stopped it: the
\* process that held the thread starts no turn any more.
SuccessMeansStopped == answer = "success" => proc # "running"

\* An accepted hand-off abandons no turn that waits on the way to the agent: in
\* the hub's table, on its way to the process, or read and still in the chain,
\* which the process does not look at before it accepts.
HandoffAbandonsNone == [][~handed /\ handed' => Queued = {} /\ chain = <<>>]_vars

\* Not checked by a run, for the code breaks it when the start of a turn takes
\* longer than the grace (see the README):
\* "Refusing while a turn or queued delivery exists is safer than claiming a
\* message was delivered during the handoff": an accepted hand-off closes no
\* process that has taken a turn and not finished it.
ReleaseLosesNoTurn == [][~handed /\ handed' => turn = NoTurn]_vars

\* What the hub shows converges to the truth for good.  A process on a working
\* link is shown as active: no late session-end or expiry hides it.  A session
\* whose process has gone is shown as inactive, however the process ended and
\* whatever it had still under way.  Once the agent has no turn left the
\* session stops being shown as thinking.
DisplayConverges ==
    /\ <>[](proc = "running" /\ link = "up") => <>[]active
    /\ <>[](proc = "gone") => <>[]~active
    /\ <>[](turn = NoTurn) => <>[]~spin

\* Every release gets an answer, so that its gate does not block the session.
ReleaseAnswers == call.st # "idle" ~> call.st = "idle"
=============================================================================
