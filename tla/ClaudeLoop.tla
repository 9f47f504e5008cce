----------------------------- MODULE ClaudeLoop -----------------------------
(***************************************************************************)
(* What one CLI process does with the user turns of its memory queue when  *)
(* the agent is Claude: runLocalRemoteLoop alternates the local launcher   *)
(* (Claude owns the terminal) and the remote launcher, whose main loop     *)
(* starts one Claude process after another, feeds it turns through         *)
(* nextMessage and asks the user about tool calls through the permission   *)
(* handler.                                                                *)
(*                                                                         *)
(* The CLI is one JavaScript thread.  A wake-up of the queue's waiter is a  *)
(* chain of microtasks: no RPC and no line of Claude's output is handled   *)
(* before it ends (Settled), only the synchronous backfill loop can push   *)
(* once more.  Everything can come in while a flush of the outgoing        *)
(* messages waits for its lock, which lets go in a task of its own         *)
(* (lock.ts:32-37): a fetch of a turn begins with one, a launch ends with  *)
(* one.  The Claude process and the user act whenever they like.           *)
(***************************************************************************)
EXTENDS Integers, Sequences, SequencesExt

CONSTANTS
    Mode,           \* values of the mode hash: permission mode, model, prompts...
    RestartMode,    \* the hash of the mode an approved plan is restarted with
    NoMode,         \* "null" for a mode
    None,           \* "null" for a pending item or a permission request
    Prompts,        \* the modes and kinds of the turns that arrive
    MaxTurns,       \* bound: user turns that arrive
    Bound           \* bounds: aborts, switches, cancelled turns, permission
                    \*   requests, and what a process does unasked: a result of
                    \*   an autonomous turn, an end

Cause == {"abort", "switch", "cancel", "request", "unasked"}

ASSUME LoopAssumption ==
    /\ RestartMode \in Mode /\ NoMode \notin Mode
    /\ Prompts \subseteq [mode : Mode, kind : {"plain", "clear", "compact"}]
    /\ MaxTurns \in Nat
    /\ Bound \in [Cause -> Nat]

VARIABLES
    mode,       \* which launcher runs: "local", "remote", or "over"
    stage,      \* where it is, see TypeOK
    onFailure,  \* getLocalLaunchExitReason of this session
    exitReason, \* exitReason of the running launcher, "none" for null
    aborted,    \* the running launch's AbortController has been aborted
    queue,      \* MessageQueue2.queue
    stray,      \* a fetch of a launch that is over is MessageQueue2.waiter, and
                \*   its main loop still runs ("here") or has ended ("gone")
    pending,    \* runMainLoop's pending: taken from the queue, put aside
    modeHash,   \* runMainLoop's modeHash, while a launch ends that launch's
    launched,   \* the mode the running Claude process was started with
    proc,       \* the process: "none", "alive", "exited" (with code 0)
    inbox,      \* items written to it that it has not finished
    fetch,      \* scheduleNextMessage: "none", "flushing" and "waiting" in
                \*   nextMessage, "ended" (input ended)
    request,    \* permission request shown to the user: a tool, a plan or None
    refused,    \* the refused call's tool_result is on its way from Claude
    sent,       \* user turns that have arrived so far
    given,      \* history: user turns handed to Claude, in order
    lost,       \* history: turns taken, and acked to the hub, but not handed over
    left        \* what remains of Bound

queueVars  == <<queue, sent, stray>>
claudeVars == <<modeHash, launched, proc, inbox, fetch, request, refused>>
pastVars   == <<given, lost>>
loopVars   == <<mode, stage, onFailure, exitReason, aborted>>
vars == <<loopVars, queueVars, pending, claudeVars, pastVars, left>>

(* Turn 0 is the internal PLAN_FAKE_RESTART prompt, which has no localId. *)
Turn == 1 .. MaxTurns
Item == [turn : 0 .. MaxTurns, mode : Mode, kind : {"plain", "clear", "compact"}]
ASSUME NoneAssumption == None \notin Item

Restart == [turn |-> 0, mode |-> RestartMode, kind |-> "plain"]
Isolate(i) == i.kind # "plain"
TurnsOf(s) == {s[k].turn : k \in DOMAIN s} \ {0}

WithTurn(s, item) == IF item.turn = 0 THEN s ELSE Append(s, item.turn)

Waiting == TurnsOf(queue) \cup (IF pending = None THEN {} ELSE TurnsOf(<<pending>>))

(* The queue's waiter has been notified but has not run yet. *)
StrayWoken == queue # <<>> /\ stray # "none"
Settled == ~StrayWoken /\ (queue # <<>> => stage # "asking" /\ fetch # "waiting")

(* Nobody acts any more on what the fetch in flight brings: streamToStdin does   *)
(* not write for an aborted launch, and nobody reads what the process of a launch *)
(* that is over replies.                                                          *)
Deaf == aborted \/ stage = "ending"

Spend(cause) == /\ left[cause] > 0
                /\ left' = [left EXCEPT ![cause] = @ - 1]

-----------------------------------------------------------------------------
(* Both launchers. *)

Idle == /\ modeHash' = NoMode /\ launched' = NoMode /\ proc' = "none"
        /\ inbox' = <<>> /\ fetch' = "none" /\ request' = None /\ refused' = FALSE

Init == /\ \/ mode = "remote" /\ stage = "top" /\ onFailure = "switch"
           \/ mode = "local" /\ stage = "starting" /\ onFailure \in {"exit", "switch"}
        /\ exitReason = "none" /\ aborted = FALSE
        /\ queue = <<>> /\ stray = "none" /\ pending = None
        /\ modeHash = NoMode /\ launched = NoMode /\ proc = "none"
        /\ inbox = <<>> /\ fetch = "none" /\ request = None /\ refused = FALSE
        /\ sent = 0 /\ given = <<>> /\ lost = {} /\ left = Bound

(* runLocalRemoteLoop: the launcher that returned hands over to the other one. *)
HandOver(reason) ==
    IF reason = "exit"
    THEN mode' = "over" /\ stage' = "over"
    ELSE \/ mode = "remote" /\ mode' = "local" /\ stage' = "starting"
         \/ mode = "local" /\ mode' = "remote" /\ stage' = "top"

SetReason(reason) == exitReason' = IF exitReason = "none" THEN reason ELSE exitReason

(* The user message callback of runClaude: /clear and /compact empty the      *)
(* queue, and while Claude runs locally any message asks for the remote mode. *)
UserTurn ==
    /\ mode # "over" /\ sent < MaxTurns
    /\ sent' = sent + 1
    /\ \E p \in Prompts :
         LET item == [turn |-> sent + 1, mode |-> p.mode, kind |-> p.kind]
         IN queue' = IF Isolate(item) THEN <<item>> ELSE Append(queue, item)
    /\ IF mode = "local" /\ stage = "running"
       THEN SetReason("switch") /\ aborted' = TRUE
       ELSE UNCHANGED <<exitReason, aborted>>
    /\ UNCHANGED <<mode, stage, onFailure, stray, pending, claudeVars, pastVars, left>>

(* cancelByLocalId, which finds only what is still in the queue. *)
CancelTurn ==
    /\ mode # "over" /\ Settled /\ Spend("cancel")
    /\ \E k \in DOMAIN queue : queue[k].turn # 0 /\ queue' = RemoveAt(queue, k)
    /\ UNCHANGED <<loopVars, sent, stray, pending, claudeVars, pastVars>>

(* A turn wakes the fetch of a launch that is over.  Its modeHash has been reset: a *)
(* command is put aside, for the next launch if there is one, and anything else     *)
(* goes to the input of that launch.                                                *)
StrayTakes ==
    /\ StrayWoken
    /\ queue' = Tail(queue) /\ stray' = "none"
    /\ IF Isolate(Head(queue)) /\ stray = "here"
       THEN pending' = Head(queue) /\ UNCHANGED lost
       ELSE lost' = lost \cup TurnsOf(<<Head(queue)>>) /\ UNCHANGED pending
    /\ UNCHANGED <<loopVars, sent, claudeVars, given, left>>

-----------------------------------------------------------------------------
(* The local launcher: "starting" until its handlers are registered,          *)
(* "running" while Claude owns the terminal, "leaving" once they are removed. *)

(* BaseLocalLauncher.run up to the launch: queued turns want the remote mode. *)
\* Mutant: the queue is not looked at before Claude takes the terminal.
LocalBeginsBlind ==
    /\ mode = "local" /\ stage = "starting"
    /\ stage' = "running"
    /\ UNCHANGED <<mode, onFailure, exitReason, aborted, queueVars, pending,
                   claudeVars, pastVars, left>>

LocalBegins ==
    /\ mode = "local" /\ stage = "starting"
    /\ IF queue # <<>>
       THEN stage' = "leaving" /\ exitReason' = "switch"
       ELSE stage' = "running" /\ UNCHANGED exitReason
    /\ UNCHANGED <<mode, onFailure, aborted, queueVars, pending, claudeVars,
                   pastVars, left>>

(* claudeLocal returns or throws: because it was aborted, or by itself. *)
LocalEnds ==
    /\ mode = "local" /\ stage = "running"
    /\ stage' = "leaving"
    /\ \E r \in {"exit", onFailure} : SetReason(r)
    /\ IF aborted THEN UNCHANGED left ELSE Spend("unasked")
    /\ UNCHANGED <<mode, onFailure, aborted, queueVars, pending, claudeVars, pastVars>>

(* The end of claudeLocalLauncher, and the loop's next iteration. *)
LocalLeaves ==
    /\ mode = "local" /\ stage = "leaving"
    /\ HandOver(exitReason)
    /\ exitReason' = "none" /\ aborted' = FALSE
    /\ UNCHANGED <<onFailure, queueVars, pending, claudeVars, pastVars, left>>

(* The Abort and Switch RPCs: Abort also resets the queue. *)
LocalAbort ==
    /\ mode = "local" /\ stage = "running" /\ Spend("abort")
    /\ SetReason("switch") /\ aborted' = TRUE
    /\ queue' = <<>> /\ stray' = "none"
    /\ UNCHANGED <<mode, stage, onFailure, sent, pending, claudeVars, pastVars>>

LocalSwitch ==
    /\ mode = "local" /\ stage = "running" /\ Spend("switch")
    /\ SetReason("switch") /\ aborted' = TRUE
    /\ UNCHANGED <<mode, stage, onFailure, queueVars, pending, claudeVars, pastVars>>

-----------------------------------------------------------------------------
(* The remote launcher: at the "top" of its while loop and in the flush of the *)
(* first nextMessage, "asking" for the first message of a launch, with         *)
(* "claude" running, or "ending" a launch in the flush of its finally block.   *)

LaunchOver ==
    /\ stage' = "ending"
    /\ launched' = NoMode /\ proc' = "none" /\ inbox' = <<>> /\ refused' = FALSE

(* The rest of the finally block, which ends with permissionHandler.reset(), and *)
(* the while condition.  A fetch that waits stays in the queue's waiter; pending *)
(* belongs to runMainLoop and dies with it.                                      *)
Ended == mode = "remote" /\ stage = "ending" /\ fetch # "flushing" /\ Settled

StrayAfter(over) ==
    stray' = CASE fetch = "waiting"   -> IF over THEN "gone" ELSE "here"
               [] fetch # "waiting"  -> IF over /\ stray = "here" THEN "gone" ELSE stray

\* Mutant: pending belongs to the launch.
EndLaunchForgetting ==
    /\ Ended /\ Idle /\ aborted' = FALSE
    /\ pending' = None
    /\ StrayAfter(exitReason # "none")
    /\ IF exitReason = "none"
       THEN stage' = "top" /\ UNCHANGED <<mode, exitReason>>
       ELSE HandOver(exitReason) /\ exitReason' = "none"
    /\ UNCHANGED <<onFailure, queue, sent, given, lost, left>>

\* Mutant: the permission handler is reset for a new session only.
EndLaunchKeepingRequests ==
    /\ Ended /\ aborted' = FALSE
    /\ modeHash' = NoMode /\ launched' = NoMode /\ proc' = "none"
    /\ inbox' = <<>> /\ fetch' = "none" /\ refused' = FALSE
    /\ StrayAfter(exitReason # "none")
    /\ IF exitReason = "none"
       THEN stage' = "top" /\ UNCHANGED <<mode, exitReason, pending, lost>>
       ELSE /\ HandOver(exitReason) /\ exitReason' = "none"
            /\ pending' = None
            /\ lost' = lost \cup (Waiting \ TurnsOf(queue))
    /\ UNCHANGED <<request, onFailure, queue, sent, given, left>>

EndLaunch ==
    /\ Ended /\ Idle /\ aborted' = FALSE
    /\ StrayAfter(exitReason # "none")
    /\ IF exitReason = "none"
       THEN stage' = "top" /\ UNCHANGED <<mode, exitReason, pending, lost>>
       ELSE /\ HandOver(exitReason) /\ exitReason' = "none"
            /\ pending' = None
            /\ lost' = lost \cup (Waiting \ TurnsOf(queue))
    /\ UNCHANGED <<onFailure, queue, sent, given, left>>

(* claudeRemote with its initial message: /clear needs no process, and a process *)
(* that is started for an aborted launch is killed before anything is written.   *)
Start(item) ==
    /\ IF item.kind = "clear" \/ ~aborted
       THEN given' = WithTurn(given, item) /\ UNCHANGED lost
       ELSE lost' = lost \cup TurnsOf(<<item>>) /\ UNCHANGED given
    /\ IF item.kind = "clear"
       THEN stage' = "ending" /\ UNCHANGED <<launched, proc, inbox>>
       ELSE stage' = "claude" /\ launched' = item.mode /\ proc' = "alive"
            /\ inbox' = IF aborted THEN <<>> ELSE <<item>>
    /\ UNCHANGED <<mode, onFailure, exitReason, aborted, fetch, request, refused,
                   sent, stray, left>>

(* nextMessage for the initial message: what was put aside comes first, *)
(* and does not set modeHash.                                           *)
FirstFromPending ==
    /\ mode = "remote" /\ stage = "top" /\ pending # None
    /\ pending' = None
    /\ Start(pending)
    /\ UNCHANGED <<queue, modeHash>>

(* Otherwise the queue's head, also for an aborted launch; a command is put aside *)
(* for a launch of its own.                                                       *)
CanAsk == mode = "remote" /\ stage \in {"top", "asking"} /\ pending = None

\* Mutant: what arrives first is handed over first, but stays in the queue.
FirstFromQueueTwice ==
    /\ CanAsk /\ queue # <<>>
    /\ IF Isolate(Head(queue))
       THEN /\ pending' = Head(queue)
            /\ stage' = "ending"
            /\ queue' = Tail(queue)
            /\ UNCHANGED <<mode, onFailure, exitReason, aborted, claudeVars, sent,
                           stray, pastVars, left>>
       ELSE /\ modeHash' = Head(queue).mode
            /\ Start(Head(queue))
            /\ UNCHANGED <<queue, pending>>

FirstFromQueue ==
    /\ CanAsk /\ queue # <<>>
    /\ queue' = Tail(queue)
    /\ IF Isolate(Head(queue))
       THEN /\ pending' = Head(queue)
            /\ stage' = "ending"
            /\ UNCHANGED <<mode, onFailure, exitReason, aborted, claudeVars, sent,
                           stray, pastVars, left>>
       ELSE /\ modeHash' = Head(queue).mode
            /\ Start(Head(queue))
            /\ UNCHANGED pending

(* An empty queue: the launch waits in place of whoever waited before. *)
WaitForFirst ==
    /\ CanAsk /\ stage = "top" /\ queue = <<>>
    /\ IF aborted THEN stage' = "ending" /\ UNCHANGED stray
                  ELSE stage' = "asking" /\ stray' = "none"
    /\ UNCHANGED <<mode, onFailure, exitReason, aborted, queue, sent, pending,
                   claudeVars, pastVars, left>>

(* nextMessage for a later message, of the launch that runs or the one that ends; *)
(* nothing is put aside meanwhile.  A change of mode or a command is put aside    *)
(* and ends the input of the launch.                                              *)
Fetches == stage \in {"claude", "ending"} /\ fetch \in {"flushing", "waiting"}

\* Mutant: only a command is put aside.
NextFromQueueAnyMode ==
    /\ Fetches /\ queue # <<>> /\ ~Deaf
    /\ queue' = Tail(queue)
    /\ LET item == Head(queue)
       IN IF Isolate(item)
          THEN pending' = item /\ fetch' = "ended" /\ UNCHANGED <<modeHash, inbox, given>>
          ELSE /\ fetch' = "none" /\ modeHash' = item.mode
               /\ inbox' = Append(inbox, item) /\ given' = WithTurn(given, item)
               /\ UNCHANGED pending
    /\ UNCHANGED <<loopVars, sent, stray, lost, launched, proc, request, refused, left>>

NextFromQueue ==
    /\ Fetches /\ queue # <<>>
    /\ queue' = Tail(queue)
    /\ LET item == Head(queue)
       IN IF (modeHash # NoMode /\ item.mode # modeHash) \/ Isolate(item)
          THEN /\ pending' = item /\ fetch' = "ended"
               /\ UNCHANGED <<modeHash, inbox, pastVars>>
          ELSE /\ fetch' = "none" /\ modeHash' = item.mode
               /\ IF Deaf
                  THEN lost' = lost \cup TurnsOf(<<item>>) /\ UNCHANGED <<inbox, given>>
                  ELSE /\ inbox' = Append(inbox, item)
                       /\ given' = WithTurn(given, item)
                       /\ UNCHANGED lost
               /\ UNCHANGED pending
    /\ UNCHANGED <<loopVars, sent, stray, launched, proc, request, refused, left>>

(* After its flush a fetch waits for a turn, unless its launch has been aborted. *)
FetchWaits ==
    /\ Fetches /\ fetch = "flushing" /\ queue = <<>>
    /\ IF aborted THEN fetch' = "ended" /\ UNCHANGED stray
                  ELSE fetch' = "waiting" /\ stray' = "none"
    /\ UNCHANGED <<loopVars, queue, sent, pending, modeHash, launched, proc, inbox,
                   request, refused, pastVars, left>>

(* The Abort RPC, the Switch RPC and Ctrl-C: a launch that waits for its first *)
(* message ends at once; otherwise a later wait ends, Claude is killed and the *)
(* launch ends with it.  An exit asked for at the top of the loop is found     *)
(* when that launch is over.                                                   *)
Signal ==
    /\ aborted' = TRUE
    /\ stage' = IF stage = "asking" THEN "ending" ELSE stage
    /\ fetch' = IF fetch = "waiting" THEN "ended" ELSE fetch
    /\ UNCHANGED <<mode, onFailure, queueVars, pending, modeHash, launched,
                   proc, inbox, request, refused, pastVars>>

RemoteAbort ==
    /\ mode = "remote" /\ Settled /\ Spend("abort")
    /\ Signal /\ UNCHANGED exitReason

RemoteExit(reason) ==
    /\ mode = "remote" /\ Settled /\ Spend("switch")
    /\ SetReason(reason) /\ Signal

-----------------------------------------------------------------------------
(* The Claude process and the stream of its messages.  The reader handles a   *)
(* permission request before it reads on, so nothing follows an open request. *)

Streams == stage = "claude" /\ Settled /\ request = None

(* A result, of the first turn Claude was given or of one it began by itself, *)
(* asks for the next turn unless a fetch is in flight or the input has ended. *)
Result ==
    /\ Streams /\ proc = "alive" /\ ~refused
    /\ \/ inbox # <<>> /\ inbox' = Tail(inbox) /\ UNCHANGED left
       \/ Spend("unasked") /\ UNCHANGED inbox
    /\ fetch' = IF fetch = "none" THEN "flushing" ELSE fetch
    /\ UNCHANGED <<loopVars, queueVars, pending, modeHash, launched, proc, request,
                   refused, pastVars>>

(* A tool call that nothing allows yet is shown to the user.  When permissions *)
(* are bypassed a plan is approved without asking.                             *)
AskUser ==
    /\ Streams /\ proc = "alive" /\ ~refused /\ Spend("request")
    /\ \/ request' \in {"tool", "plan"} /\ UNCHANGED <<queue, refused>>
       \/ request' = None /\ refused' = TRUE /\ queue' = <<Restart>> \o queue
    /\ UNCHANGED <<loopVars, sent, stray, pending, modeHash, launched, proc, inbox, fetch,
                   pastVars>>

(* The Permission RPC: an approved plan is refused too, and restarted in front *)
(* of the queue.                                                               *)
Answer ==
    /\ request # None /\ Settled
    /\ \E approved \in BOOLEAN :
         /\ refused' = (request = "plan" \/ ~approved)
         /\ queue' = IF request = "plan" /\ approved THEN <<Restart>> \o queue ELSE queue
    /\ request' = None
    /\ UNCHANGED <<loopVars, sent, stray, pending, modeHash, launched, proc, inbox, fetch,
                   pastVars, left>>

(* claudeRemote meets the tool_result of a refused call and returns; it does *)
(* not stop the process.                                                     *)
RefusalEndsLaunch ==
    /\ Streams /\ refused
    /\ LaunchOver
    /\ UNCHANGED <<mode, onFailure, exitReason, aborted, queueVars, pending, modeHash,
                   fetch, request, pastVars, left>>

(* Claude exits with code 0, as it does once its input has ended, even while *)
(* a permission request is open.                                             *)
ClaudeExits ==
    /\ stage = "claude" /\ Settled /\ proc = "alive"
    /\ proc' = "exited"
    /\ IF fetch = "ended" /\ inbox = <<>> THEN UNCHANGED left ELSE Spend("unasked")
    /\ UNCHANGED <<loopVars, queueVars, pending, modeHash, launched, inbox, fetch,
                   request, refused, pastVars>>

(* The stream of an exited process is exhausted. *)
StreamEnds ==
    /\ Streams /\ proc = "exited"
    /\ LaunchOver
    /\ UNCHANGED <<mode, onFailure, exitReason, aborted, queueVars, pending, modeHash,
                   fetch, request, pastVars, left>>

(* Claude fails, or is killed because the launch was aborted. *)
ClaudeDies ==
    /\ stage = "claude" /\ Settled /\ proc = "alive"
    /\ IF aborted THEN UNCHANGED left ELSE Spend("unasked")
    /\ LaunchOver
    /\ UNCHANGED <<mode, onFailure, exitReason, aborted, queueVars, pending, modeHash,
                   fetch, request, pastVars>>

-----------------------------------------------------------------------------
LocalNext == LocalBegins \/ LocalEnds \/ LocalLeaves \/ LocalAbort \/ LocalSwitch
LaunchNext == EndLaunch \/ FirstFromPending \/ FirstFromQueue \/ WaitForFirst
              \/ NextFromQueue \/ FetchWaits
RemoteRpc == RemoteAbort \/ \E r \in {"switch", "exit"} : RemoteExit(r)
ClaudeNext == Result \/ AskUser \/ Answer \/ RefusalEndsLaunch \/ ClaudeExits
              \/ StreamEnds \/ ClaudeDies

Over == mode = "over" /\ UNCHANGED vars

(* A stray fetch that was woken is done before the thread turns to anything else. *)
Next ==
    \/ UserTurn \/ StrayTakes \/ Over
    \/ ~StrayWoken /\ (LocalNext \/ LaunchNext \/ RemoteRpc \/ ClaudeNext \/ CancelTurn)

(* The thread runs; Claude finishes a turn it was given and, once its input   *)
(* has ended, exits; a killed process dies.  Nobody need answer a request, and *)
(* nothing in Progress can go on for ever by itself.                           *)
Progress ==
    \/ StrayTakes
    \/ /\ ~StrayWoken
       /\ \/ LocalBegins \/ (aborted /\ LocalEnds) \/ LocalLeaves
          \/ LaunchNext \/ RefusalEndsLaunch \/ StreamEnds
          \/ (inbox # <<>> /\ Result)
          \/ (fetch = "ended" /\ inbox = <<>> /\ ClaudeExits)
          \/ (aborted /\ ClaudeDies)

Spec == Init /\ [][Next]_vars
FairSpec == Spec /\ WF_vars(Progress)

-----------------------------------------------------------------------------
LoopType ==
    /\ \/ mode = "local" /\ stage \in {"starting", "running", "leaving"}
       \/ mode = "remote" /\ stage \in {"top", "asking", "claude", "ending"}
       \/ mode = "over" /\ stage = "over"
    /\ onFailure \in {"exit", "switch"}
    /\ exitReason \in {"none", "switch", "exit"}
    /\ aborted \in BOOLEAN

QueueType ==
    queue \in Seq(Item) /\ sent \in 0 .. MaxTurns /\ stray \in {"none", "here", "gone"}

PendingType == pending \in Item \cup {None}

ClaudeType ==
    /\ modeHash \in Mode \cup {NoMode} /\ launched \in Mode \cup {NoMode}
    /\ proc \in {"none", "alive", "exited"}
    /\ inbox \in Seq(Item)
    /\ fetch \in {"none", "flushing", "waiting", "ended"}
    /\ request \in {None, "tool", "plan"}
    /\ refused \in BOOLEAN

PastType == given \in Seq(Turn) /\ lost \subseteq Turn

LeftType == left \in [Cause -> Nat]

TypeOK == LoopType /\ QueueType /\ PendingType /\ ClaudeType /\ PastType /\ LeftType

(* A user's turns are handed over in the order they were sent, none of them   *)
(* twice, whatever relaunches, put-aside turns and plan restarts come between *)
(* (runMainLoop's pending and MessageQueue2).                                 *)
TurnsInOrder == \A j, k \in DOMAIN given : j < k => given[j] < given[k]

(* A turn that waits, in the queue or put aside, goes on waiting until it is  *)
(* handed to Claude; it is given up only by a later /clear or /compact, by an *)
(* Abort in local mode, by a cancel of this one turn, because its launch was  *)
(* aborted or left, or, while it is the first of the queue, because the fetch *)
(* of a launch that is over takes it.  A turn that was put aside outlives     *)
(* every launch that nobody aborts, and no other turn is lost with one.       *)
NoTurnVanishes ==
    [][ \A t \in Waiting \ Waiting' :
          \/ t \in Range(given')
          \/ sent' > sent /\ queue'[1].kind # "plain"
          \/ mode = "local" /\ left'["abort"] < left["abort"]
          \/ left'["cancel"] < left["cancel"] /\ Waiting \ Waiting' = {t}
          \/ aborted /\ t \in lost'
          \/ /\ stage = "ending" \/ stray # "none"
             /\ queue # <<>> /\ t = Head(queue).turn /\ t \in lost' ]_vars

(* A permission request is shown only while the process that asked for it is *)
(* being listened to, or its launch is ending: no launch leaves one behind   *)
(* whose answer would go nowhere, or would restart a plan nobody runs.       *)
RequestsAreAwaited ==
    request # None => stage = "ending" \/ (stage = "claude" /\ proc # "none")

(* A turn whose mode needs a new process is not handed to an old one          *)
(* (runClaude.ts on plan and auto), as long as the launcher remembers the mode *)
(* it launched with: one whose first turn had been put aside remembers none,   *)
(* and the next turn, in whatever mode, goes to its process.                   *)
TurnsRunInTheirMode ==
    modeHash = launched => \A k \in DOMAIN inbox : inbox[k].mode = launched

(* A turn in the queue is taken, whichever launcher is up when it arrives;     *)
(* an abort or an exit request ends its launch.  Both may have to wait for     *)
(* the user's answer to an open permission request: the first always, the      *)
(* second only when Claude has exited while the reader waits for that answer.  *)
LoopMovesOn ==
    /\ \A t \in Turn : t \in Waiting ~> (t \notin Waiting \/ mode = "over" \/ request # None)
    /\ aborted ~> (~aborted \/ (proc = "exited" /\ request # None))
=============================================================================
