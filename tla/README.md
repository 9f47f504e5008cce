# A formal model of SHAPI

SHAPI lets a person drive coding agents from a browser. A CLI process wraps one
agent session (Claude Code, Codex, Gemini, Cursor, OpenCode); a hub keeps
sessions and messages in SQLite and connects the two ends; a web application
shows them. This directory holds TLA+ modules that model the parts of SHAPI
whose correctness depends on the order of events, TLC configurations that
check them on small instances, and theorems about them that TLAPS proves for
every value of the constants. Paths below are relative to the repository.

    web app ── REST ──▶ hub ◀── Socket.IO ──▶ CLI process ──▶ agent
            ◀── SSE ──  │  SQLite              (one per session)
                        └── Socket.IO ──▶ runner (spawns CLI processes)

Contents: [inventory](#inventory), [modules](#modules),
[runs](#runs), [theorems](#theorems), [findings](#findings),
[what is not modelled](#what-is-not-modelled), [plan](#plan).

## Inventory

Each entry names the state a component keeps, its operations, whom it talks to,
what is hard about it, and what makes it correct. The hazards, each at its
line, are in `PROJECT.json`.

**Message table** (`hub/src/store/messages.ts`). State: one row per message with
`seq` (one more than the largest of the session), `local_id`, `scheduled_at`,
`invoked_at`. A web turn starts with `invoked_at` NULL ("queued"), a CLI row
with it set. Operations: `addMessage` (idempotent by `local_id`),
`getDeliverableMessagesAfter`, `getMatureScheduledMessages`,
`markMessagesInvoked`, `deleteQueuedMessage…`, merging two sessions. Hard: a
seq is reused once the youngest row is deleted; two queries release scheduled
rows. Correct: a settled row never changes; nothing is released early.

**Message service** (`hub/src/sync/messageService.ts`). No state of its own but
the calls under way. Operations: `sendMessage`, `cancelQueuedMessage` (asks the
CLI and awaits up to 500 ms), `releaseMatureScheduledMessages` every 5 s. Hard:
two cancels and an ack in between; late acks; an ack broadcast to a room with a
dead socket. Correct: a cancelled turn never runs, "already sent" is true.

**CLI session socket** (`cli/src/api/apiSession.ts`). State: duplicate filter
(256 ids), `lastSeenSeq`, a backfill, callbacks and the messages that wait for
them, cached metadata and agent state with versions, a lock. Operations:
incoming messages, backfill after a reconnect, cancel requests,
`messages-consumed`, keep-alives, `updateMetadata`, `sendSessionDeath`, `close`.
Hard: live packets and backfill overlap; socket.io buffers, drops or never
delivers. Correct: every turn is queued exactly once; updates are not lost.

**Turn queue** (`cli/src/utils/MessageQueue2.ts`). State: queue, waiter, closed.
Operations: push, `pushIsolateAndClear` (/clear), `cancelByLocalId`, collecting
a batch (turns of the hub one at a time), reset, requeueing. Correct: a turn
leaves the queue once, by being taken, cancelled or cleared.

**Hub session handlers** (`hub/src/socket/handlers/cli/`). Stateless; `message`,
`messages-consumed`, `update-metadata`, `update-state`, `session-alive`,
`session-end`, room membership. Handlers run to completion, several sockets of
one session may be connected.

**Versioned session fields** (`hub/src/store/versionedUpdates.ts`,
`sessions.ts`; `cli/src/api/versionedUpdate.ts`). State: value and version in
SQLite, a copy on each client. Operations: compare-and-commit with a merge of
carried fields; retry on mismatch. Hard: a request that outlives its socket or
process, a broadcast passing an ack, the hub writing the same fields. Correct:
no update is lost or undone, and every cache is a committed value.

**Session cache** (`hub/src/sync/sessionCache.ts`). State: every session with
`active`, `activeAt`, `thinking`, the grace of a queued message, settings,
background tasks. Operations: `handleSessionAlive`, `handleSessionEnd`,
`expireInactive` (30 s), `markMessageQueued`, the metadata writers, deletion,
deduplication and merging. Hard: keep-alives are lossy and may arrive late.
Correct: what it shows converges to what the process is.

**Sync engine** (`hub/src/sync/syncEngine.ts`). State: gates for hand-off and
send. Operations: send, archive, resume, release of control, hand-off to a
terminal, session configuration; each checks, writes and awaits an RPC. Hard:
everything that was checked may change during the await. Correct: a session
that was given away runs no more turns.

**RPC gateway** (`hub/src/sync/rpcGateway.ts`, `hub/src/socket/rpcRegistry.ts`,
`cli/src/api/rpc/`). State: socket by method. Operations: register, forget with
the socket, call with a 30 s time-out. Hard: a time-out does not say whether the
call was executed. Correct: every call is answered.

**Control release and process lifecycle** (`cli/src/agent/localHandoff.ts`,
`runnerLifecycle.ts`, `sessionBase.ts`). State: `thinking`, cleanup under way.
Operations: accept or refuse a release, keep-alive every 2 s, cleanup. Correct:
an accepted release ends the process and loses no turn.

**Agent launchers and permission requests** (`cli/src/agent/loopBase.ts`,
`claude/claudeRemoteLauncher.ts`, `claude/claudeRemote.ts`,
`claude/utils/permissionHandler.ts`, `modules/common/launcher/`). State: which
launcher runs, its exit reason and abort signal, the turn it has put aside, the
mode its process was started with, the fetch of the next turn, the open request.
Operations: switch, abort, exit, launch and relaunch, hand over a turn, ask,
answer. Hard: a turn, an answer and the end of the process may meet in any
order, and a launch leaves promises behind. Correct: turns are handed over once,
in order, to a process in their mode, and nobody waits for a launch that is over.

**Runner daemon** (`cli/src/runner/run.ts`, `controlClient.ts`,
`persistence.ts`). State: a state file and a lock file shared by processes that
know nothing else of each other. Operations: start over what the files say, stop
another, hand over to a replacement after an upgrade, heartbeat, clean up. Hard:
every step reads or removes a file another process may have replaced. Correct:
the machine has one runner, and an upgrade does not cost it.

**Monitoring scheduler** (`hub/src/monitoring/service.ts`,
`hub/src/store/monitors.ts`). State: rules and incidents in SQLite. Operations: a
cycle of checks and dispatches every 10 s, webhooks, approval, reading results
out of session histories, recovery at start. Hard: a dispatch awaits a spawn, a
session and its configuration while rules and sessions change; the hub dies in
between. Correct: no work is repeated, and a repair follows the approved plan.

**SSE and the web message window** (`hub/src/sse/sseManager.ts`,
`web/src/App.tsx`, `web/src/hooks/useSSE.ts`, `web/src/lib/message-window-store.ts`,
`messages.ts`). State: a ring of the last 512 events; in the browser two event
streams with their cursors, a queue of rows for the next frame, the thread, the
rows kept back, where paging goes on, one read and one page in flight.
Operations: events, latest, older and newer pages, sending, cancelling, scrolling.
Hard: every answer may be older than what the window has seen since. Correct:
the window ends up with what the table has, and shows each turn once.

**Further components**, not modelled: the machine cache (the session cache's
scheme once more); the launchers of the other agents; the terminal registry
(limits, idle time-outs); workspaces and runner authentication (pairing, tickets);
Codex direct send (a delivery path of its own for desktop-owned threads);
notifications; agent protocol adapters; local services and tunnels; the web
interface. See [what is not modelled](#what-is-not-modelled).

The behaviours that make the system hard are the same everywhere: Socket.IO
delivers in order while a transport lives, but a packet in a transport that has
died silently is gone, a packet emitted while disconnected is buffered, and a
`volatile` one is dropped; acks have time-outs; handlers are atomic up to an
`await` and state read before it is used after it.

## Modules

| module | models | extends |
| --- | --- | --- |
| `MessageStore` | the table's statements as operators on a function from ids to rows | |
| `IncomingFilter` | the CLI's duplicate filter and cursor | |
| `TurnDelivery` | a user turn from POST to the agent, cancels, acks, backfill | both above |
| `MetadataValues` | what a metadata value is, and what each writer makes of it | |
| `AtomicMetadata` | what the metadata promises: one update at a time | `MetadataValues` |
| `VersionedMetadata` | the optimistic protocol that keeps the promise | `MetadataValues` |
| `ControlRelease` | presence of a session and its release to another program | |
| `SessionMerge` | records that share an agent thread, and how their histories are joined | `MessageStore` |
| `Monitoring` | rules, incidents and the scheduler that works on them | |
| `RunnerHandoff` | runner processes and the two files they meet in | |
| `ClaudeLoop` | the local/remote loop of a Claude session with its process | |
| `MessageWindow` | a browser's window on a session, the streams and pages that feed it | |
| `MC…` | the sets of model values of the runs | the module of that name |
| `…Proofs` | theorems and proofs; `VersionedMetadataProofs` also has the refinement of `AtomicMetadata` | the module of that name |

### TurnDelivery

One session, one CLI process at a time. `rows` is the table (a deleted row keeps
its contents under `st = "deleted"` so that properties can speak of it); time is
the set `due` of scheduled turns whose hour has come.

| action | code |
| --- | --- |
| `PostTurn` | `POST /messages` → `MessageService.sendMessage`, retries included |
| `CliPosts` | the hub's `message` handler: agent output, prompts typed at the terminal |
| `BecomeDue`, `ReleaseMature` | the clock; one row of the 5 s tick, which skips rows settled meanwhile |
| `RequestCancel`, `HubReceives` (acks), `CancelTimesOut` | the phases of `cancelQueuedMessage` |
| `HubReceives` (consumed) | `messages-consumed` → `markMessagesInvoked` |
| `ReceiveMessage`, `ReceiveCancel`, `Register`, `DrainPending` | `handleIncomingMessage`, the cancel handler, `onUserMessage` and its loop |
| `TakeTurn` | the launcher's shift with its acknowledgement |
| `Connect`, `BeginPage`, `PageStep`, `HubServesBackfill`, `BackfillFails` | `backfillIfNeeded` and `GET /cli/sessions/:id/messages` |
| `Drop`, `CliNoticesDrop`, `HubNoticesDrop`, `HubRestart`, `CliRestart` | faults, and their discovery by each side |

Every handler is one action. A synchronous loop on the CLI is several small
steps between which `CliBusy` holds every other CLI handler back, so it is as
atomic for the CLI as in the code while the hub may act in between. `link =
"dead"` is a transport that neither side has noticed to be gone; `stale` says
that the hub still has the old socket in the room, which decides whether an ack
that reports "not found" may end a cancel.

### VersionedMetadata

Any number of CLI processes and the hub write one row. `log` is the sequence of
committed values: its length is the version, its last element the row, and the
history is what properties compare caches with. A value is a function from five
fields: `owner` and `token` are carried forward by `mergeSessionMetadata`,
`name` and `life` are not, and `mode` stands for the fields that an attaching
process does not pick up either (`preferredPermissionMode`, `codexTokenUsage`,
`codexModelProvider`, `cursorMigrationState`). A CLI update is a handler over the
cached value, exactly as the CLI passes closures to `updateMetadata`; `Handler`
lists the four shapes the code has. `Attempt`, `ReceiveAck` and
`ReceiveBroadcast` are the client, `HubUpdates`, `HubUpdatesLate` and `HubFails`
the hub's handler, `Rename`, `Claim`, `Unclaim`, `ArchiveFromHub`, `Reopen` and
`Prefer` the hub's own synchronous writers.

A process parses what it is told (`Parses`, `Parsed`): its build may not know a
field, which it strips (`Unknown`), or refuse a content (`Refused`), as zod does
with an unknown key or enum value. A refused value is dropped and its version
taken all the same (`Told`), so a cache also names the commit its value stems from
(`basis`; 0 if there is none). The hub is taken to know every field. `late` holds requests of transports or processes that are
gone and that the hub has yet to read.

`AtomicMetadata` says what all this is for: a register whose writers take turns.
Each commit applies one update to the value that is current at that moment, and
the updates of one process take effect in the order of its calls. `Atomic ==
INSTANCE AtomicMetadata WITH history <- log, …` is the refinement mapping, and
`AtomicUpdates` the property that every behaviour of the protocol is one of the
register. An update whose ack was lost may take effect twice, but only before a
younger one of its process does; a process that refuses the current value
computes from the last one it read, or from nothing. Both are in the promise because they are in the code.

### ControlRelease

What the hub believes of a session (`active`, `age`, `spin`, `grace`), the
process behind it, and `releaseSessionControl` between them. Time passes in
ticks of 15 s, because every time-out that matters is a multiple of it: grace of
a queued turn 1, expiry 2, RPC 2, wait for inactivity 1. A `Tick` is possible
only when nothing is `Due` that a working link, process or timer does well
within 15 s; a stalled link, a slow agent and a slow shutdown are not `Due` and
may take any time. The keep-alive every 2 s is sent once per tick. Ages stop
counting just past the expiry; the clamp of `aliveTime.ts` to ten minutes lies
beyond that and makes no difference. `HearAlive`, `HearEnd`, `Expire` and
`MarkQueued` are the session cache; `AcceptPost` and `PostTurn` are the two
halves of the POST around its `await`; `Release`, `ReleaseOffline`, `HearReply`,
`RpcTimesOut` and `WaitEnds` are the engine; `KeepAlive` to `Exit` are the
process; the rest is transport. A turn that was read (`Read`) waits in `chain`,
the promise chain of `runCodex.ts:196-291`, until its handler has the list of slash
commands; `QueueTurn` then queues it, queues it alone, or handles it as a command and
acknowledges it. The check of a hand-off on the CLI's side (`Refuses`) does not see
the chain, as in the code; the refusal of a process that is still starting
(`runCodex.ts:116`), and those of the hub for open requests and background tasks
(1807-1814), are left out and would only refuse more.

A roll-back of the provisional marker leaves the marker in place here
(`RolledBack`), because that is what `VersionedMetadata` shows the code to do.

### SessionMerge

A resumed or restarted agent gets a new session record and shares its thread
with the older one. `rows` is the table of `MessageStore` over all sessions,
`home` each row's `session_id`; `Table(s)` is what a statement with
`WHERE session_id = s` sees. `thread` are the records whose metadata name the
thread (one thread; records of different threads never meet), `newer` is the
order of `updatedAt`.

| action | code |
| --- | --- |
| `FindThread`, `KeepAlive`, `Quit`, `Expire` | the four triggers of `deduplicateByAgentSessionId` in the engine; `StartPass` is its part up to the list of candidates (`MayMerge`: at most one is active; `Kept`: which one stays) |
| `MergeNext` | `mergeSessionData` for one candidate: `Merged` and `Moved` are `mergeSessionMessages`, then the record is deleted |
| `StartProcess`, `Resume`, `ResumeMerges` | `getOrCreateSession` of a new process; `resumeSession` before and after its awaits |
| `AcceptPost`, `PostTurn`, `PostFails` | `POST /messages` around its `await` |
| `PostOutput`, `ReceiveAck` | the hub's `message` and `messages-consumed` handlers |
| `TakeTurn`, `Drop`, `Crash`, `Reconnect`, `Backfill` | the process and its link |

A pass has `await`s but nothing in it waits for I/O, so no handler of the hub
runs before it ends: the hub's other actions ask for `HubIdle`, the CLI's do
not. Left out are the merge of metadata and agent state, the protocol check for
Cursor sessions, scheduled turns, and two records updated in one millisecond.
The process is told of a deleted record by nobody: packets for it are refused
and its backfill brings nothing, as in the code.

### Monitoring

A rule works in sessions of its own ("fresh"), in the session it is bound to
("direct"), or in one of its own beside that ("isolated"). `rules` and
`incidents` are the tables; a session is what the scheduler can see of it:
active, thinking, asking for a permission, the last prompt, and what the output
after it amounts to. The scheduler leaves a session alone that thinks or asks
(`Busy`). The approval of a plan looks at the rule as it was before the body of the
request was awaited, so `Approve` does not ask whether it is enabled; an HTTP rule is
triggered again only by an event deferred while an incident was open.

| action | code |
| --- | --- |
| `TickStart`, `ProbeReturns`, `TickDispatch`, `TickEnds` | `runTick`: schedules, HTTP checks in flight, one dispatch after another |
| `SpawnReturns`, `SpawnFails`, `WaitFails`, `Proceed`, `ConfigReturns` | `dispatch` between its awaits: spawn, `waitForSessionActive`, `applySessionConfig`, sending |
| `HubRestarts`, `HubRestartsAfterSend` | a crash anywhere, also between storing a prompt and recording that; `recoverInterrupted` |
| `HearsReady`, `Stops`, `AllReconciled` | `onSyncEvent` and `reconcile`: a finished turn is read out of the history |
| `Trigger`, `BecomesDue`, `Approve`, `Close`, `Toggle`, `Edit`, `Delete` | webhooks and the owner |
| `OwnerPrompts`, `Works`, `Rests`, `Asks`, `Settles`, `Answers`, `Connects`, `Expires`, `Removed` | the sessions, which owners and agents use as they please |

### RunnerHandoff

Processes start, serve the machine, are upgraded, stopped or killed, and know of
each other only what the state file and the lock file say. `pc` is a process's
place in the one chain of awaits that `startRunner` and `cleanupAndShutdown`
are, `beat` its heartbeat; an action is what happens between two awaits at which
another process can come in. `past` records for the properties which of seven
things have happened: `served`; the five by which a machine can lose its last
runner (`Losses`: `refused`, `displaced`, `disturbed`, `outwaited`,
`unspawned`); and `stolen`. Starting a replacement has three outcomes: a process,
an exception (`SpawnFails`), and an error event that comes after the call and has
no listener (`SpawnErrors`), so that the process shuts down. Pids are not reused, and a live pid in a file is a runner.

### ClaudeLoop

`mode` and `stage` say where `runLocalRemoteLoop` is. Locally Claude owns the
terminal and any turn asks for the remote mode; remotely `runMainLoop` launches
one process after another.

| action | code |
| --- | --- |
| `UserTurn` | the callback of `runClaude`: append, or `pushIsolateAndClear` |
| `LocalBegins` … `LocalLeaves`, `LocalAbort`, `LocalSwitch` | `BaseLocalLauncher.run`, its two RPCs, and the loop around it |
| `FirstFromPending`, `FirstFromQueue`, `WaitForFirst` | `nextMessage` for a new launch |
| `NextFromQueue` | `scheduleNextMessage`: what needs another process is put aside and ends the input |
| `Result`, `AskUser`, `Answer`, `RefusalEndsLaunch`, `ClaudeExits`, `StreamEnds`, `ClaudeDies` | the stream of the process, permission requests, the ways a launch ends |
| `RemoteAbort`, `RemoteExit` | the Abort and Switch RPCs and the keyboard |
| `CancelTurn` | `cancelByLocalId`, which finds only what is still queued |
| `FetchWaits`, `StrayTakes` | a fetch becomes the queue's waiter; the waiter of a launch that is over takes a turn |
| `EndLaunch` | the `finally` block after its flush, and the loop's condition |

A wake-up of the queue's waiter is kept whole by `Settled` and `StrayWoken`: no RPC
and no line of output is handled before that chain of microtasks ends. A flush of the
outgoing messages is no such chain, because its lock (`lock.ts:32-37`) lets go in a
task of its own: turns, RPCs and answers come in while a fetch flushes (`fetch`) and
while a launch does at its end (the stage "ending"). `stray` is the waiter that a
launch leaves in the queue when it ends without having been aborted. What a process
that outlived its launch still asks for is not modelled: nobody reads it.
The turns of this module are those that `TurnDelivery` hands over in `TakeTurn`.

### MessageWindow

`table` and `log` are the hub: the session's rows, and the events broadcast since
the process started, of which the last `RingSize` can be replayed. `stream` is what
the browser knows of each event stream: events up to `done` have been handled,
`cursor` and `epoch` are sent when it reconnects. `w` is the window's
`InternalState`. A row is its id (a turn's optimistic copy has the negated id),
seq, stamp (the display position: `invoked_at`, before that `created_at`) and
whether it is invoked. An action is one callback of the browser, which
JavaScript runs to its end, or one handler of the hub.

| action | code |
| --- | --- |
| `BeginRead`, `ServeRead`, `LandRead`, `FailRead`, `StrayLands` | `fetchLatestMessages` before its await, `getMessagesPage`, the answer, its `finally` when a wipe has made the read void |
| `Refresh`, `Wipe`, `RunTask`, `Probe` | `reconcileSelectedSessionMessages`, `clearMessageWindow`, the background work queue, the poll while the stream is down |
| `Connect`, `Break`, `Handle`, `FlushFrame` | `subscribe` with its replay, the end of a stream, `handleSyncEvent` and App's handlers, the merge of a frame |
| `AskPage`, `ServePage`, `LandPage`, `FailPage` | `fetchOlderMessages`, `fetchNewerMessages` |
| `ScrollAway`, `ToBottom`, `Leave`, `Return` | the thread's scrolling; another session is selected, this one again |
| `Send`, `Answer`, `FailPost`, `CancelClick`, `CancelAnswer`, `CancelFails` | `useSendMessage`, `useCancelQueuedMessage` |
| `Store`, `StoreElsewhere`, `Output`, `Consume`, `CancelServed`, `MoveIn`, `HubRestart` | the hub: what changes the table and is broadcast |

`owed` is a history variable: the last refresh the app wanted was skipped or
failed, and nothing in the code makes up for it. Two refreshes that wait in one
flush are one, because the second would be skipped anyway.

### Abstractions common to all

Ids, texts and settings are model values; logs, formatting and the HTTP layer
are left out. Bounds on what users and faults may do are CONSTANTS whose comment
starts with "bound:". They limit how often something happens, never what it does.

## Runs

All runs together take about fifteen minutes on two workers. States are distinct states.

| run | states | what it shows |
| --- | --- | --- |
| `cancel` | 560 000 | Two tabs cancel an immediate and a scheduled turn while the CLI is still registering; POSTs are retried, one ack is late. `SentAnswersAreTrue`, `NoRunAfterCancel`, `SettledRowsStay` |
| `reconnect` | 1 310 000 | One transport or hub is lost while turns are posted, released, typed and cleared. `TurnsRunOnce`, `NoneTravelsEarly`, `ReconnectPicksUp` |
| `live` | 4 800 | Across a lost transport, a CLI restart and a failed backfill a due turn reaches an agent: `DueTurnsReachAgent` |
| `metadata_shared` | 5 565 000 | Two processes that refuse one content, and the hub, write metadata across a lost transport. `CacheIsHistory`, `OnlyOwnFields` |
| `metadata_retry` | 201 000 | A process that strips one field and refuses an owner: late requests, a restart, error acks. `OnlyOwnFields`, `AtomicUpdates` (the refinement), `UpdatesSettle` |
| `presence` | 843 000 | Two releases over a link that stalls and breaks; the process may quit or crash. `InactiveIsQuiet`, `HandedOffIsMarked`, `SuccessMeansStopped`, `HandoffAbandonsNone`, `DisplayConverges`, `ReleaseAnswers` |
| `records` | 527 000 | Two records of a thread; processes are resumed, quit, crash and lose their links while a turn is posted to either record or both. `EveryRowHasRecord`, `KeysDistinct`, `DedupSparesLive`, `DuplicatesMerge` |
| `incidents` | 705 000 | Two rules bound to one session, or an isolated or a fresh one, from trigger to repair; the owner prompts, pauses, edits, deletes or closes, an agent asks, a session is lost, the hub crashes once. `OneAttempt`, `SourceExclusive`, `RepairsFollowPlans`, `PausedStaysQuiet`, `WorkMovesOn` |
| `upgrade` | 1 340 000 | Three runner processes over two upgrades with slow and failing replacements and one crash, stop or spawn error. `MachineKeepsARunner`, `TwoOnlyInHandoff`, `DuplicatesEnd`, `StateNamesARunner` |
| `turns` | 724 000 | Three turns in two modes, plain or commands, with one abort, one switch, one cancelled turn, one permission request and one autonomous answer or death of Claude. `TurnsInOrder`, `RequestsAreAwaited`, `TurnsRunInTheirMode`, `NoTurnVanishes`, `LoopMovesOn` |
| `window_turns` | 1 485 000 | One stream; a turn is sent or comes from elsewhere, is taken or cancelled, the agent writes a row, and one thing goes wrong anywhere. `WholeUnlessOwed`, `TurnShownOnce`, `ConsumedStays` |
| `window_pages` | 2 218 000 | Both streams over a window of two rows with pages of one, so that rows have to be paged in; one thing goes wrong. `LatestInReach` |

`TypeOK` and `SessionMerge!QueuedCanBeAcked` are theorems and in no run.
`MessageWindow` describes its state at its declarations.

### Bounds, and what they leave out

Two turns are the fewest that can be confused with each other, two requests the
fewest that can race, one fault of each kind the fewest that separates before
and after; the properties that matter are about pairs. Some properties hold only
within their bounds, and that is a fact about the code, not about the model:

- `ReconnectPicksUp` holds in the run for one lost transport, and by the theorem
  for any number of them as long as none falls into a backfill. One that does can
  leave a gap: the second connect
  joins the backfill of the first (`apiSession.ts:426-429`), which may already
  have passed the turn. It also fails with a `PageLimit` small enough that a page
  is full, since live packets move the paging cursor (`474-475`), and with
  cancels, since a deleted youngest row frees its seq (`messages.ts:64-67`). It
  speaks of turns inserted after the process first read a message, because
  without a cursor there is no backfill (`apiSession.ts:431-435`): a process
  never fetches what was posted before its first connect.
- `TurnsRunOnce` needs a filter that does not evict the ids still travelling.
  The capacity is 256 in the code and in the runs; the theorem takes a filter
  with room for every row of the session.
- `NoRunAfterCancel` holds as long as no transport is lost and nothing restarts
  (`cancel` has neither, and the theorem assumes so); the rest is described under
  the findings.
- `SentAnswersAreTrue` leaves out turns for which some cancel ended
  unconfirmed or is still under way; the repeated cancel of such a turn may
  report "sent" on the strength of the first (`messageService.ts:393-406`). It
  also needs a session without `/clear`, which drops queued turns and forgets them,
  so that a later cancel finds them gone and is answered "sent"; a lost
  transport or a restart does no harm, as the theorem shows.
- `UpdatesSettle` assumes that the hub's error acks end: the CLI retries without
  a limit, so a permanent error holds the lock for ever.
- `SuccessMeansStopped` speaks of releases that asked the runner. A release of a
  session that is merely inactive asks nobody, and inactive does not mean dead.
- `presence` uses `MaxBacklog = 0`: a stalled transport takes no keep-alive,
  as `volatile` packets are dropped while the transport is not writable. One
  packet already under way when it stalls still arrives late.

- `TurnsRunOnce` is about turns with a localId. A prompt typed at the terminal
  has none, and its id never passes the filter of the process that sent it.
- `NoRunAfterCancel` and `SentAnswersAreTrue` speak of cancels that the CLI
  confirmed or of turns it had read; see the findings for the others.
- `incidents` has one incident per rule, so the second incident of a rule and the
  limit of 200 results are out of sight; two rules with one incident each are the
  fewest that compete for a session. `RepairsFollowPlans` speaks of direct rules:
  in an isolated session the conversation is checked before an await.
- `upgrade` has three processes: the old runner, its replacement, and one more
  that the user starts. The two safety properties
  are theorems for any number of processes. The
  properties name what they cannot exclude in their own words:
  `TwoOnlyInHandoff` has `stolen` (a lock file was removed under its owner), and
  `MachineKeepsARunner` has `disturbed` (killed or told to stop) and the four by
  which the code itself loses a runner, listed under what the models show:
  `refused`, `displaced`, `outwaited` and `unspawned`. It needs no `stolen`:
  whoever takes the lock of a runner leaves that runner alive.
- `turns` allows one of each disturbance, and of what Claude does unasked (an answer
  of its own, an end) one. A turn is plain in either mode, a /clear (whose mode plays
  no part) or a /compact in the mode a plan is not restarted with. `NoTurnVanishes` is
  exact about where turns do get lost; two disturbances of a kind add no new place.
  The four safety properties are theorems for any number of them.
- `window_turns` has pages of three rows, more than a browser can miss in the run.
  That is a condition of the code, not of the model: with more new rows than a
  page has, the thread keeps its old rows, takes the latest page, and forgets
  what lies between (see the disagreements). `window_pages` drops `WholeUnlessOwed`
  for that reason and has the smallest limits, so that every page and every row
  pushes another one out; it has no turns, because one that is cancelled uncovers a row
  in such a gap, and both streams together with turns exceed ten million states. One thing may go wrong per run, of six kinds:
  a stream breaks, the hub restarts, a request fails, the person scrolls up or
  selects another session, or a merge moves rows in. `Close` (all stamps within
  ten seconds) is the harder case for the merge of optimistic copies.
- `records` has two records. The merge works pairwise, and a pass over three
  is the same step twice; the theorems hold for any number.

### Fairness

Weak fairness is given to what a running system does by itself: event loops
(every CLI and hub handler), delivery on a link that is up, the reconnect
(`reconnectionAttempts: Infinity`), the 5 s tick and sweep, timers, the clock.
In `SessionMerge` these are the keep-alive, the sweep for each single record, and the
rest of a pass. In `Monitoring` it is the cycle, each dispatch (its awaits have
time-outs) and a process whose turn has ended saying so. In `RunnerHandoff` it is
each process going on with what it has begun, and its heartbeat. In `ClaudeLoop`
one condition, on `Progress`: the thread runs, Claude finishes a turn it was
given and exits once its input has ended, a killed process dies; nothing in
`Progress` can go on for ever, so the one condition starves nobody. Nothing is
assumed of users (who may never answer a request), of
the agent (it may never start or end a turn, except in `ClaudeLoop` as said), of
the shutdown of an agent, of a stalled link, or of faults. No strong fairness is
used. `DisplayConverges` has its assumption in the formula: what the hub shows
converges once the process or the link has settled. So has `DuplicatesEnd`: a
heartbeat is not for ever between its read and its write.

## Theorems

All theorems are of the form `Spec => []Inv`, `Spec => [][A]_vars` or `Spec => Abstract`, proved with
TLAPS for every value of the constants; the assumptions are those the modules
name (`StoreAssumption`, `FilterAssumption`, `DeliveryAssumption`,
`MetadataAssumption`, `ReleaseAssumption`, `MergeAssumption`, `LoopAssumption`,
`RunnerAssumption`, `MonitoringAssumption`, `WindowAssumption`, `NoneAssumption`:
bounds are natural numbers, time-outs positive, the sets of records finite, special
values distinct). Five theorems about turns and four about the window take a further
hypothesis, because without it the code does not do what they say, or the proof does
not reach; it stands in their statement and in the table.

| theorem | property | argument |
| --- | --- | --- |
| `TurnDeliveryProofs!TypeCorrect` | (`TypeOK`) | inductive by itself, one frame lemma per group of variables |
| `…!SettledForGood` | `SettledRowsStay` | each statement on the table has `invoked_at IS NULL` or a fresh id in its guard |
| `…!NothingTravelsEarly` | `NoneTravelsEarly` | inductive with `TypeOK`; it speaks of every place a row can be in, packets and pages included, because a queue receives from all of them |
| `…!NoTurnHandedEarly` | (`NoEarlyHandOff`) | follows |
| `…!RunOnceWithinFilter` | `TurnsRunOnce` | for `MaxRows <= FilterCapacity`. Invariant `OnceInv`: a turn is in one place of the process (`OnePlace`: once in the queue or among the pending messages, or handed over), whatever is there has been read (`ReadFirst`: the filter remembers it, and evicts nothing), and nothing travels early |
| `…!AnswersAreTrue` | `SentAnswersAreTrue` | for `ClearTurn = {}`, whatever is lost, late or restarted. Invariant `SentInv`: each cancel asks the CLI at most once (`AskedOnce`), and a turn that was read and neither reached an agent nor stands in line was taken out by some cancel that is now `Spent` (`Accounted`): asked, not declined, and so in no position to answer "sent" unless it ends unconfirmed, which the property excepts |
| `…!CancelledTurnsDoNotRun` | `NoRunAfterCancel` | for `MaxRows <= FilterCapacity` and no lost transport or restart. Invariant `CancelInv`: `Calm` (the one connection stays, nothing is paged twice), `OnePerTurn` (a turn has one row), `GrantedIsGone` (a cancel that the CLI has granted speaks of a turn that was read and has left the process, so no copy of it is taken again) and `DeletedIsGone` (a deleted row has left too, or was never read and is on its way no more), over `OnceInv` and `AskedOnce` |
| `…!ReconnectsLeaveNoGap` | `ReconnectPicksUp` | for `MaxRows <= FilterCapacity`, and behaviours in which no backfill page is full, no transport is lost, no hub restarts and no page fails while a backfill is under way, and the youngest row is not cancelled; any number of transports may be lost and hubs restarted otherwise. Invariant `GapInv`: sequence numbers are dense enough that a page which is not full is the whole rest (`WholePage`), and every turn above the cursor that was not read is `Covered`: the run in flight has it or will have it on its page, a packet with only older rows ahead of it brings it, or the link is not up and the next backfill will ask for it |
| `VersionedMetadataProofs!WellTyped` | (`TypeOK`) | the merge never leaves the explicit null in a row |
| `…!OneUpdateInFlight` | (`OneInFlight`) | invariant `InFlight`: also that a link that is down has no packets, or an ack could reach a job it does not answer |
| `…!CachesFollowTheLog` | `CacheIsHistory` | part of `Coherent` |
| `…!NoLostUpdate` | `OnlyOwnFields` | `Coherent` = `InFlight`, `CacheIsHistory`, `RepliesTrue` (every ack and broadcast carries the value of its version), `RequestsSound` (a request is its handler over the value committed at its version), `OnlyOwnFields` |
| `…!CallsTakeEffectInOrder` | (`CommitsInOrder`) | invariant `Faithful`: the commits of a process, its requests on their way and its waiting updates follow each other in the order of its calls (`Behind`) |
| `…!UpdatesAreAtomic` | `AtomicUpdates` | the initial row is the register's; a step that grows the log appends what the register's step would, by `RequestsSound` over the value before it; every other step leaves the log alone |
| `ControlReleaseProofs!WellTyped` | (`TypeOK`) | inductive by itself |
| `…!InactiveSessionsAreQuiet` | `InactiveIsQuiet` | inductive with `TypeOK` |
| `…!GivenAwayIsMarked` | `HandedOffIsMarked` | invariant `MarkedFirst`: a call under way or a request on its way already has the marker; `MarkerStays`: no step removes it |
| `…!SuccessStopsTheRunner` | `SuccessMeansStopped` | invariant `GrantedLast`: while the process runs, no granting reply is anywhere, and no reply is kept across a lost transport |
| `…!NoTurnIsHandedAway` | `HandoffAbandonsNone` | two invariants: `HandoffAlone`, a hand-off is on its way only while the session is marked and no turn queued; and `ChainInv`, the turns whose handlers wait are read, each once, and queued in the table, because every turn that is in the queue or acknowledged waits no more (`Past`) |
| `SessionMergeProofs!WellTyped`, `…!HistoryIsKept`, `…!KeysStayDistinct`, `…!QueuedStaysAckable` | (`TypeOK`), `EveryRowHasRecord`, `KeysDistinct`, (`QueuedCanBeAcked`) | invariant `IInv`, whose part `Tables` joins the four with `Tidy` (used rows have a seq above 0, unused ones have no record): the shift puts every row of the target above the incoming ones because those are above 0 and at most `m`. `Apart` shows that nobody resumes a session as itself |
| `…!LiveRecordsSpared` | `DedupSparesLive` | `Spared`: the rest of a pass holds no live record. With at most one live candidate, that one is the target (finite cardinality), and no record becomes live before the pass ends |
| `ClaudeLoopProofs!TypeCorrect` | (`TypeOK`) | inductive by itself |
| `…!RequestsStayAwaited` | `RequestsAreAwaited` | invariant `LaunchScoped`: there is a process only while its output is read, and no fetch, request or refusal outside a launch and its end; `PutAsideAlone`: while a turn is put aside no fetch, of this launch or an earlier one, can take another |
| `…!TurnsStayInOrder` | `TurnsInOrder` | invariant `InOrder`: what was handed over, what was put aside and what is queued follow each other in the order of arrival; restart prompts may stand anywhere. `PutAsideAlone` is needed because nothing is taken from the queue while a turn is put aside |
| `…!TurnsStayInTheirMode` | `TurnsRunInTheirMode` | invariant `Remembered`: with no mode remembered, or the one of the launch, only turns of that mode have been written; a turn is compared with the remembered mode, so the first that differs is put aside |
| `…!NoTurnEverVanishes` | `NoTurnVanishes` | `LeavingAborts`: a remote launcher that is to be left has aborted its launch, which accounts for what it had put aside; with `PutAsideAlone`, a fetch that comes late takes the first turn of the queue and nothing else |
| `RunnerHandoffProofs!TypeCorrect` | (`TypeOK`) | inductive by itself |
| `…!LockNamesTheRunner` | (`LockIsHeld`) | inductive with `TypeOK`: the lock is created only when there is none, and whoever removes one that names another sets `stolen` |
| `…!OneRunnerOutsideHandoff` | `TwoOnlyInHandoff` | follows: two runners that both hold the lock are the same |
| `…!NobodyStopsUnasked` | (`StaysInv`) | while nobody was displaced or disturbed and no replacement was refused by the system, no process is asked to stop or in its clean-up (`NobodyStops`), the state file names a committed process or a dead one (`StateIsTrue`), a runner whose heartbeat hands over no longer holds the lock (`HandedIsGiven`), and who looks for a runner to stop is not an authorised replacement (`LookersAreNotSent`) |
| `…!UpgradesKeepARunner` | `MachineKeepsARunner` | `StaysInv` leaves four ways for the last runner to go: a failed start, which was no runner; a refusal and a lock that another process holds while it starts up, which are excepted; and a confirmed handoff or a lock held by a committed process, which is then the runner |
| `MonitoringProofs!DispatchesAreLawful` | (`IInv`) | `Lawful` for each incident: a dispatch under way finds its own claim in the row, or the incident closed (`Owned`), each phase has counted what it spawned and sent (`Counts`), a session is where the state says (`Placed`), and a repair has the approved plan (`Planned`). Each step of one incident leaves the others alone, so the proof goes incident by incident |
| `…!TypeCorrect`, `…!WorkIsNeverRepeated` | (`TypeOK`), `OneAttempt` | parts of `Lawful` |
| `…!RepairsAreApproved` | `RepairsFollowPlans` | `Planned`: the conversation of a bound session is looked at in the same step that sends the repair |
| `…!SourcesAreExclusive` | `SourceExclusive` | inductive with `IInv`: no step but a dispatch of the tick engages an incident, and `MayStart` is evaluated over the rows it has just read |
| `…!PausedRulesAreQuiet` | `PausedStaysQuiet` | action property from `IInv`: each step that sends or opens reads the rule in that step |
| `MessageWindowProofs!TurnsAreShownOnce` | `TurnShownOnce` | for behaviours in which no older page is asked for. Invariant `ShowInv`: what comes from the hub (table, log, pages, frame, rows of cancels) is stored rows, one per turn; the thread has one row per turn, stored or optimistic, and reaches the newest row, so that no newer page is asked for either; rows kept back are stored ones. A stored row and its optimistic copy then meet only where the stored one is merged in, and `MergeRows` drops the copy |
| `…!LatestStaysInReach` | `LatestInReach` | for `MaxTurns = 0`, as in run `window_pages`: only the agent writes. Invariant `Agent` and `Coming`: a window is `Faithful`, that is, a thread that has newer rows to page ends before the newest row of the hub (`EndsBefore`); no page is under way beside a read, a newer one only while there are newer rows, and a page that is not the last lacks the newest row; and the newest row is `Told` (on the session's stream before its cursor, in the frame queue, in the window, or a refresh is due), `Reading` or `Paging`. One lemma per operation of the window says what it `Takes`: trims keep the newest rows and only an older page gives them up, in the step that sets `hasNewer` |
| `…!WholeIfItFits` | `WholeUnlessOwed` | for sessions that fit on a page (`Fits`: all rows, the optimistic copies of the turns and the row a merge brings in are fewer than `PageSize`, and the window's limits are no smaller). Invariant `FitInv`: every place a row can be in holds at most one row per id, of rows that exist by then (`Present`), so that no trim gives up a row (`Small`), nothing is ever left to page and no page is asked for; a served page has every turn that was in the thread when it was asked for and is still stored, so that no ghost is dropped wrongly (`FitRead`). With it `Carried`: each row of the table is in the window or the frame queue, announced on the session's stream, on a page that was asked for or has come, or being cancelled, unless a refresh is due or the session's stream is down. The proof goes action by action: what leaves one place arrives in another in the same step. `EndRead` runs the refresh that waited for it; a reconnect whose replay starts too late asks for one |
| `…!ShownOnceIfItFits` | `TurnShownOnce` | for sessions that fit on a page; part of `FitInv`, which has `ShowInv` and that no older page is asked for |
| `…!InvokedStaysIfItFits` | `ConsumedStays` | for sessions that fit on a page and have one turn at most, or no two sent within ten seconds (`Alone`); it proves `InvocationsStay`, the promise of `messages.ts:73-74` without the exception of `ConsumedStays`. One lemma per operation of the window says that the new thread `Remembers` the old one: each invoked turn is in it as invoked. A merge joins rows by id and keeps an invocation either copy has seen, and the stored row adopts what the optimistic copy knew; since `FitInv` leaves one row per turn, no other row can show it as queued. The row of a failed cancel comes back as it was before the click, and that is harmless for the same reason: it is merged into what the thread has by then |

A property in parentheses is checked by no run of its own; the theorem stands for it.
`NoLostUpdate` is the central one of the metadata: a request compares its version when it is
committed, so the value its handler saw is the row's value, and only the fields
of the update differ. Its three exceptions are what the code does: an attaching
process rebuilds the metadata without `mode` (`Rebuilt`), an older build strips a
field (`Stripped`), and a process that refuses the row works from what it read
before (`Reverted`). The merge puts the carried fields back in all three. With
`CacheIsHistory` the invariant `Coherent` says that every request was sound when it
was computed (`SoundAt`), and the log only grows, so it stays so.

Model-checked only:

- `ReconnectPicksUp` beyond the hypotheses of `ReconnectsLeaveNoGap`. Three of the
  four name a way in which the code does leave a gap (see the bounds), so without
  them the theorem would be false; the capacity of the filter is needed by the
  proof only to know that a turn it remembers was read.
- `WholeUnlessOwed` in sessions longer than a page. There it is false when a browser
  misses more rows than a page has (the hole in the thread, below); what holds of a
  long session whose browser misses little needs an invariant over sorted pages that
  is still to be found: whether a row that is pushed out comes back in the same step
  depends on all the rows around it. The run `window_turns` has pages smaller than
  `Fits` asks for, and is in that way not contained in the theorem.
- `ConsumedStays` where its exception is needed: two turns close to each other and
  two streams. There `InvocationsStay` is false (see the [findings](#findings)), and
  `ConsumedStays` excepts the optimistic copy of an invoked turn (`Mistaken`) beside
  which the new thread has the row of another turn. `window_turns` has one turn, in
  which nothing is excepted. The instances of two turns that need the exception are
  too large to be a run: of both streams, pages of three rows and no mishaps TLC has
  seen 22 million states without a violation. Small windows that give up rows are
  neither in the theorem nor in the run; TLC finds nothing there in 1.1 million states
  of one turn and one mishap, with pages and a window of one row.
- `LatestInReach` with turns. There it is false when a thread has a gap: with pages
  of one row, TLC finds a latest page that brings a queued turn and skips the agent's
  row before it; the turn is cancelled, and the skipped row is the newest one again.
  Hence the hypothesis of `LatestStaysInReach`, and no turns in `window_pages`.
- `TurnShownOnce` while older pages are asked for. It holds in the run, whose pages
  and window are larger than what can be missed in it; with pages of one row and a
  window of two TLC finds the older page that brings the stored copy of a turn beside
  its optimistic one, because it is merged with its arguments exchanged (see below).
  Hence the hypothesis of `TurnsAreShownOnce`, which `ShownOnceIfItFits` does not
  need: a session that fits has no older page.
- The liveness properties `DueTurnsReachAgent`, `UpdatesSettle`, `DisplayConverges`,
  `ReleaseAnswers`, `DuplicatesMerge`, `LoopMovesOn`, `DuplicatesEnd`,
  `StateNamesARunner` and `WorkMovesOn`: the prover has no rules for fairness and
  ENABLED here.

## Findings

Disagreements of the code with what its comments say, met while modelling and
found by TLC when the property in question is checked without the exception that
the modules state, or over larger constants. No run repeats them.

- *An invocation taken back* (`InvocationsStay`; `ConsumedStays` excepts it). `messages.ts:73-74` (in `web/src/lib`)
  promises that a stored row takes over the status and `invokedAt` of the optimistic
  copy it replaces. The fallback for copies whose echo never came (115-137) drops a
  sent copy for *any* stored user message within ten seconds, and does not look at its
  localId. Two turns are sent within that time; the global stream has already brought
  the invocation of the first to its copy, the session stream has only brought its row,
  which waits for the next frame. A latest page that was read between the two inserts
  lands with the row of the second turn: the copy goes, with what it knew, and the
  frame shows the first turn as queued again until the session stream brings the
  invocation too. It takes two turns and two streams: TLC finds `InvocationsStay`
  violated after 1.8 million states of `window_turns` with `MaxTurns = 2`, both
  streams, pages and a window of three rows, and neither old rows, mishaps nor output.
- *A refused value takes its version along* (`OnlyOwnFields` without `Reverted`). An
  ack, a mismatch or a broadcast whose value fails the schema is logged as ignored
  and its version is taken (`versionedUpdate.ts:45-51`, `apiSession.ts:340-346`). The
  next update of that process is computed from the value it had, or from none, is sent
  with the current version and accepted: every field that others changed in between
  and that is not carried forward goes back, silently, although the version is checked
  (`versionedUpdates.ts:28-38`) to refuse a writer that has not seen the row. Both
  runs have it; it takes a hub or another process of a newer build.
- *An attaching process drops fields* (`OnlyOwnFields` without `Rebuilt`).
  `buildUpdatedMetadata` picks fifteen fields out of what it finds
  (`sessionFactory.ts:104-129`, 233-237) and the hub carries its own list forward; the
  permission mode that `sessionCache.ts:1140` keeps for the next resume is on neither.
- *The roll-back of a claim.* `clearSessionControlOwner` deletes `controlOwner`
  from its copy (`sessionCache.ts:630-631`), and the merge carries the stored one
  forward again (`store/sessions.ts:61,135`; only an explicit null clears it): the
  session stays owned by "external" and no error is reported, against
  `sessionCache.ts:624` and `syncEngine.ts:1834-1835`.
- *The second change of mode.* A turn in another mode is put aside and Claude is
  started anew for it, but that launch does not remember its mode
  (`claudeRemoteLauncher.ts:317-327`); the next turn in yet another mode, for
  instance after switching to plan mode and back, is written to the process of the
  previous one, against `runClaude.ts:158-161`. `TurnsRunInTheirMode` excepts it.
- *A waiter outlives its launch* (`NoTurnVanishes` without its last exception). A
  refused tool, or an end of Claude that nobody asked for, ends a launch without an
  abort.
  Its fetch stays the waiter of the queue (`MessageQueue2.ts:433`), through the flush
  at `claudeRemoteLauncher.ts:398`, the flush before the next launch's first turn, and
  after a switch to the terminal. A turn that arrives is taken and acknowledged as
  invoked, but nobody reads what its process replies, if there is one, against
  `MessageQueue2.ts:343-344`, where the agent must finish a turn before the next. A
  fetch that is still flushing when its launch ends does the same.
- *Offline cancel.* With an empty room a cancel is confirmed without asking the
  CLI (`messageService.ts:363-388`), whose memory may already hold the turn; it
  runs when its time comes, against the comment at 352-355.
- *Release with a turn in hand* (`ReleaseLosesNoTurn`). A turn the launcher has
  taken is neither queued nor thinking until the agent reports its start; if that
  takes longer than the 15 s grace, all checks of a release pass
  (`runCodex.ts:114-120`) and the process closes with the turn in hand, against
  `syncEngine.ts:1748-1749`.
- *Merge of a live record* (`LiveHistoryStays`). `sessionCache.ts:1270-1272`
  forbids moving history between live records. `resumeSession` looks at `active`
  only before it awaits the spawn; if the old process shows up during the wait,
  its live record is merged and deleted under it (`syncEngine.ts:1568-1580`).
- *History that runs again* (`HistoryIsOnlyShown`). A merge renumbers the rows of
  the record that stays (`messages.ts:542-546`). The process of that record still
  pages with its old cursor, so its next backfill brings turns that another
  process ran, and queues them for its agent.
- *A handoff that costs the machine its runner.* `run.ts:1076-1081` has the old
  runner exit only when "the replacement actually came up" and otherwise "stay
  alive so the machine stays online". In four cases it does not
  (`MachineKeepsARunner` excepts each by name). The replacement writes the state
  file (880) before it registers (901-920): the old runner takes the file for a
  confirmed handoff and exits, and so does the replacement the hub refuses
  (`refused`). A replacement holds the lock, but has not written the file when the
  30 s for the handoff and the 30 s for the lock are over: the old runner exits
  (1141-1152; its comment concedes that the machine is offline if the holder
  dies), and the replacement then fails to log in (`outwaited`). The system refuses
  to start the process (EACCES, ENOENT, EAGAIN): `spawnHappyCLI` returns a child
  that emits `error` later, without a listener, so the catch at 1112-1116 does not
  see it, and the handler of uncaught exceptions (85-89) shuts the old runner down
  (`unspawned`). A heartbeat finds another pid in the file (`displaced`, below).

- *A skipped refresh.* `App.tsx:395-400` calls the global stream a lossless
  fallback. A latest page has been read by the hub when a row is stored; the
  session stream connects fresh, without a replay; the refresh it asks for is
  skipped because one is under way (286); the global copy is ignored because the
  session stream is up; the page lands without the row, which is missing until
  the next event. `WholeUnlessOwed` excepts it by `owed`.
- *A wipe on two streams.* `messages-invalidated` arrives on both. The second wipe
  voids the read of the first and its refresh is skipped: the window stays empty
  (`App.tsx:286,388-391`, against `message-window-store.ts:72-79`).
- *A hole in the thread.* `message-window-store.ts:908` calls the window one
  contiguous slice. More than a page of new rows between the rows kept and a
  latest page, an append trim or an ack while the person reads older history (both
  set `hasNewer` to false), or an older page that lands after an append trim,
  leave rows out that no paging reaches.
- *A cancelled turn comes back.* A latest page read before the cancel shows the
  turn as queued again, although `useCancelQueuedMessage.ts:65` says "nothing
  extra to do" after a cancel; so does a turn taken before the first page has come.

Seen on the way:

- *Turns.* A scheduled turn cancelled after its time and before the tick that
  emits it is taken for consumed and stamped invoked, and never runs. A prompt
  typed at the CLI's terminal is stored as a user message that the next backfill
  hands to the agent again. `messages-consumed` is sent once; lost in a dying
  transport it leaves the turn queued while the process lives. A POST repeated
  for the record that its session was merged into finds the moved row and emits
  it once more, to a process that has not seen it. The `messages-consumed`
  broadcast carries a time of its own that may differ from the stored one. A
  failed backfill waits for the next connect. /clear and abort drop turns of the
  hub without an ack. `hub/src/web/routes/cli.ts:524-527` calls the tick the only
  channel of scheduled rows while the backfill returns matured ones as well.
  Expiry does not reset the count of background tasks.
- *Claude's loop.* An abort that meets a late result takes the next queued turn,
  acknowledges it and does not write it; an exit or a switch forgets the turn put
  aside, which was acknowledged too (both in `lost`). Abort and Switch requests
  in the gap between two launchers are answered and dropped. When Claude exits
  with code 0 while a permission request is open, the launcher, an abort and a
  switch wait for the user's answer. `control_cancel_request` cannot be handled
  while a request is open, because the reader awaits that request. A refused
  tool ends the launch and leaves its process alive. `MessageQueue2.ts:343-344`
  speaks of one turn at a time, but any result, also of a turn Claude began
  itself, fetches the next. A switch to the terminal is refused while turns queue.
- *Runner.* A heartbeat stops its runner for any other pid in the state file, even a
  dead one, and writes its own pid all the same: two runners can stop each
  other. `clearRunnerState`, `acquireRunnerLock` and `releaseRunnerLock` remove
  the lock whoever owns it, though `persistence.ts:230` says the lock "prevents
  multiple instances". `startedWithCliMtimeMs` is read when the state is written, not
  when the process starts. A replacement that lost its authorisation may stop another runner.
- *Message window.* A failed read after a skipped refresh is not repeated. The answer
  to a read that a wipe made void takes a refresh queued behind a newer read with
  it. A person who scrolls up before the first page has come gets that page as
  pending rows and can never load older ones. A jump to the end that needs a
  refresh does not get it while a read is in flight. The rows an older page pushes
  out are filtered out of the pending ones again, queued turns included. An older
  page is merged with its arguments exchanged, so a stored copy in it does not
  replace the optimistic one. A failed cancel puts a queued copy over an invoked
  one that waits in pending; a POST whose answer was lost takes the stored row out
  of the window. Scheduled turns that were cancelled elsewhere stay, because the
  comment that the hub omits immature scheduled rows is not true of
  `getUninvokedLocalMessages`.
- *Monitoring.* A request for a permission that stays open in a session keeps an
  incident with its final answer running for good (`service.ts:540`), also when the
  session has ended, and with it capacity and source, although `service.ts:523-524`
  wants unobservable tasks to release them; `WorkMovesOn` excepts it (`HeldOpen`).
  An incident closed during `waitForSessionActive` still has its
  prompt sent. Editing a rule does not reset its consecutive failures. A stale
  thinking flag may attribute another turn's answer to an incident. An isolated
  incident in flight holds back a direct one of its source, but not the reverse.

## What is not modelled

- *Parts of modelled components.* Of the table: reads around a message, feedback.
  Of the queue: batching of the agent's own inputs. Of the versioned fields:
  agent state (same
  functions, no merge), creation and deletion. Of the metadata:
  `preserveCursorProtocolPair` is folded into `token`; `piSessionId` is not among
  the carried tokens. Of the session cache: settings, to-dos, background tasks,
  the merge of what two records keep besides messages. Of the engine: archive,
  hand-off to a terminal, configuration, and what resume checks and starts on the
  runner. Of the registry: two sockets for one method. Of the launchers: those of
  the other agents, question tools, calls allowed without asking, `/plan` without
  a prompt. Of the runner: the sessions it spawns and tracks, the opt-out of the
  handoff, another hub or token, a lock file that is created but not yet written.
  Of monitoring: native Codex targets, a changed target session, tokens and rate
  limits, pruning, notifications, the graceful stop. Of the window: scheduled
  turns, attachments, traces of child agents and the backfill of a cold load for
  their sake, sessionStorage, seeding one window from another, eviction. Of SSE:
  heartbeats, visibility, who may see which event.
- *Machine cache, terminals, pairing*: planned below.
- *Codex direct send*: about 6 000 lines around an external protocol without a
  description; a model would be of that protocol more than of SHAPI.
- *Agent adapters, local services, notifications, the rest of the web interface*: translation of
  formats, byte transport, best-effort fan-out, rendering. They have little
  state that an order of events could spoil.

## Plan

Modules, in order; those marked ✓ exist.

1. ✓ `MessageStore`, `IncomingFilter`, `TurnDelivery`: losing or repeating a
   person's turn is the worst the system can do.
2. ✓ `VersionedMetadata`: every other component stores its facts there.
3. ✓ `ControlRelease`: presence, and the engine's pattern of check, claim, RPC.
4. ✓ `SessionMerge`: joining histories renumbers and moves what everything else
   refers to.
5. ✓ `AtomicMetadata` and the refinement: what the versions are for.
6. ✓ `Monitoring`, `RunnerHandoff`: crashes and processes that meet in files.
7. ✓ `ClaudeLoop`: the turn queue in full, the local/remote loop, permission
   requests.
8. ✓ `MessageWindow` over SSE: optimistic, pushed and fetched messages of one session.
9. `TurnLedger`, an abstract specification (a turn is waiting, running, settled
   or withdrawn; each changes once), and the refinement `TurnDelivery` ⇒
   `TurnLedger`.
10. `RpcRegistry` with two sockets, `RunnerSessions` (spawn, resume, archive; the
    owner is checked only before the awaits), the machine cache.
11. `SessionConfig`: a setting applied to an inactive session is overridden by the
    keep-alive of the process that reconnects (`syncEngine.ts:887-893`).
12. Terminals and pairing as far as they go.

Theorems to follow: `MessageWindow` in sessions longer than a page
(`ConsumedStays`, `WholeUnlessOwed`) and the refinement of `TurnLedger`. `cancel` and
`reconnect` keep their bounds; runs that ask the same question of two modules
will be composed rather than added.
