------------------------- MODULE VersionedMetadata -------------------------
(***************************************************************************)
(* The metadata of one session, kept by the hub in a versioned row and by  *)
(* each CLI process attached to the session in a cache.  A CLI update is a *)
(* handler over the cached value, sent with the cached version: the hub    *)
(* commits it only at that version (versionedUpdates.ts) after carrying    *)
(* forward the fields it omits (store/sessions.ts); on a mismatch the CLI  *)
(* takes the current value and runs the handler again (apiSession.ts).  A  *)
(* value that the schema of a process refuses leaves its old one under the *)
(* new version.  The hub's own writers rename, archive, claim or release   *)
(* control, and keep the permission mode (sessionCache.ts).  They are       *)
(* synchronous over a cache that every write refreshes, so the hub's copy  *)
(* is the row itself.                                                      *)
(***************************************************************************)
EXTENDS Naturals, Sequences, MetadataValues

CONSTANTS
    MaxUpdates,     \* bound: updateMetadata calls, over all slots
    MaxHubWrites,   \* bound: writes by the hub itself
    MaxDrops,       \* bound: lost transports
    MaxRestarts,    \* bound: restarts of a CLI process
    MaxErrors       \* bound: 'error' acks of the hub

ASSUME MetadataAssumption ==
    /\ {MaxUpdates, MaxHubWrites, MaxDrops, MaxRestarts, MaxErrors} \subseteq Nat
    /\ Client \cap {"hub", "nobody"} = {}

VARIABLES
    log,        \* hub: the values committed so far; the row holds the last
    hubWrites,  \* writes made by the hub itself
    cache,      \* CLI: metadata, metadataVersion, and which version's value it is
    jobs,       \* CLI: updates holding or awaiting metadataLock, oldest first
    calls,      \* updateMetadata calls made so far
    waiting,    \* CLI: emitWithAck has not settled
    link,       \* CLI: "up", "dead" (gone, unnoticed), "down"
    unsent,     \* CLI: socket.io send buffer
    uplink,     \* requests on their way to the hub
    late,       \* requests of lost transports that the hub has yet to read
    downlink,   \* acks and broadcasts on their way to a CLI
    faults      \* how many of each kind of fault have happened

cliVars == <<cache, jobs, calls, waiting>>
netVars == <<link, unsent, uplink, late, downlink>>
vars == <<log, hubWrites, cliVars, netVars, faults>>

-----------------------------------------------------------------------------
\* A commit: the value, the writer and what it wanted; `call` numbers the
\* updates, `basis` is the commit whose value the writer computed from (0: none).
Commit == [value : Value, by : Client \cup {"hub"},
           update : CliUpdate \cup HubUpdate,
           call : Nat, basis : Nat]
Creation == [value |-> FirstValue, by |-> "hub", update |-> "reopen", call |-> 0,
             basis |-> 0]

Version == Len(log)
Row == log[Len(log)].value

Cached == [value : Value, version : Nat, basis : Nat]
Job == [update : CliUpdate, call : Nat]
Request == [version : Nat, next : Payload, by : Client, update : CliUpdate,
            call : Nat, basis : Nat]
Reply == [kind : {"success", "mismatch", "error", "broadcast"}, version : Nat, value : Value]

FaultKind == {"drops", "restarts", "errors"}
MaxFaults == [drops |-> MaxDrops, restarts |-> MaxRestarts, errors |-> MaxErrors]
Fault(f) == /\ faults[f] < MaxFaults[f]
            /\ faults' = [faults EXCEPT ![f] = @ + 1]

\* The cache after process c is given the value of version k: a value that
\* its schema refuses is dropped, but the version is taken all the same.
Told(c, known, value, k) ==
    IF Parses(c, value)
    THEN [value |-> Parsed(c, value), version |-> k, basis |-> k]
    ELSE [value |-> known.value, version |-> k, basis |-> known.basis]

\* A process starts with the session it fetched.
Fetched(c, value, k) == Told(c, [value |-> NoValue, version |-> 0, basis |-> 0], value, k)

Init ==
    /\ log = <<Creation>>
    /\ hubWrites = 0
    /\ cache = [c \in Client |-> Fetched(c, FirstValue, 1)]
    /\ jobs = [c \in Client |-> <<>>]
    /\ calls = 0
    /\ waiting = [c \in Client |-> FALSE]
    /\ link = [c \in Client |-> "down"]
    /\ unsent = [c \in Client |-> <<>>]
    /\ uplink = [c \in Client |-> <<>>]
    /\ late = {}
    /\ downlink = [c \in Client |-> <<>>]
    /\ faults = [f \in FaultKind |-> 0]

-----------------------------------------------------------------------------
(* The CLI.                                                                *)

\* updateMetadata: the call queues for the lock and returns.
Update(c, u) ==
    /\ calls < MaxUpdates /\ calls' = calls + 1
    /\ jobs' = [jobs EXCEPT ![c] = Append(@, [update |-> u, call |-> calls + 1])]
    /\ UNCHANGED <<log, hubWrites, cache, waiting, netVars, faults>>

\* The request of the job that holds the lock, computed from the cache.
Outgoing(c) ==
    LET job == Head(jobs[c]) IN
    [version |-> cache[c].version, next |-> Handler(job.update, cache[c].value),
     by |-> c, update |-> job.update, call |-> job.call, basis |-> cache[c].basis]

Sending(c) ==
    /\ uplink' = IF link[c] = "up"
                 THEN [uplink EXCEPT ![c] = Append(@, Outgoing(c))] ELSE uplink
    /\ unsent' = IF link[c] = "down"
                 THEN [unsent EXCEPT ![c] = Append(@, Outgoing(c))] ELSE unsent
    /\ waiting' = [waiting EXCEPT ![c] = TRUE]
    /\ UNCHANGED <<log, hubWrites, cache, jobs, calls, link, late, downlink, faults>>

\* One attempt of the job that holds the lock, the first or after a backoff.
Attempt(c) == jobs[c] # <<>> /\ ~waiting[c] /\ Sending(c)

\* Mutant: a mismatch does not bring the current version.
LearnOnSuccess(c, reply) ==
    cache' = IF reply.kind = "mismatch" THEN cache
             ELSE [cache EXCEPT ![c] = Told(c, @, reply.value, reply.version)]

\* Mutant: a mismatch brings the version and leaves the value to a broadcast.
LearnVersion(c, reply) ==
    cache' = [cache EXCEPT ![c] = IF reply.kind = "mismatch"
                                  THEN [@ EXCEPT !.version = reply.version]
                                  ELSE Told(c, @, reply.value, reply.version)]

Learn(c, reply) ==
    cache' = [cache EXCEPT ![c] = Told(c, @, reply.value, reply.version)]

\* applyVersionedAck: value and version are taken from a success and from a
\* mismatch; only a success releases the lock, the rest is tried again.
ReceiveAck(c) ==
    /\ downlink[c] # <<>> /\ Head(downlink[c]).kind # "broadcast"
    /\ LET reply == Head(downlink[c]) IN
       /\ IF reply.kind = "error" THEN UNCHANGED cache ELSE Learn(c, reply)
       /\ jobs' = IF reply.kind = "success" THEN [jobs EXCEPT ![c] = Tail(@)] ELSE jobs
    /\ waiting' = [waiting EXCEPT ![c] = FALSE]
    /\ downlink' = [downlink EXCEPT ![c] = Tail(@)]
    /\ UNCHANGED <<log, hubWrites, calls, link, unsent, uplink, late, faults>>

\* 'update-session': another CLI's commit, taken if it is newer.
ReceiveBroadcast(c) ==
    /\ downlink[c] # <<>> /\ Head(downlink[c]).kind = "broadcast"
    /\ LET reply == Head(downlink[c]) IN
       IF reply.version > cache[c].version THEN Learn(c, reply) ELSE UNCHANGED cache
    /\ downlink' = [downlink EXCEPT ![c] = Tail(@)]
    /\ UNCHANGED <<log, hubWrites, jobs, calls, waiting, link, unsent, uplink, late,
                   faults>>

-----------------------------------------------------------------------------
(* The hub.                                                                *)

\* socket.to(room): every other attached CLI, and the ack to the sender.
Answer(c, reply, told) ==
    downlink' = [d \in Client |->
        IF link[d] # "up" THEN downlink[d]
        ELSE IF d = c THEN Append(downlink[d], reply)
        ELSE IF told THEN Append(downlink[d], [reply EXCEPT !.kind = "broadcast"])
        ELSE downlink[d]]

AtVersion(request) == request.version = Version

\* Mutant: the ack and the broadcast repeat the payload, not what was stored.
DecideAndEcho(request, c) ==
    IF AtVersion(request)
    THEN /\ log' = Append(log, [value |-> Merge(Row, request.next), by |-> request.by,
                                update |-> request.update, call |-> request.call,
                                basis |-> request.basis])
         /\ Answer(c, [kind |-> "success", version |-> Version + 1, value |-> request.next],
                   TRUE)
    ELSE /\ log' = log
         /\ Answer(c, [kind |-> "mismatch", version |-> Version, value |-> Row], FALSE)

\* 'update-metadata' over updateSessionMetadata; c is the socket that is
\* still there to take the ack, if any.
Decide(request, c) ==
    LET merged == Merge(Row, request.next) IN
    IF AtVersion(request)
    THEN /\ log' = Append(log, [value |-> merged, by |-> request.by,
                                update |-> request.update, call |-> request.call,
                                basis |-> request.basis])
         /\ Answer(c, [kind |-> "success", version |-> Version + 1, value |-> merged], TRUE)
    ELSE /\ log' = log
         /\ Answer(c, [kind |-> "mismatch", version |-> Version, value |-> Row], FALSE)

HubUpdates(c) ==
    /\ uplink[c] # <<>>
    /\ Decide(Head(uplink[c]), c)
    /\ uplink' = [uplink EXCEPT ![c] = Tail(@)]
    /\ UNCHANGED <<hubWrites, cliVars, link, unsent, late, faults>>

\* A request read from a socket that died after it was sent.
HubUpdatesLate(request) ==
    /\ request \in late
    /\ Decide(request, "nobody")
    /\ late' = late \ {request}
    /\ UNCHANGED <<hubWrites, cliVars, link, unsent, uplink, faults>>

\* The payload is refused, the session is not accessible or the database fails.
HubFails(c) ==
    /\ uplink[c] # <<>>
    /\ Fault("errors")
    /\ Answer(c, [kind |-> "error", version |-> 0, value |-> NoValue], FALSE)
    /\ uplink' = [uplink EXCEPT ![c] = Tail(@)]
    /\ UNCHANGED <<log, hubWrites, cliVars, link, unsent, late>>

\* updateSessionMetadata by the hub itself; the CLIs are not told.
HubWrites(u, next) ==
    /\ hubWrites < MaxHubWrites /\ hubWrites' = hubWrites + 1
    /\ log' = Append(log, [value |-> Merge(Row, next), by |-> "hub", update |-> u,
                           call |-> 0, basis |-> Version])
    /\ UNCHANGED <<cliVars, netVars, faults>>

Rename(n) == HubWrites("rename", [Row EXCEPT !["name"] = n])

Claim == Row["owner"] # "external" /\ HubWrites("claim", [Row EXCEPT !["owner"] = "external"])

\* clearSessionControlOwner deletes the key from its copy.
Unclaim == Row["owner"] = "external" /\ HubWrites("unclaim", [Row EXCEPT !["owner"] = Missing])

ArchiveFromHub ==
    Row["life"] # "archived" /\ HubWrites("hubArchive", [Row EXCEPT !["life"] = "archived"])

\* clearSessionArchiveMetadata, before an archived session is resumed.
Reopen == Row["life"] = "archived" /\ HubWrites("reopen", [Row EXCEPT !["life"] = Missing])

\* persistPreferredPermissionMode, from a keep-alive or the user's choice.
Prefer(m) == Row["mode"] # m /\ HubWrites("prefer", [Row EXCEPT !["mode"] = m])

-----------------------------------------------------------------------------
(* The transport and the CLI processes.                                    *)

\* The 'connect' event: the send buffer is flushed.
Connect(c) ==
    /\ link[c] = "down"
    /\ link' = [link EXCEPT ![c] = "up"]
    /\ uplink' = [uplink EXCEPT ![c] = unsent[c]]
    /\ unsent' = [unsent EXCEPT ![c] = <<>>]
    /\ UNCHANGED <<log, hubWrites, cliVars, late, downlink, faults>>

\* What the hub may still read of a transport that is gone.
Orphaned(c) == {{}, {uplink[c][k] : k \in DOMAIN uplink[c]}}

Drop(c) ==
    /\ link[c] = "up" /\ Fault("drops")
    /\ link' = [link EXCEPT ![c] = "dead"]
    /\ \E left \in Orphaned(c) : late' = late \cup left
    /\ uplink' = [uplink EXCEPT ![c] = <<>>]
    /\ downlink' = [downlink EXCEPT ![c] = <<>>]
    /\ UNCHANGED <<log, hubWrites, cliVars, unsent>>

\* 'disconnect': emitWithAck rejects a request that had been sent.
NoticeDrop(c) ==
    /\ link[c] = "dead"
    /\ link' = [link EXCEPT ![c] = "down"]
    /\ waiting' = [waiting EXCEPT ![c] = FALSE]
    /\ UNCHANGED <<log, hubWrites, cache, jobs, calls, unsent, uplink, late, downlink,
                   faults>>

\* The process ends, whether flush() drained the lock or timed out, and
\* another attaches with the session it fetched.
Restart(c) ==
    /\ Fault("restarts")
    /\ cache' = [cache EXCEPT ![c] = Fetched(c, Row, Version)]
    /\ jobs' = [jobs EXCEPT ![c] = <<>>]
    /\ waiting' = [waiting EXCEPT ![c] = FALSE]
    /\ link' = [link EXCEPT ![c] = "down"]
    /\ unsent' = [unsent EXCEPT ![c] = <<>>]
    /\ \E left \in Orphaned(c) : late' = late \cup left
    /\ uplink' = [uplink EXCEPT ![c] = <<>>]
    /\ downlink' = [downlink EXCEPT ![c] = <<>>]
    /\ UNCHANGED <<log, hubWrites, calls>>

-----------------------------------------------------------------------------
CliStep(c) ==
    Attempt(c) \/ ReceiveAck(c) \/ ReceiveBroadcast(c) \/ Connect(c) \/ NoticeDrop(c)

Next ==
    \/ \E c \in Client : \/ CliStep(c) \/ HubUpdates(c) \/ HubFails(c)
                         \/ Drop(c) \/ Restart(c)
                         \/ \E u \in CliUpdate : Update(c, u)
    \/ \E request \in late : HubUpdatesLate(request)
    \/ Rename("first")
    \/ \E m \in {"plain", "odd"} : Prefer(m)
    \/ Claim \/ Unclaim \/ ArchiveFromHub \/ Reopen

Spec == Init /\ [][Next]_vars

\* The event loops run and the network delivers; users and faults may stop.
Fairness ==
    \A c \in Client :
        /\ WF_vars(Attempt(c)) /\ WF_vars(ReceiveAck(c)) /\ WF_vars(ReceiveBroadcast(c))
        /\ WF_vars(Connect(c)) /\ WF_vars(NoticeDrop(c)) /\ WF_vars(HubUpdates(c))

FairSpec == Spec /\ Fairness

-----------------------------------------------------------------------------
(* Properties.                                                             *)

HubType == log \in Seq(Commit) /\ hubWrites \in Nat
CliType ==
    /\ cache \in [Client -> Cached]
    /\ jobs \in [Client -> Seq(Job)] /\ calls \in Nat
    /\ waiting \in [Client -> BOOLEAN]
NetType ==
    /\ link \in [Client -> {"up", "dead", "down"}]
    /\ unsent \in [Client -> Seq(Request)] /\ uplink \in [Client -> Seq(Request)]
    /\ late \in SUBSET Request
    /\ downlink \in [Client -> Seq(Reply)]
FaultsType == faults \in [FaultKind -> Nat]

\* Every variable keeps its type.
TypeOK == HubType /\ CliType /\ NetType /\ FaultsType

NoAck(line) == \A k \in DOMAIN line : line[k].kind = "broadcast"
OneAck(line) ==
    \A k, l \in DOMAIN line :
        line[k].kind # "broadcast" /\ line[l].kind # "broadcast" => k = l

\* The lock and emitWithAck keep one update in flight: an ack that arrives
\* answers the job that holds the lock, also across lost transports.
OneInFlight ==
    \A c \in Client :
        /\ waiting[c] => jobs[c] # <<>>
        /\ ~waiting[c] => uplink[c] = <<>> /\ unsent[c] = <<>> /\ NoAck(downlink[c])
        /\ uplink[c] # <<>> => Len(uplink[c]) = 1 /\ NoAck(downlink[c])
        /\ unsent[c] # <<>> => Len(unsent[c]) = 1
        /\ OneAck(downlink[c])

\* What process c reads at commit k; 0 stands for no value.
Reading(c, k) == IF k = 0 THEN NoValue ELSE Parsed(c, log[k].value)

\* A cached value is the value committed at the cached version as the process
\* reads it; only when the process refuses that value it is, under the same
\* version, one that it read before (none, if it never read one).  Acks,
\* mismatches and broadcasts never pair a value with a version otherwise.
CacheIsHistory ==
    \A c \in Client :
        /\ cache[c].version \in DOMAIN log /\ cache[c].basis \in DOMAIN log \cup {0}
        /\ cache[c].value = Reading(c, cache[c].basis)
        /\ cache[c].basis # cache[c].version => ~Parses(c, log[cache[c].version].value)

\* The three ways in which a commit changes a field that its update is not
\* about.  An attaching process rebuilds the value without `mode`; an older
\* build drops a field it does not know; and a process that refuses the value
\* it overwrites puts back what it read before.
Rebuilt(w, f) == w.update = "attach" /\ f = "mode" /\ w.value[f] = Missing
Stripped(w, f) == f \in Unknown[w.by] /\ w.value[f] = Missing
Reverted(w, prior, f) == ~Parses(w.by, prior) /\ w.value[f] = Reading(w.by, w.basis)[f]

Rightful(w, prior, f) ==
    \/ w.value[f] = prior[f]
    \/ f \in Touches(w.update)
    \/ /\ w.by \in Client
       /\ f \in Carried => w.value[f] # Missing
       /\ Rebuilt(w, f) \/ Stripped(w, f) \/ Reverted(w, prior, f)

\* No lost update: a commit changes only what its update is about, however
\* late it was sent and whatever was committed meanwhile, but for these three
\* ways; and none of them loses a carried field.
OnlyOwnFields ==
    \A k \in DOMAIN log \ {1} : \A f \in Field : Rightful(log[k], log[k - 1].value, f)

\* The updates of a slot are committed in the order of the calls: a request
\* that arrives late never undoes a younger one.
CommitsInOrder ==
    \A k, l \in DOMAIN log : k < l /\ log[k].by = log[l].by => log[k].call <= log[l].call

\* Every commit is one update applied to the value that is current when it is
\* committed (a process that refuses it applies it to one it read before), and
\* a process's updates take effect in the order of its calls: caches, versions,
\* retries and late requests implement a register with atomic updates.
Atomic == INSTANCE AtomicMetadata WITH history <- log, Call <- 1..MaxUpdates
AtomicUpdates == Atomic!Spec

\* An update is retried until it is committed: the lock is never held for good.
UpdatesSettle == \A c \in Client : jobs[c] # <<>> ~> jobs[c] = <<>>

=============================================================================
