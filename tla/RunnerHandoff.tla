---------------------------- MODULE RunnerHandoff ----------------------------
(***************************************************************************)
(* The runner daemon of a machine (cli/src/runner/run.ts, controlClient.ts *)
(* and the files of persistence.ts): processes that start, stop, die and   *)
(* hand the machine over to a replacement after the CLI was upgraded, and  *)
(* that only meet in two files, the runner's state and its lock.           *)
(*                                                                         *)
(* A process runs its start-up and shut-down in one chain of awaits (`pc`) *)
(* and, once it serves the machine, a heartbeat beside it (`beat`).  Each   *)
(* action is what the process does between two awaits at which another     *)
(* process can come in.  Live pids are runners: a pid is never reused by    *)
(* another program.  Process 1 and the others start in that order.          *)
(***************************************************************************)
EXTENDS Naturals, FiniteSets

CONSTANTS
    MaxProcs,       \* bound: processes ever started
    MaxUpgrades,    \* bound: times the installed CLI changes
    MaxKills        \* bound: crashes, requests to stop and processes that the
                    \* system refuses to start, together

ASSUME RunnerAssumption ==
    MaxProcs \in Nat \ {0} /\ MaxUpgrades \in Nat /\ MaxKills \in Nat

Proc == 1..MaxProcs
NoProc == 0
Version == 0..MaxUpgrades
NoFile == [pid |-> NoProc, version |-> 0]

VARIABLES
    pc,         \* where a process is in startRunner
    beat,       \* what its heartbeat is doing
    env,        \* its HAPI_RUNNER_HANDOFF_FROM_PID and the pid it waits for
    own,        \* startedWithCliMtimeMs, a requested shutdown, a deferred
                \* handoff
    stateFile,  \* runner.state.json: whose it is, and that one's version
    lockFile,   \* runner.state.json.lock: the pid in it
    installed,  \* the CLI on the disk
    kills,      \* how many so far
    past        \* history: what the properties are told

files == <<stateFile, lockFile>>
world == <<installed, kills>>
vars == <<pc, beat, env, own, files, world, past>>

Pc == {"none", "boot", "check", "clearState", "clearLock", "stop", "stopWait", "lock",
       "unlink", "auth", "register", "running", "closing", "sweepState", "sweepLock",
       "release", "dead"}
Backoff == {"none", "new", "old"}
Beat == {"idle", "write", "handing", "relock", "unlink"}

\* The start-up is over once the state file names the process; it serves the
\* machine while its socket to the hub is up.
Committed == {"register", "running"}
Serving == {"running", "closing"}

\* "served": a runner has served the machine; "refused": the hub refused to
\* register one; "displaced": one stopped itself for the pid it found;
\* "disturbed": one was killed, or told to stop by another than its authorised
\* replacement; "outwaited": one gave up its lock to a process that was still
\* starting up when its own attempts ran out; "unspawned": the system refused to
\* start a replacement, and the old runner took its own error for a reason to stop;
\* "stolen": the lock file of a live process was removed by another.
Past == {"served", "refused", "displaced", "disturbed", "outwaited", "unspawned", "stolen"}

\* The five by which a machine can lose its last runner.  A refusal and a lock given
\* up are kept only as the first of them: later ones change no property.
Losses == {"refused", "displaced", "disturbed", "outwaited", "unspawned"}
FirstLoss(why) == IF past \cap Losses = {} THEN {why} ELSE {}

TypeOK ==
    /\ pc \in [Proc -> Pc]
    /\ beat \in [Proc -> Beat]
    /\ env \in [Proc -> [parent : Proc \cup {NoProc}, target : Proc \cup {NoProc}]]
    /\ own \in [Proc -> [version : Version, requested : BOOLEAN, backoff : Backoff]]
    /\ stateFile \in [pid : Proc \cup {NoProc}, version : Version]
    /\ lockFile \in Proc \cup {NoProc}
    /\ installed \in Version /\ kills \in 0..MaxKills
    /\ past \in SUBSET Past

Fresh == [version |-> 0, requested |-> FALSE, backoff |-> "none"]
NoEnv == [parent |-> NoProc, target |-> NoProc]

Init ==
    /\ pc = [p \in Proc |-> "none"]
    /\ beat = [p \in Proc |-> "idle"]
    /\ env = [p \in Proc |-> NoEnv]
    /\ own = [p \in Proc |-> Fresh]
    /\ stateFile = NoFile /\ lockFile = NoProc
    /\ installed = 0 /\ kills = 0
    /\ past = {}

-----------------------------------------------------------------------------
Alive(p) == p \in Proc /\ pc[p] \notin {"none", "dead"}

Goto(p, to) == pc' = [pc EXCEPT ![p] = to]

\* The lock file is removed, by whoever does it; what the history keeps of that.
Stolen(p) == IF lockFile # p /\ Alive(lockFile) THEN {"stolen"} ELSE {}

RemoveLock(p) ==
    /\ lockFile' = NoProc
    /\ past' = past \cup Stolen(p)

\* A process that ends takes its memory with it and leaves the files as they are.
Exit(p) ==
    /\ Goto(p, "dead")
    /\ beat' = [beat EXCEPT ![p] = "idle"]
    /\ env' = [env EXCEPT ![p] = NoEnv]
    /\ own' = [own EXCEPT ![p] = Fresh]

\* requestShutdown: a running process begins its clean-up, one that is still
\* starting up finds the request when it is done; the exit is forced in a second.
RequestShutdown(p) ==
    /\ own' = [own EXCEPT ![p].requested = TRUE]
    /\ pc' = [pc EXCEPT ![p] = IF @ = "running" THEN "closing" ELSE @]

\* Only a process in these states has a control server and listens to signals
\* with something to clean up.
Listens(p) == pc[p] \in {"register", "running"}

-----------------------------------------------------------------------------
\* A process is started by its user (no parent) or by the one it is to replace.
Unused == {p \in Proc : pc[p] = "none"}
NextProc == CHOOSE p \in Unused : \A q \in Unused : p <= q

Start ==
    /\ Unused # {}
    /\ Goto(NextProc, "boot")
    /\ UNCHANGED <<beat, env, own, files, world, past>>

\* An authorised replacement goes straight for the lock.  Any other process
\* looks at the state file first, also one whose parent is not the runner any more.
IsAuthorizedHandoff(p) ==
    env[p].parent # NoProc /\ stateFile.pid = env[p].parent /\ Alive(stateFile.pid)

\* Mutant: a replacement stops its parent before it has the lock (the protocol
\* that the comment at run.ts:117-123 gave up).
BootStopsParent(p) ==
    /\ pc[p] = "boot"
    /\ Goto(p, CASE IsAuthorizedHandoff(p) -> "stop"
                 [] stateFile = NoFile -> "stop"
                 [] Alive(stateFile.pid) /\ ~IsAuthorizedHandoff(p) -> "check"
                 [] OTHER -> "clearState")
    /\ env' = [env EXCEPT ![p].parent = IF IsAuthorizedHandoff(p) THEN @ ELSE NoProc]
    /\ UNCHANGED <<beat, own, files, world, past>>

Boot(p) ==
    /\ pc[p] = "boot"
    /\ Goto(p, CASE IsAuthorizedHandoff(p) -> "lock"
                 [] stateFile = NoFile -> "stop"
                 [] Alive(stateFile.pid) /\ ~IsAuthorizedHandoff(p) -> "check"
                 [] OTHER -> "clearState")
    /\ env' = [env EXCEPT ![p].parent = IF IsAuthorizedHandoff(p) THEN @ ELSE NoProc]
    /\ UNCHANGED <<beat, own, files, world, past>>

\* clearRunnerState, over files that may have changed hands since they were read.
ClearState(p) ==
    /\ pc[p] = "clearState"
    /\ stateFile' = NoFile
    /\ Goto(p, "clearLock")
    /\ UNCHANGED <<beat, env, own, lockFile, world, past>>

ClearLock(p) ==
    /\ pc[p] = "clearLock"
    /\ RemoveLock(p)
    /\ Goto(p, "stop")
    /\ UNCHANGED <<beat, env, own, stateFile, world>>

\* isRunnerRunningCurrentlyInstalledHappyVersion, its second look at the file.
CheckVersion(p) ==
    /\ pc[p] = "check"
    /\ IF stateFile # NoFile /\ stateFile.version = installed
       THEN Exit(p)
       ELSE Goto(p, "stop") /\ UNCHANGED <<beat, env, own>>
    /\ UNCHANGED <<files, world, past>>

\* stopRunner: the running one is told to stop and awaited, for 2 s.
StopRunner(p) ==
    /\ pc[p] = "stop"
    /\ IF stateFile = NoFile
       THEN Goto(p, "lock") /\ UNCHANGED <<env, own, past>>
       ELSE LET t == stateFile.pid IN
            /\ env' = [env EXCEPT ![p].target = t]
            /\ own' = [own EXCEPT ![t].requested = @ \/ Listens(t)]
            /\ pc' = [pc EXCEPT ![p] = "stopWait",
                                ![t] = IF @ = "running" THEN "closing" ELSE @]
            /\ past' = past \cup (IF Listens(t) /\ env[p].parent = NoProc
                                  THEN {"disturbed"} ELSE {})
    /\ UNCHANGED <<beat, files, world>>

StopWaitEnds(p) ==
    /\ pc[p] = "stopWait"
    /\ \/ /\ ~Alive(env[p].target)
          /\ Goto(p, "lock")
          /\ env' = [env EXCEPT ![p].target = NoProc]
          /\ UNCHANGED <<beat, own>>
       \/ Alive(env[p].target) /\ Exit(p)
    /\ UNCHANGED <<files, world, past>>

\* acquireRunnerLock: the file is created, or taken for stale when its process is
\* dead and removed by a second call, or the attempts run out.
Lock(p) ==
    /\ pc[p] = "lock"
    /\ \/ lockFile = NoProc /\ lockFile' = p /\ Goto(p, "auth")
          /\ UNCHANGED <<beat, env, own>>
       \/ lockFile # NoProc /\ ~Alive(lockFile) /\ Goto(p, "unlink")
          /\ UNCHANGED <<beat, env, own, lockFile>>
       \/ Alive(lockFile) /\ Exit(p) /\ UNCHANGED lockFile
    /\ UNCHANGED <<stateFile, world, past>>

Unlink(p) ==
    /\ pc[p] = "unlink"
    /\ RemoveLock(p)
    /\ Goto(p, "lock")
    /\ UNCHANGED <<beat, env, own, stateFile, world>>

\* authAndSetupMachineIfNeeded: it fails and the process exits with the lock in
\* place, or it succeeds, the control server comes up and the state is written.
\* The version on record is the one on the disk by then.
AuthFails(p) ==
    /\ pc[p] = "auth"
    /\ Exit(p)
    /\ UNCHANGED <<files, world, past>>

Commit(p) ==
    /\ pc[p] = "auth"
    /\ own' = [own EXCEPT ![p].version = installed]
    /\ stateFile' = [pid |-> p, version |-> installed]
    /\ Goto(p, "register")
    /\ UNCHANGED <<beat, env, lockFile, world, past>>

\* getOrCreateMachine, and the connection to the hub.  The first loses patience
\* or is refused: the process exits and leaves both files.
RegisterFails(p) ==
    /\ pc[p] = "register"
    /\ Exit(p)
    /\ past' = past \cup FirstLoss("refused")
    /\ UNCHANGED <<files, world>>

Register(p) ==
    /\ pc[p] = "register"
    /\ Goto(p, IF own[p].requested THEN "closing" ELSE "running")
    /\ past' = past \cup {"served"}
    /\ UNCHANGED <<beat, env, own, files, world>>

-----------------------------------------------------------------------------
\* The heartbeat of a running process, every minute unless the last is not over.
Outdated(p) == installed # own[p].version /\ own[p].backoff = "none"
BeatStarts(p) == pc[p] = "running" /\ beat[p] = "idle"

\* An outdated process starts its replacement and gives up the lock (whoever has
\* it by now) ...
SpawnReplacement(p) ==
    /\ BeatStarts(p) /\ Outdated(p) /\ Unused # {}
    /\ Goto(NextProc, "boot")
    /\ env' = [env EXCEPT ![NextProc].parent = p]
    /\ RemoveLock(p)
    /\ beat' = [beat EXCEPT ![p] = "handing"]
    /\ UNCHANGED <<own, stateFile, world>>

\* ... or the call that starts it throws, and it tries again in five minutes ...
SpawnFails(p) ==
    /\ BeatStarts(p) /\ Outdated(p)
    /\ own' = [own EXCEPT ![p].backoff = "new"]
    /\ UNCHANGED <<pc, beat, env, files, world, past>>

\* ... or the system refuses the new process, which the call reports later, by an
\* event nobody listens to: the handoff goes on without a replacement, and the
\* uncaught exception makes the old process shut down.
SpawnErrors(p) ==
    /\ kills < MaxKills /\ BeatStarts(p) /\ Outdated(p)
    /\ kills' = kills + 1
    /\ lockFile' = NoProc
    /\ beat' = [beat EXCEPT ![p] = "handing"]
    /\ RequestShutdown(p)
    /\ past' = past \cup Stolen(p) \cup {"unspawned"}
    /\ UNCHANGED <<env, stateFile, installed>>

\* waitForRunnerHandoff, a poll that finds another live runner in the file: the
\* old process exits as it is.
HandoffConfirmed(p) ==
    /\ beat[p] = "handing"
    /\ stateFile.pid # p /\ Alive(stateFile.pid)
    /\ Exit(p)
    /\ UNCHANGED <<files, world, past>>

\* The wait is over after 30 s: the lock is acquired again, or its attempts run
\* out because another process has it.
HandoffTimesOut(p) ==
    /\ beat[p] = "handing"
    /\ beat' = [beat EXCEPT ![p] = "relock"]
    /\ UNCHANGED <<pc, env, own, files, world, past>>

\* Mutant: a runner that cannot get its lock back stays without it.
RelockOrStay(p) ==
    /\ beat[p] = "relock"
    /\ beat' = [beat EXCEPT ![p] = "idle"]
    /\ own' = [own EXCEPT ![p].backoff = "new"]
    /\ lockFile' = IF lockFile = NoProc THEN p ELSE lockFile
    /\ UNCHANGED <<pc, env, stateFile, world, past>>

Relock(p) ==
    /\ beat[p] = "relock"
    /\ \/ lockFile = NoProc /\ lockFile' = p
          /\ beat' = [beat EXCEPT ![p] = "idle"]
          /\ own' = [own EXCEPT ![p].backoff = "new"]
          /\ UNCHANGED <<pc, env, past>>
       \/ lockFile # NoProc /\ ~Alive(lockFile)
          /\ beat' = [beat EXCEPT ![p] = "unlink"]
          /\ UNCHANGED <<pc, env, own, lockFile, past>>
       \/ Alive(lockFile) /\ Exit(p)
          /\ past' = past \cup (IF pc[lockFile] \in Committed THEN {}
                               ELSE FirstLoss("outwaited"))
          /\ UNCHANGED lockFile
    /\ UNCHANGED <<stateFile, world>>

RelockUnlink(p) ==
    /\ beat[p] = "unlink"
    /\ RemoveLock(p)
    /\ beat' = [beat EXCEPT ![p] = "relock"]
    /\ UNCHANGED <<pc, env, own, stateFile, world>>

\* The backoff of five minutes is over; heartbeats of a minute came in between.
RetryDue(p) ==
    /\ pc[p] = "running" /\ own[p].backoff = "old"
    /\ own' = [own EXCEPT ![p].backoff = "none"]
    /\ UNCHANGED <<pc, beat, env, files, world, past>>

\* Otherwise the heartbeat reads the state file: a process that finds another's
\* pid in it asks itself to stop, and writes its own pid over it all the same.
\* Mutant: the heartbeat does not look whose file it is.
HeartbeatBlind(p) ==
    /\ BeatStarts(p) /\ ~Outdated(p)
    /\ beat' = [beat EXCEPT ![p] = "write"]
    /\ UNCHANGED <<pc, own, env, files, world, past>>

HeartbeatRead(p) ==
    /\ BeatStarts(p) /\ ~Outdated(p)
    /\ beat' = [beat EXCEPT ![p] = "write"]
    /\ IF stateFile.pid \notin {NoProc, p}
       THEN /\ RequestShutdown(p)
            /\ past' = past \cup {"displaced"}
       ELSE UNCHANGED <<pc, own, past>>
    /\ UNCHANGED <<env, files, world>>

\* Mutant: the heartbeat only refreshes a file that is still its own.
HeartbeatRefresh(p) ==
    /\ beat[p] = "write"
    /\ stateFile' = IF stateFile.pid = p THEN [pid |-> p, version |-> own[p].version]
                    ELSE stateFile
    /\ beat' = [beat EXCEPT ![p] = "idle"]
    /\ own' = [own EXCEPT ![p].backoff = IF @ = "new" THEN "old" ELSE @]
    /\ UNCHANGED <<pc, env, lockFile, world, past>>

HeartbeatWrite(p) ==
    /\ beat[p] = "write"
    /\ stateFile' = [pid |-> p, version |-> own[p].version]
    /\ beat' = [beat EXCEPT ![p] = "idle"]
    /\ own' = [own EXCEPT ![p].backoff = IF @ = "new" THEN "old" ELSE @]
    /\ UNCHANGED <<pc, env, lockFile, world, past>>

-----------------------------------------------------------------------------
\* cleanupAndShutdown: the link to the hub, the state file and the lock file,
\* whoever they belong to by then.
CloseLink(p) ==
    /\ pc[p] = "closing"
    /\ Goto(p, "sweepState")
    /\ UNCHANGED <<beat, env, own, files, world, past>>

SweepState(p) ==
    /\ pc[p] = "sweepState"
    /\ stateFile' = NoFile
    /\ Goto(p, "sweepLock")
    /\ UNCHANGED <<beat, env, own, lockFile, world, past>>

SweepLock(p) ==
    /\ pc[p] = "sweepLock"
    /\ RemoveLock(p)
    /\ Goto(p, "release")
    /\ UNCHANGED <<beat, env, own, stateFile, world>>

ReleaseLock(p) ==
    /\ pc[p] = "release"
    /\ RemoveLock(p)
    /\ Exit(p)
    /\ UNCHANGED <<stateFile, world>>

\* The forced exit a second after requestShutdown, wherever the process is.
ForcedExit(p) ==
    /\ Alive(p) /\ own[p].requested
    /\ Exit(p)
    /\ UNCHANGED <<files, world, past>>

\* From outside: the user or the hub stops a runner, a process is killed, the CLI
\* is upgraded.
StopRequested(p) ==
    /\ kills < MaxKills /\ Listens(p)
    /\ kills' = kills + 1
    /\ RequestShutdown(p)
    /\ past' = past \cup {"disturbed"}
    /\ UNCHANGED <<beat, env, files, installed>>

Crash(p) ==
    /\ kills < MaxKills /\ Alive(p)
    /\ kills' = kills + 1
    /\ Exit(p)
    /\ past' = past \cup {"disturbed"}
    /\ UNCHANGED <<files, installed>>

Upgrade ==
    /\ installed < MaxUpgrades
    /\ installed' = installed + 1
    /\ UNCHANGED <<pc, beat, env, own, files, kills, past>>

StartUp(p) ==
    \/ Boot(p) \/ ClearState(p) \/ ClearLock(p) \/ CheckVersion(p)
    \/ StopRunner(p) \/ StopWaitEnds(p) \/ Lock(p) \/ Unlink(p)
    \/ Commit(p) \/ Register(p)

CleanUp(p) ==
    \/ CloseLink(p) \/ SweepState(p) \/ SweepLock(p) \/ ReleaseLock(p)

Heartbeat(p) ==
    \/ SpawnReplacement(p) \/ SpawnFails(p) \/ SpawnErrors(p)
    \/ HandoffConfirmed(p) \/ HandoffTimesOut(p)
    \/ Relock(p) \/ RelockUnlink(p) \/ HeartbeatRead(p) \/ HeartbeatWrite(p)

Fault(p) == AuthFails(p) \/ RegisterFails(p) \/ StopRequested(p) \/ Crash(p)

Next ==
    \/ Start \/ Upgrade
    \/ \E p \in Proc :
        \/ StartUp(p) \/ CleanUp(p) \/ Heartbeat(p)
        \/ RetryDue(p) \/ ForcedExit(p) \/ Fault(p)

Spec == Init /\ [][Next]_vars

\* A process goes on with what it has begun; its heartbeat comes again.
FairSpec ==
    /\ Spec
    /\ \A p \in Proc : WF_vars(StartUp(p) \/ CleanUp(p)) /\ WF_vars(Heartbeat(p))

-----------------------------------------------------------------------------
\* An upgrade does not leave the machine without a runner, wherever the
\* replacement fails and whoever else starts: from the first time the machine was
\* served a runner that is or will be serving is alive (run.ts:1074-1081), unless
\* one was killed or told to stop, or one of four things came about by which the
\* code loses it: the hub refused a runner, one displaced itself for another pid,
\* one exited because a replacement that is not up yet had its lock, or the system
\* refused to start a replacement.
MachineKeepsARunner ==
    ("served" \in past /\ past \cap Losses = {})
        => \E p \in Proc : pc[p] \in Committed

\* Two runners are there at once only while one of them hands over, unless one
\* process removed the lock file of another (persistence.ts:228-232).
TwoOnlyInHandoff ==
    "stolen" \notin past
        => \A p, q \in Proc :
            (p # q /\ pc[p] \in Committed /\ pc[q] \in Committed)
                => {beat[p], beat[q]} \cap {"handing", "relock", "unlink"} # {}

\* Two runners that serve the machine at once do not go on for ever: a heartbeat
\* finds the other's pid in the state file (run.ts:1164-1171), unless for ever one
\* is between its read and its write, which are milliseconds in a minute.
DuplicatesEnd ==
    []<>(\A p \in Proc : beat[p] # "write")
        => ((Cardinality({p \in Proc : pc[p] \in Serving}) > 1)
                ~> (Cardinality({p \in Proc : pc[p] \in Serving}) < 2))

\* Once a runner serves the machine, commands find a live runner in the state
\* file again and again, whatever removed or overwrote the file, or none serves.
StateNamesARunner ==
    []<>(Alive(stateFile.pid) \/ \A p \in Proc : pc[p] # "running")

=============================================================================
