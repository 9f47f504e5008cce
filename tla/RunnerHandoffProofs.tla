------------------------- MODULE RunnerHandoffProofs -------------------------
(***************************************************************************)
(* What TLAPS proves of RunnerHandoff for every number of processes,       *)
(* upgrades and faults: the type invariant, that two runners are there at  *)
(* once only while one hands over, and that an upgrade does not leave the  *)
(* machine without a runner.                                               *)
(***************************************************************************)
EXTENDS RunnerHandoff, NaturalsInduction, WellFoundedInduction, TLAPS

USE RunnerAssumption DEF RunnerAssumption

-----------------------------------------------------------------------------
(* Type correctness.                                                       *)

LEMMA ProcIsNat == Proc \subseteq Nat /\ NoProc \notin Proc /\ NoProc \in Nat
BY DEF Proc, NoProc

\* The process that starts next is one that has not run.
LEMMA NextIsUnused ==
    ASSUME Unused # {}
    PROVE  NextProc \in Unused
<1>1. IsWellFoundedOn(OpToRel(<, Nat), Nat)
  BY NatLessThanWellFounded
<1>2. Unused \subseteq Nat
  BY ProcIsNat DEF Unused
<1>3. PICK x \in Unused : \A y \in Unused : ~(<<y, x>> \in OpToRel(<, Nat))
  BY <1>1, <1>2, WFMin
<1>4. \A y \in Unused : ~(y < x)
  BY <1>2, <1>3 DEF OpToRel
<1>5. \E z \in Unused : \A q \in Unused : z <= q
  BY <1>2, <1>4
<1> QED BY <1>5 DEF NextProc

LEMMA FileTypes ==
    /\ NoFile \in [pid : Proc \cup {NoProc}, version : Version]
    /\ \A p \in Proc, v \in Version : [pid |-> p, version |-> v] \in [pid : Proc \cup {NoProc}, version : Version]
    /\ Fresh \in [version : Version, requested : BOOLEAN, backoff : Backoff]
    /\ NoEnv \in [parent : Proc \cup {NoProc}, target : Proc \cup {NoProc}]
BY DEF NoFile, Fresh, NoEnv, Version, Backoff

\* Steps that are built from the same pieces keep the types of those pieces.
LEMMA ExitType ==
    ASSUME TypeOK, NEW p \in Proc, Exit(p)
    PROVE  /\ pc' \in [Proc -> Pc]
           /\ beat' \in [Proc -> Beat]
           /\ env' \in [Proc -> [parent : Proc \cup {NoProc}, target : Proc \cup {NoProc}]]
           /\ own' \in [Proc -> [version : Version, requested : BOOLEAN, backoff : Backoff]]
BY FileTypes DEF TypeOK, Exit, Goto, Pc, Beat

LEMMA RemoveLockType ==
    ASSUME TypeOK, NEW p \in Proc, RemoveLock(p)
    PROVE  lockFile' \in Proc \cup {NoProc} /\ past' \in SUBSET Past
BY DEF TypeOK, RemoveLock, Stolen, Past

LEMMA RequestType ==
    ASSUME TypeOK, NEW p \in Proc, RequestShutdown(p)
    PROVE  /\ pc' \in [Proc -> Pc]
           /\ own' \in [Proc -> [version : Version, requested : BOOLEAN, backoff : Backoff]]
BY DEF TypeOK, RequestShutdown, Pc

LEMMA StartUpType ==
    ASSUME TypeOK, NEW p \in Proc, StartUp(p)
    PROVE  TypeOK'
<1>1. CASE Boot(p)
  BY <1>1 DEF Boot, Goto, TypeOK, Pc, files, world
<1>2. CASE ClearState(p)
  BY <1>2, FileTypes DEF ClearState, Goto, TypeOK, Pc, world
<1>3. CASE ClearLock(p)
  BY <1>3, RemoveLockType DEF ClearLock, Goto, TypeOK, Pc, world
<1>4. CASE CheckVersion(p)
  <2>1. CASE Exit(p)
    BY <1>4, <2>1, ExitType DEF CheckVersion, TypeOK, files, world
  <2>2. CASE ~Exit(p)
    BY <1>4, <2>2 DEF CheckVersion, Goto, TypeOK, Pc, files, world
  <2> QED BY <2>1, <2>2
<1>5. CASE StopRunner(p)
  <2>1. CASE stateFile = NoFile
    BY <1>5, <2>1 DEF StopRunner, Goto, TypeOK, Pc, files, world
  <2>2. CASE stateFile # NoFile
    <3> DEFINE t == stateFile.pid
    <3>1. t \in Proc \cup {NoProc}
      BY DEF TypeOK
    <3>2. env' \in [Proc -> [parent : Proc \cup {NoProc}, target : Proc \cup {NoProc}]]
      BY <1>5, <2>2, <3>1 DEF StopRunner, TypeOK
    <3>3. own' \in [Proc -> [version : Version, requested : BOOLEAN, backoff : Backoff]]
      <4> DEFINE asked == own[t].requested \/ Listens(t)
      <4>1. asked \in BOOLEAN
        OBVIOUS
      <4>2. own' = [own EXCEPT ![t].requested = asked]
        BY <1>5, <2>2, Zenon DEF StopRunner
      <4> HIDE DEF asked
      <4> QED BY <4>1, <4>2 DEF TypeOK
    <3>4. pc' \in [Proc -> Pc]
      BY <1>5, <2>2, <3>1 DEF StopRunner, TypeOK, Pc
    <3> QED BY <1>5, <2>2, <3>2, <3>3, <3>4 DEF StopRunner, TypeOK, Past, files, world
  <2> QED BY <2>1, <2>2
<1>6. CASE StopWaitEnds(p)
  <2>1. CASE Exit(p)
    BY <1>6, <2>1, ExitType DEF StopWaitEnds, TypeOK, files, world
  <2>2. CASE ~Exit(p)
    BY <1>6, <2>2 DEF StopWaitEnds, Goto, TypeOK, Pc, files, world
  <2> QED BY <2>1, <2>2
<1>7. CASE Lock(p)
  <2>1. CASE Exit(p)
    BY <1>7, <2>1, ExitType DEF Lock, TypeOK, world
  <2>2. CASE ~Exit(p)
    BY <1>7, <2>2 DEF Lock, Goto, TypeOK, Pc, world
  <2> QED BY <2>1, <2>2
<1>8. CASE Unlink(p)
  BY <1>8, RemoveLockType DEF Unlink, Goto, TypeOK, Pc, world
<1>9. CASE Commit(p)
  BY <1>9, FileTypes DEF Commit, Goto, TypeOK, Pc, world
<1>10. CASE Register(p)
  BY <1>10 DEF Register, Goto, TypeOK, Pc, Past, files, world
<1> QED
  BY <1>1, <1>2, <1>3, <1>4, <1>5, <1>6, <1>7, <1>8, <1>9, <1>10 DEF StartUp

LEMMA CleanUpType ==
    ASSUME TypeOK, NEW p \in Proc, CleanUp(p)
    PROVE  TypeOK'
<1>1. CASE CloseLink(p)
  BY <1>1 DEF CloseLink, Goto, TypeOK, Pc, files, world
<1>2. CASE SweepState(p)
  BY <1>2, FileTypes DEF SweepState, Goto, TypeOK, Pc, world
<1>3. CASE SweepLock(p)
  BY <1>3, RemoveLockType DEF SweepLock, Goto, TypeOK, Pc, world
<1>4. CASE ReleaseLock(p)
  BY <1>4, RemoveLockType, ExitType DEF ReleaseLock, TypeOK, world
<1> QED BY <1>1, <1>2, <1>3, <1>4 DEF CleanUp

LEMMA HeartbeatType ==
    ASSUME TypeOK, NEW p \in Proc, Heartbeat(p)
    PROVE  TypeOK'
<1>1. CASE SpawnReplacement(p)
  <2>1. NextProc \in Proc
    BY <1>1, NextIsUnused DEF SpawnReplacement, Unused
  <2>2. /\ pc' \in [Proc -> Pc]
        /\ beat' \in [Proc -> Beat]
    BY <1>1, <2>1 DEF SpawnReplacement, Goto, TypeOK, Pc, Beat
  <2>3. env' \in [Proc -> [parent : Proc \cup {NoProc}, target : Proc \cup {NoProc}]]
    BY <1>1, <2>1 DEF SpawnReplacement, TypeOK
  <2> QED BY <1>1, <2>2, <2>3, RemoveLockType DEF SpawnReplacement, TypeOK, world
<1>2. CASE SpawnFails(p)
  BY <1>2 DEF SpawnFails, TypeOK, Backoff, files, world
<1>9. CASE SpawnErrors(p)
  <2>1. beat' \in [Proc -> Beat] /\ lockFile' \in Proc \cup {NoProc} /\ kills' \in 0..MaxKills
    BY <1>9 DEF SpawnErrors, TypeOK, Beat
  <2>2. past' \in SUBSET Past
    BY <1>9 DEF SpawnErrors, Stolen, TypeOK, Past
  <2> QED BY <1>9, <2>1, <2>2, RequestType DEF SpawnErrors, TypeOK
<1>3. CASE HandoffConfirmed(p)
  BY <1>3, ExitType DEF HandoffConfirmed, TypeOK, files, world
<1>4. CASE HandoffTimesOut(p)
  BY <1>4 DEF HandoffTimesOut, TypeOK, Beat, files, world
<1>5. CASE Relock(p)
  <2>1. CASE Exit(p)
    BY <1>5, <2>1, ExitType DEF Relock, TypeOK, Past, FirstLoss, world
  <2>2. CASE ~Exit(p)
    BY <1>5, <2>2 DEF Relock, TypeOK, Beat, Backoff, world
  <2> QED BY <2>1, <2>2
<1>6. CASE RelockUnlink(p)
  BY <1>6, RemoveLockType DEF RelockUnlink, TypeOK, Beat, world
<1>7. CASE HeartbeatRead(p)
  <2>1. CASE RequestShutdown(p)
    BY <1>7, <2>1, RequestType DEF HeartbeatRead, TypeOK, Beat, Past, files, world
  <2>2. CASE ~RequestShutdown(p)
    BY <1>7, <2>2 DEF HeartbeatRead, TypeOK, Beat, files, world
  <2> QED BY <2>1, <2>2
<1>8. CASE HeartbeatWrite(p)
  <2>1. own[p].version \in Version
    BY DEF TypeOK
  <2>2. stateFile' \in [pid : Proc \cup {NoProc}, version : Version]
    BY <1>8, <2>1, FileTypes DEF HeartbeatWrite
  <2>3. own' \in [Proc -> [version : Version, requested : BOOLEAN, backoff : Backoff]]
    BY <1>8 DEF HeartbeatWrite, TypeOK, Backoff
  <2> QED BY <1>8, <2>2, <2>3 DEF HeartbeatWrite, TypeOK, Beat, world
<1> QED
  BY <1>1, <1>2, <1>3, <1>4, <1>5, <1>6, <1>7, <1>8, <1>9 DEF Heartbeat

LEMMA FaultType ==
    ASSUME TypeOK, NEW p \in Proc, Fault(p)
    PROVE  TypeOK'
<1>1. CASE AuthFails(p)
  BY <1>1, ExitType DEF AuthFails, TypeOK, files, world
<1>2. CASE RegisterFails(p)
  BY <1>2, ExitType DEF RegisterFails, TypeOK, Past, FirstLoss, files, world
<1>3. CASE StopRequested(p)
  BY <1>3, RequestType DEF StopRequested, TypeOK, Past, files
<1>4. CASE Crash(p)
  BY <1>4, ExitType DEF Crash, TypeOK, Past, files
<1> QED BY <1>1, <1>2, <1>3, <1>4 DEF Fault

LEMMA TypeStep == TypeOK /\ [Next]_vars => TypeOK'
<1> SUFFICES ASSUME TypeOK, [Next]_vars
             PROVE  TypeOK'
  OBVIOUS
<1>1. CASE Start
  <2>1. NextProc \in Proc
    BY <1>1, NextIsUnused DEF Start, Unused
  <2> QED BY <1>1, <2>1 DEF Start, Goto, TypeOK, Pc, files, world
<1>2. CASE Upgrade
  BY <1>2 DEF Upgrade, TypeOK, Version, files
<1>3. ASSUME NEW p \in Proc, StartUp(p) \/ CleanUp(p) \/ Heartbeat(p) \/ Fault(p)
      PROVE  TypeOK'
  BY <1>3, StartUpType, CleanUpType, HeartbeatType, FaultType
<1>4. ASSUME NEW p \in Proc, RetryDue(p)
      PROVE  TypeOK'
  BY <1>4 DEF RetryDue, TypeOK, Backoff, files, world
<1>5. ASSUME NEW p \in Proc, ForcedExit(p)
      PROVE  TypeOK'
  BY <1>5, ExitType DEF ForcedExit, TypeOK, files, world
<1>6. CASE UNCHANGED vars
  BY <1>6 DEF vars, TypeOK, files, world
<1> QED BY <1>1, <1>2, <1>3, <1>4, <1>5, <1>6 DEF Next

\* The variables hold what their comments say.
THEOREM TypeCorrect == Spec => []TypeOK
<1>1. Init => TypeOK
  BY FileTypes DEF Init, TypeOK, Pc, Beat, Past, Version
<1> QED BY <1>1, TypeStep, PTL DEF Spec

-----------------------------------------------------------------------------
(* Two runners only in a handoff.                                          *)
(*                                                                         *)
(* From the lock to the clean-up a runner holds the lock file, except      *)
(* while its heartbeat hands over: two that do not hand over would hold    *)
(* the same file.                                                          *)

HandingOver == {"handing", "relock", "unlink"}
HoldingPc == {"auth", "register", "running", "closing", "sweepState", "sweepLock"}
Holds(p) == pc[p] \in HoldingPc /\ beat[p] \notin HandingOver
LockIsHeld == "stolen" \notin past => \A p \in Proc : Holds(p) => lockFile = p

\* A lock file that names its holder is not taken away unless that is recorded.
LEMMA RemovedUnheld ==
    ASSUME TypeOK, LockIsHeld, NEW p \in Proc, RemoveLock(p), "stolen" \notin past',
           NEW q \in Proc, Holds(q)
    PROVE  q = p
<1>1. "stolen" \notin past /\ (lockFile # p => ~Alive(lockFile))
  BY DEF RemoveLock, Stolen, Stolen
<1>2. lockFile = q /\ Alive(q)
  BY <1>1 DEF LockIsHeld, Holds, HoldingPc, Alive
<1> QED BY <1>1, <1>2

LEMMA StartUpHolds ==
    ASSUME TypeOK, LockIsHeld, NEW p \in Proc, StartUp(p)
    PROVE  LockIsHeld'
<1> SUFFICES ASSUME "stolen" \notin past', NEW q \in Proc, Holds(q)'
             PROVE  lockFile' = q
  BY DEF LockIsHeld
<1> USE DEF Holds, HoldingPc, HandingOver
<1>1. CASE Boot(p)
  BY <1>1 DEF Boot, Goto, TypeOK, LockIsHeld, files
<1>2. CASE ClearState(p)
  BY <1>2 DEF ClearState, Goto, TypeOK, LockIsHeld
<1>3. CASE ClearLock(p)
  BY <1>3, RemovedUnheld DEF ClearLock, Goto, TypeOK
<1>4. CASE CheckVersion(p)
  BY <1>4 DEF CheckVersion, Exit, Goto, TypeOK, LockIsHeld, files
<1>5. CASE StopRunner(p)
  <2>1. pc[q] \in HoldingPc /\ UNCHANGED <<beat, lockFile>> /\ past \subseteq past'
    <3>1. CASE stateFile = NoFile
      BY <1>5, <3>1 DEF StopRunner, Goto, TypeOK, files
    <3>2. CASE stateFile # NoFile
      BY <1>5, <3>2 DEF StopRunner, TypeOK, files
    <3> QED BY <3>1, <3>2
  <2> QED BY <2>1 DEF LockIsHeld
<1>6. CASE StopWaitEnds(p)
  BY <1>6 DEF StopWaitEnds, Exit, Goto, TypeOK, LockIsHeld, files
<1>7. CASE Lock(p)
  BY <1>7, ProcIsNat DEF Lock, Exit, Goto, TypeOK, LockIsHeld
<1>8. CASE Unlink(p)
  BY <1>8, RemovedUnheld DEF Unlink, Goto, TypeOK
<1>9. CASE Commit(p)
  BY <1>9 DEF Commit, Goto, TypeOK, LockIsHeld
<1>10. CASE Register(p)
  BY <1>10 DEF Register, Goto, TypeOK, LockIsHeld, files
<1> QED
  BY <1>1, <1>2, <1>3, <1>4, <1>5, <1>6, <1>7, <1>8, <1>9, <1>10 DEF StartUp

LEMMA CleanUpHolds ==
    ASSUME TypeOK, LockIsHeld, NEW p \in Proc, CleanUp(p)
    PROVE  LockIsHeld'
<1> SUFFICES ASSUME "stolen" \notin past', NEW q \in Proc, Holds(q)'
             PROVE  lockFile' = q
  BY DEF LockIsHeld
<1> USE DEF Holds, HoldingPc, HandingOver
<1>1. CASE CloseLink(p)
  BY <1>1 DEF CloseLink, Goto, TypeOK, LockIsHeld, files
<1>2. CASE SweepState(p)
  BY <1>2 DEF SweepState, Goto, TypeOK, LockIsHeld
<1>3. CASE SweepLock(p)
  BY <1>3, RemovedUnheld DEF SweepLock, Goto, TypeOK
<1>4. CASE ReleaseLock(p)
  BY <1>4, RemovedUnheld DEF ReleaseLock, Exit, Goto, TypeOK
<1> QED BY <1>1, <1>2, <1>3, <1>4 DEF CleanUp

LEMMA HeartbeatHolds ==
    ASSUME TypeOK, LockIsHeld, NEW p \in Proc, Heartbeat(p)
    PROVE  LockIsHeld'
<1> SUFFICES ASSUME "stolen" \notin past', NEW q \in Proc, Holds(q)'
             PROVE  lockFile' = q
  BY DEF LockIsHeld
<1> USE DEF Holds, HoldingPc, HandingOver
<1>1. CASE SpawnReplacement(p)
  <2>1. NextProc \in Unused
    BY <1>1, NextIsUnused DEF SpawnReplacement
  <2>2. q # p /\ Holds(q)
    BY <1>1, <2>1 DEF SpawnReplacement, Goto, TypeOK, Unused
  <2> QED BY <1>1, <2>2, RemovedUnheld DEF SpawnReplacement
<1>2. CASE SpawnFails(p)
  BY <1>2 DEF SpawnFails, LockIsHeld, files
<1>9. CASE SpawnErrors(p)
  <2>1. q # p /\ Holds(q)
    BY <1>9 DEF SpawnErrors, RequestShutdown, BeatStarts, TypeOK
  <2>2. RemoveLock(p) \/ ("stolen" \notin past /\ (lockFile = p \/ ~Alive(lockFile)))
    BY <1>9 DEF SpawnErrors, Stolen
  <2> QED BY <1>9, <2>1, <2>2, RemovedUnheld DEF LockIsHeld, Alive
<1>3. CASE HandoffConfirmed(p)
  BY <1>3 DEF HandoffConfirmed, Exit, Goto, TypeOK, LockIsHeld, files
<1>4. CASE HandoffTimesOut(p)
  BY <1>4 DEF HandoffTimesOut, TypeOK, LockIsHeld, files
<1>5. CASE Relock(p)
  <2>1. CASE lockFile = NoProc
    BY <1>5, <2>1, ProcIsNat DEF Relock, Exit, Goto, TypeOK, LockIsHeld, Alive
  <2>2. CASE lockFile # NoProc
    BY <1>5, <2>2 DEF Relock, Exit, Goto, TypeOK, LockIsHeld
  <2> QED BY <2>1, <2>2
<1>6. CASE RelockUnlink(p)
  BY <1>6, RemovedUnheld DEF RelockUnlink, TypeOK
<1>7. CASE HeartbeatRead(p)
  BY <1>7 DEF HeartbeatRead, BeatStarts, RequestShutdown, TypeOK, LockIsHeld, files
<1>8. CASE HeartbeatWrite(p)
  BY <1>8 DEF HeartbeatWrite, TypeOK, LockIsHeld
<1> QED
  BY <1>1, <1>2, <1>3, <1>4, <1>5, <1>6, <1>7, <1>8, <1>9 DEF Heartbeat

LEMMA FaultHolds ==
    ASSUME TypeOK, LockIsHeld, NEW p \in Proc, Fault(p)
    PROVE  LockIsHeld'
<1> SUFFICES ASSUME "stolen" \notin past', NEW q \in Proc, Holds(q)'
             PROVE  lockFile' = q
  BY DEF LockIsHeld
<1> USE DEF Holds, HoldingPc, HandingOver
<1>1. CASE AuthFails(p)
  BY <1>1 DEF AuthFails, Exit, Goto, TypeOK, LockIsHeld, files
<1>2. CASE RegisterFails(p)
  BY <1>2 DEF RegisterFails, Exit, Goto, TypeOK, LockIsHeld, files
<1>3. CASE StopRequested(p)
  BY <1>3 DEF StopRequested, Listens, RequestShutdown, TypeOK, LockIsHeld, files
<1>4. CASE Crash(p)
  BY <1>4 DEF Crash, Exit, Goto, TypeOK, LockIsHeld, files
<1> QED BY <1>1, <1>2, <1>3, <1>4 DEF Fault

LEMMA HoldsStep == TypeOK /\ LockIsHeld /\ [Next]_vars => LockIsHeld'
<1> SUFFICES ASSUME TypeOK, LockIsHeld, [Next]_vars
             PROVE  LockIsHeld'
  OBVIOUS
<1> USE DEF Holds, HoldingPc, HandingOver
<1>1. CASE Start
  <2>1. NextProc \in Unused
    BY <1>1, NextIsUnused DEF Start
  <2> QED BY <1>1, <2>1 DEF Start, Goto, TypeOK, LockIsHeld, Unused, files
<1>2. CASE Upgrade
  BY <1>2 DEF Upgrade, LockIsHeld, files
<1>3. ASSUME NEW p \in Proc, StartUp(p) \/ CleanUp(p) \/ Heartbeat(p) \/ Fault(p)
      PROVE  LockIsHeld'
  BY <1>3, StartUpHolds, CleanUpHolds, HeartbeatHolds, FaultHolds
<1>4. ASSUME NEW p \in Proc, RetryDue(p)
      PROVE  LockIsHeld'
  BY <1>4 DEF RetryDue, LockIsHeld, files
<1>5. ASSUME NEW p \in Proc, ForcedExit(p)
      PROVE  LockIsHeld'
  BY <1>5 DEF ForcedExit, Exit, Goto, TypeOK, LockIsHeld, files
<1>6. CASE UNCHANGED vars
  BY <1>6 DEF vars, LockIsHeld, files
<1> QED BY <1>1, <1>2, <1>3, <1>4, <1>5, <1>6 DEF Next

\* As long as no process removed the lock file of another, a runner that is past
\* the lock and does not hand over is the one the lock file names
\* (persistence.ts:228-271).
THEOREM LockNamesTheRunner == Spec => []LockIsHeld
<1>1. Init => LockIsHeld
  BY DEF Init, LockIsHeld, Holds, HoldingPc
<1> QED BY <1>1, HoldsStep, TypeCorrect, PTL DEF Spec

\* Two runners are there at once only while one of them hands over, unless a
\* lock file was removed under its owner: the property of run upgrade.
THEOREM OneRunnerOutsideHandoff == Spec => []TwoOnlyInHandoff
<1>1. LockIsHeld => TwoOnlyInHandoff
  BY DEF LockIsHeld, Holds, HoldingPc, HandingOver, TwoOnlyInHandoff, Committed
<1> QED BY <1>1, LockNamesTheRunner, PTL

-----------------------------------------------------------------------------
(* A runner stays.                                                         *)
(*                                                                         *)
(* As long as nobody has told a runner to stop, one goes away by its own   *)
(* decision only, and that names another: the live one in the state file   *)
(* or the owner of the lock.  The first has committed, because only a       *)
(* process that did writes the file and none of them has been told to stop. *)

LookingPc == {"check", "clearState", "clearLock", "stop"}
EndingPc == {"closing", "sweepState", "sweepLock", "release"}
Calm == past \cap {"displaced", "disturbed", "unspawned"} = {}

\* Who looks for a runner to stop is not an authorised replacement.
LookersAreNotSent == \A p \in Proc : pc[p] \in LookingPc => env[p].parent = NoProc

NobodyStops == Calm => \A p \in Proc : ~own[p].requested /\ pc[p] \notin EndingPc
BeatsRun == Calm => \A p \in Proc : beat[p] # "idle" => pc[p] = "running"
HandedIsGiven == Calm => \A p \in Proc : beat[p] \in HandingOver => lockFile # p
StateIsTrue == (Calm /\ stateFile.pid \in Proc) => pc[stateFile.pid] \in Committed \cup {"dead"}

StaysInv == LookersAreNotSent /\ NobodyStops /\ BeatsRun /\ HandedIsGiven /\ StateIsTrue

\* Each step keeps the parts of the invariant.
LEMMA StartUpStays ==
    ASSUME TypeOK, StaysInv, NEW p \in Proc, StartUp(p)
    PROVE  StaysInv'
<1> USE ProcIsNat
       DEF StaysInv, LookersAreNotSent, NobodyStops, BeatsRun, HandedIsGiven, StateIsTrue,
           Calm, LookingPc, EndingPc, HandingOver, Committed, Alive, Fresh, NoFile
<1>1. CASE Boot(p)
  <2>1. PICK next \in {"lock", "stop", "check", "clearState"} :
          /\ pc' = [pc EXCEPT ![p] = next]
          /\ next # "lock" => env'[p].parent = NoProc
    <3>1. CASE IsAuthorizedHandoff(p)
      <4>1. Alive(stateFile.pid) /\ stateFile # NoFile
        BY <3>1 DEF IsAuthorizedHandoff
      <4>2. pc' = [pc EXCEPT ![p] = "lock"]
        BY <1>1, <3>1, <4>1, Zenon DEF Boot, Goto
      <4> QED BY <4>2
    <3>2. CASE ~IsAuthorizedHandoff(p)
      <4>1. env'[p].parent = NoProc
        BY <1>1, <3>2 DEF Boot, TypeOK
      <4>2. pc' = [pc EXCEPT ![p] = IF stateFile = NoFile THEN "stop"
                                    ELSE IF Alive(stateFile.pid) THEN "check" ELSE "clearState"]
        <5>1. ~(Alive(stateFile.pid) /\ stateFile = NoFile)
          BY DEF Alive, NoFile
        <5> QED BY <1>1, <3>2, <5>1 DEF Boot, Goto
      <4> QED BY <4>1, <4>2
    <3> QED BY <3>1, <3>2
  <2>2. \A q \in Proc : q # p => env'[q] = env[q]
    BY <1>1 DEF Boot, TypeOK
  <2>3. pc[p] = "boot" /\ UNCHANGED <<beat, own, stateFile, lockFile, past>>
    BY <1>1 DEF Boot, files
  <2> QED BY <2>1, <2>2, <2>3 DEF TypeOK
<1>2. CASE ClearState(p)
  BY <1>2 DEF ClearState, Goto, world, TypeOK
<1>3. CASE ClearLock(p)
  BY <1>3 DEF ClearLock, Goto, RemoveLock, Stolen, world, TypeOK
<1>4. CASE CheckVersion(p)
  <2>1. CASE Exit(p)
    BY <1>4, <2>1 DEF CheckVersion, Exit, Goto, TypeOK, files
  <2>2. CASE ~Exit(p)
    BY <1>4, <2>2 DEF CheckVersion, Goto, TypeOK, files
  <2> QED BY <2>1, <2>2
<1>5. CASE StopRunner(p)
  <2>1. CASE stateFile = NoFile
    BY <1>5, <2>1 DEF StopRunner, Goto, TypeOK, files
  <2>2. CASE stateFile # NoFile
    <3> DEFINE t == stateFile.pid
    <3>1. pc[p] = "stop" /\ env[p].parent = NoProc
      BY <1>5 DEF StopRunner
    <3>2. /\ past' = past \cup (IF Listens(t) THEN {"disturbed"} ELSE {})
          /\ UNCHANGED <<beat, stateFile, lockFile>>
      BY <1>5, <2>2, <3>1 DEF StopRunner, files
    <3>3. \A q \in Proc : env'[q].parent = env[q].parent
      BY <1>5, <2>2 DEF StopRunner, TypeOK
    <3>4. CASE Listens(t)
      <4>1. ~Calm'
        BY <3>2, <3>4
      <4>2. LookersAreNotSent'
        BY <1>5, <2>2, <3>3 DEF StopRunner, TypeOK
      <4> QED BY <4>1, <4>2
    <3>5. CASE ~Listens(t)
      <4>1. t \in Proc => pc[t] \notin {"register", "running"}
        BY <3>5 DEF Listens
      <4>2. pc' = [pc EXCEPT ![p] = "stopWait"]
        BY <1>5, <2>2, <3>1, <4>1 DEF StopRunner, TypeOK
      <4>3. \A q \in Proc : ~own[q].requested => ~own'[q].requested
        BY <1>5, <2>2, <3>5, ProcIsNat DEF StopRunner, TypeOK
      <4>4. past' = past
        BY <3>2, <3>5
      <4> QED BY <3>1, <3>2, <3>3, <4>2, <4>3, <4>4 DEF TypeOK
    <3> QED BY <3>4, <3>5
  <2> QED BY <2>1, <2>2
<1>6. CASE StopWaitEnds(p)
  <2>1. CASE Exit(p)
    BY <1>6, <2>1 DEF StopWaitEnds, Exit, Goto, TypeOK, files
  <2>2. CASE ~Exit(p)
    BY <1>6, <2>2 DEF StopWaitEnds, Goto, TypeOK, files
  <2> QED BY <2>1, <2>2
<1>7. CASE Lock(p)
  <2>1. CASE Exit(p)
    BY <1>7, <2>1 DEF Lock, Exit, Goto, TypeOK
  <2>2. CASE ~Exit(p)
    BY <1>7, <2>2 DEF Lock, Goto, TypeOK
  <2> QED BY <2>1, <2>2
<1>8. CASE Unlink(p)
  BY <1>8 DEF Unlink, Goto, RemoveLock, Stolen, world, TypeOK
<1>9. CASE Commit(p)
  BY <1>9 DEF Commit, Goto, world, TypeOK
<1>10. CASE Register(p)
  BY <1>10 DEF Register, Goto, files, world, TypeOK
<1> QED
  BY <1>1, <1>2, <1>3, <1>4, <1>5, <1>6, <1>7, <1>8, <1>9, <1>10 DEF StartUp

LEMMA CleanUpStays ==
    ASSUME TypeOK, StaysInv, NEW p \in Proc, CleanUp(p)
    PROVE  StaysInv'
<1> USE ProcIsNat
       DEF StaysInv, LookersAreNotSent, NobodyStops, BeatsRun, HandedIsGiven, StateIsTrue,
           Calm, LookingPc, EndingPc, HandingOver, Committed, Alive, Fresh, NoFile
<1>1. CASE CloseLink(p)
  BY <1>1 DEF CloseLink, Goto, files, world, TypeOK
<1>2. CASE SweepState(p)
  BY <1>2 DEF SweepState, Goto, world, TypeOK
<1>3. CASE SweepLock(p)
  BY <1>3 DEF SweepLock, Goto, RemoveLock, Stolen, world, TypeOK
<1>4. CASE ReleaseLock(p)
  BY <1>4 DEF ReleaseLock, Exit, RemoveLock, Stolen, world, Goto, TypeOK
<1> QED
  BY <1>1, <1>2, <1>3, <1>4 DEF CleanUp

LEMMA HeartbeatStays ==
    ASSUME TypeOK, StaysInv, NEW p \in Proc, Heartbeat(p)
    PROVE  StaysInv'
<1> USE ProcIsNat
       DEF StaysInv, LookersAreNotSent, NobodyStops, BeatsRun, HandedIsGiven, StateIsTrue,
           Calm, LookingPc, EndingPc, HandingOver, Committed, Alive, Fresh, NoFile
<1>1. CASE SpawnReplacement(p)
  <2> DEFINE n == NextProc
  <2>1. n \in Proc /\ pc[n] = "none" /\ n # p
    BY <1>1, NextIsUnused DEF SpawnReplacement, BeatStarts, Unused
  <2>2. /\ pc' = [pc EXCEPT ![n] = "boot"]
        /\ env' = [env EXCEPT ![n].parent = p]
        /\ beat' = [beat EXCEPT ![p] = "handing"]
        /\ lockFile' = NoProc /\ past \subseteq past'
        /\ UNCHANGED <<own, stateFile>>
    BY <1>1 DEF SpawnReplacement, Goto, RemoveLock
  <2>3. pc[p] = "running"
    BY <1>1 DEF SpawnReplacement, BeatStarts
  <2> HIDE DEF n
  <2> QED BY <2>1, <2>2, <2>3 DEF TypeOK
<1>2. CASE SpawnFails(p)
  BY <1>2 DEF SpawnFails, BeatStarts, files, world, TypeOK
<1>9. CASE SpawnErrors(p)
  <2>1. ~Calm'
    BY <1>9 DEF SpawnErrors
  <2>2. LookersAreNotSent'
    BY <1>9 DEF SpawnErrors, RequestShutdown, TypeOK
  <2> QED BY <2>1, <2>2
<1>3. CASE HandoffConfirmed(p)
  BY <1>3 DEF HandoffConfirmed, Exit, files, world, Goto, TypeOK
<1>4. CASE HandoffTimesOut(p)
  BY <1>4 DEF HandoffTimesOut, files, world, TypeOK
<1>5. CASE Relock(p)
  BY <1>5 DEF Relock, Exit, world, Goto, TypeOK
<1>6. CASE RelockUnlink(p)
  BY <1>6 DEF RelockUnlink, RemoveLock, Stolen, world, TypeOK
<1>7. CASE HeartbeatRead(p)
  BY <1>7 DEF HeartbeatRead, RequestShutdown, BeatStarts, files, world, TypeOK
<1>8. CASE HeartbeatWrite(p)
  BY <1>8 DEF HeartbeatWrite, world, TypeOK
<1> QED
  BY <1>1, <1>2, <1>3, <1>4, <1>5, <1>6, <1>7, <1>8, <1>9 DEF Heartbeat

LEMMA FaultStays ==
    ASSUME TypeOK, StaysInv, NEW p \in Proc, Fault(p)
    PROVE  StaysInv'
<1> USE ProcIsNat
       DEF StaysInv, LookersAreNotSent, NobodyStops, BeatsRun, HandedIsGiven, StateIsTrue,
           Calm, LookingPc, EndingPc, HandingOver, Committed, Alive, Fresh, NoFile
<1>1. CASE AuthFails(p)
  BY <1>1 DEF AuthFails, Exit, files, world, Goto, TypeOK
<1>2. CASE RegisterFails(p)
  BY <1>2 DEF RegisterFails, Exit, files, world, Goto, TypeOK
<1>3. CASE StopRequested(p)
  BY <1>3 DEF StopRequested, RequestShutdown, Listens, files, TypeOK
<1>4. CASE Crash(p)
  BY <1>4 DEF Crash, Exit, files, Goto, TypeOK
<1> QED
  BY <1>1, <1>2, <1>3, <1>4 DEF Fault

LEMMA StaysStep == TypeOK /\ StaysInv /\ [Next]_vars => StaysInv'
<1> SUFFICES ASSUME TypeOK, StaysInv, [Next]_vars
             PROVE  StaysInv'
  OBVIOUS
<1> USE DEF StaysInv, LookersAreNotSent, NobodyStops, BeatsRun, HandedIsGiven, StateIsTrue,
            Calm, LookingPc, EndingPc, HandingOver, Committed
<1>1. CASE Start
  <2>1. NextProc \in Proc /\ pc[NextProc] = "none"
    BY <1>1, NextIsUnused DEF Start, Unused
  <2> QED BY <1>1, <2>1 DEF Start, Goto, TypeOK, files
<1>2. CASE Upgrade
  BY <1>2 DEF Upgrade, files
<1>3. ASSUME NEW p \in Proc, StartUp(p) \/ CleanUp(p) \/ Heartbeat(p) \/ Fault(p)
      PROVE  StaysInv'
  BY <1>3, StartUpStays, CleanUpStays, HeartbeatStays, FaultStays
<1>4. ASSUME NEW p \in Proc, RetryDue(p)
      PROVE  StaysInv'
  BY <1>4 DEF RetryDue, TypeOK, files
<1>5. ASSUME NEW p \in Proc, ForcedExit(p)
      PROVE  StaysInv'
  BY <1>5 DEF ForcedExit, Exit, Goto, Fresh, TypeOK, files
<1>6. CASE UNCHANGED vars
  BY <1>6 DEF vars, files
<1> QED BY <1>1, <1>2, <1>3, <1>4, <1>5, <1>6 DEF Next

\* As long as no runner was told to stop, by its user, by a state file that names
\* another or by the error of a replacement the system refused to start, none is in
\* its clean-up, and the state file names a runner that has committed, or a dead one.
THEOREM NobodyStopsUnasked == Spec => []StaysInv
<1>1. Init => StaysInv
  BY ProcIsNat DEF Init, StaysInv, LookersAreNotSent, NobodyStops, BeatsRun, HandedIsGiven,
        StateIsTrue, LookingPc, EndingPc, HandingOver, NoFile, Fresh
<1> QED BY <1>1, StaysStep, TypeCorrect, PTL DEF Spec

\* A committed runner that goes leaves another, or was told to go.
LEMMA StartUpKeeps ==
    ASSUME TypeOK, StaysInv, MachineKeepsARunner, NEW p \in Proc, StartUp(p)
    PROVE  MachineKeepsARunner'
<1> SUFFICES ASSUME Calm', "served" \in past', past' \cap {"refused", "outwaited"} = {}
             PROVE  \E q \in Proc : pc'[q] \in Committed
  BY DEF MachineKeepsARunner, Calm, Losses
<1> USE ProcIsNat DEF MachineKeepsARunner, Losses, FirstLoss, Calm, Committed
<1>1. CASE Boot(p)
  BY <1>1 DEF Boot, Goto, files, world, StaysInv, NobodyStops, EndingPc, TypeOK
<1>2. CASE ClearState(p)
  BY <1>2 DEF ClearState, Goto, world, StaysInv, NobodyStops, EndingPc, TypeOK
<1>3. CASE ClearLock(p)
  BY <1>3 DEF ClearLock, Goto, RemoveLock, Stolen, world, StaysInv, NobodyStops, EndingPc, TypeOK
<1>4. CASE CheckVersion(p)
  BY <1>4 DEF CheckVersion, Goto, Exit, files, world, StaysInv, NobodyStops, EndingPc, TypeOK
<1>5. CASE StopRunner(p)
  <2>1. \A q \in Proc : pc[q] \in Committed => q # p
    BY <1>5 DEF StopRunner
  <2>2. \A q \in Proc : q # p => pc'[q] = pc[q]
    <3>1. CASE stateFile = NoFile
      BY <1>5, <3>1 DEF StopRunner, Goto, TypeOK
    <3>2. CASE stateFile # NoFile
      <4>1. ~Listens(stateFile.pid)
        BY <1>5, <3>2 DEF StopRunner, StaysInv, LookersAreNotSent, LookingPc
      <4> QED BY <1>5, <3>2, <4>1 DEF StopRunner, TypeOK, Listens
    <3> QED BY <3>1, <3>2
  <2> QED BY <1>5, <2>1, <2>2 DEF StopRunner
<1>6. CASE StopWaitEnds(p)
  BY <1>6 DEF StopWaitEnds, Goto, Exit, files, world, StaysInv, NobodyStops, EndingPc, TypeOK
<1>7. CASE Lock(p)
  BY <1>7 DEF Lock, Goto, Exit, world, StaysInv, NobodyStops, EndingPc, TypeOK
<1>8. CASE Unlink(p)
  BY <1>8 DEF Unlink, Goto, RemoveLock, Stolen, world, StaysInv, NobodyStops, EndingPc, TypeOK
<1>9. CASE Commit(p)
  BY <1>9 DEF Commit, Goto, world, StaysInv, NobodyStops, EndingPc, TypeOK
<1>10. CASE Register(p)
  <2>1. ~own[p].requested
    BY <1>10 DEF StaysInv, NobodyStops, Register
  <2> QED BY <1>10, <2>1 DEF Register, Goto, TypeOK
<1> QED
  BY <1>1, <1>2, <1>3, <1>4, <1>5, <1>6, <1>7, <1>8, <1>9, <1>10 DEF StartUp

LEMMA CleanUpKeeps ==
    ASSUME TypeOK, StaysInv, MachineKeepsARunner, NEW p \in Proc, CleanUp(p)
    PROVE  MachineKeepsARunner'
<1> SUFFICES ASSUME Calm', "served" \in past', past' \cap {"refused", "outwaited"} = {}
             PROVE  \E q \in Proc : pc'[q] \in Committed
  BY DEF MachineKeepsARunner, Calm, Losses
<1> USE ProcIsNat DEF MachineKeepsARunner, Losses, FirstLoss, Calm, Committed
<1>1. CASE CloseLink(p)
  BY <1>1 DEF CloseLink, Goto, files, world, StaysInv, NobodyStops, EndingPc, TypeOK
<1>2. CASE SweepState(p)
  BY <1>2 DEF SweepState, Goto, world, StaysInv, NobodyStops, EndingPc, TypeOK
<1>3. CASE SweepLock(p)
  BY <1>3 DEF SweepLock, Goto, RemoveLock, Stolen, world, StaysInv, NobodyStops, EndingPc, TypeOK
<1>4. CASE ReleaseLock(p)
  BY <1>4 DEF ReleaseLock, Exit, RemoveLock, Stolen, world, Goto, StaysInv, NobodyStops, EndingPc, TypeOK
<1> QED
  BY <1>1, <1>2, <1>3, <1>4 DEF CleanUp

LEMMA HeartbeatKeeps ==
    ASSUME TypeOK, StaysInv, MachineKeepsARunner, NEW p \in Proc, Heartbeat(p)
    PROVE  MachineKeepsARunner'
<1> SUFFICES ASSUME Calm', "served" \in past', past' \cap {"refused", "outwaited"} = {}
             PROVE  \E q \in Proc : pc'[q] \in Committed
  BY DEF MachineKeepsARunner, Calm, Losses
<1> USE ProcIsNat DEF MachineKeepsARunner, Losses, FirstLoss, Calm, Committed
<1>1. CASE SpawnReplacement(p)
  <2>1. NextProc \in Proc /\ pc[NextProc] = "none"
    BY <1>1, NextIsUnused DEF SpawnReplacement, Unused
  <2> QED BY <1>1, <2>1 DEF SpawnReplacement, Goto, RemoveLock, Stolen, TypeOK
<1>2. CASE SpawnFails(p)
  BY <1>2 DEF SpawnFails, BeatStarts, files, world, StaysInv, NobodyStops, EndingPc, TypeOK
<1>9. CASE SpawnErrors(p)
  BY <1>9 DEF SpawnErrors
<1>3. CASE HandoffConfirmed(p)
  <2>1. stateFile.pid \in Proc /\ stateFile.pid # p /\ pc[stateFile.pid] \in Committed
    BY <1>3 DEF HandoffConfirmed, StaysInv, StateIsTrue, Alive
  <2> QED BY <1>3, <2>1 DEF HandoffConfirmed, Exit, Goto, TypeOK
<1>4. CASE HandoffTimesOut(p)
  BY <1>4 DEF HandoffTimesOut, files, world, StaysInv, NobodyStops, EndingPc, TypeOK
<1>5. CASE Relock(p)
  <2>1. CASE Exit(p)
    <3>1. lockFile # p
      BY <1>5 DEF Relock, StaysInv, HandedIsGiven, HandingOver
    <3>2. CASE pc' = pc
      BY <1>5, <3>2 DEF Relock
    <3>3. CASE pc' # pc
      <4>1. Alive(lockFile) /\ pc[lockFile] \in Committed
        BY <1>5, <3>3 DEF Relock
      <4> QED BY <2>1, <3>1, <4>1 DEF Exit, Goto, TypeOK, Alive
    <3> QED BY <3>2, <3>3
  <2>2. CASE ~Exit(p)
    BY <1>5, <2>2 DEF Relock
  <2> QED BY <2>1, <2>2
<1>6. CASE RelockUnlink(p)
  BY <1>6 DEF RelockUnlink, RemoveLock, Stolen, world, StaysInv, NobodyStops, EndingPc, TypeOK
<1>7. CASE HeartbeatRead(p)
  BY <1>7 DEF HeartbeatRead, RequestShutdown, BeatStarts, files, world, StaysInv, NobodyStops, EndingPc, TypeOK
<1>8. CASE HeartbeatWrite(p)
  BY <1>8 DEF HeartbeatWrite, world, StaysInv, NobodyStops, EndingPc, TypeOK
<1> QED
  BY <1>1, <1>2, <1>3, <1>4, <1>5, <1>6, <1>7, <1>8, <1>9 DEF Heartbeat

LEMMA FaultKeeps ==
    ASSUME TypeOK, StaysInv, MachineKeepsARunner, NEW p \in Proc, Fault(p)
    PROVE  MachineKeepsARunner'
<1> SUFFICES ASSUME Calm', "served" \in past', past' \cap {"refused", "outwaited"} = {}
             PROVE  \E q \in Proc : pc'[q] \in Committed
  BY DEF MachineKeepsARunner, Calm, Losses
<1> USE ProcIsNat DEF MachineKeepsARunner, Losses, FirstLoss, Calm, Committed
<1>1. CASE AuthFails(p)
  BY <1>1 DEF AuthFails, Exit, files, world, Goto, StaysInv, NobodyStops, EndingPc, TypeOK
<1>2. CASE RegisterFails(p)
  BY <1>2 DEF RegisterFails, Exit, files, world, Goto, StaysInv, NobodyStops, EndingPc, TypeOK
<1>3. CASE StopRequested(p)
  BY <1>3 DEF StopRequested, RequestShutdown, Listens, files, StaysInv, NobodyStops, EndingPc, TypeOK
<1>4. CASE Crash(p)
  BY <1>4 DEF Crash, Exit, files, Goto, StaysInv, NobodyStops, EndingPc, TypeOK
<1> QED
  BY <1>1, <1>2, <1>3, <1>4 DEF Fault

LEMMA KeepsStep ==
    TypeOK /\ StaysInv /\ MachineKeepsARunner /\ [Next]_vars => MachineKeepsARunner'
<1> SUFFICES ASSUME TypeOK, StaysInv, MachineKeepsARunner, [Next]_vars
             PROVE  MachineKeepsARunner'
  OBVIOUS
<1> USE DEF MachineKeepsARunner, Losses, Committed
<1>1. CASE Start
  <2>1. NextProc \in Proc /\ pc[NextProc] = "none"
    BY <1>1, NextIsUnused DEF Start, Unused
  <2> QED BY <1>1, <2>1 DEF Start, Goto, TypeOK
<1>2. CASE Upgrade
  BY <1>2 DEF Upgrade
<1>3. ASSUME NEW p \in Proc, StartUp(p) \/ CleanUp(p) \/ Heartbeat(p) \/ Fault(p)
      PROVE  MachineKeepsARunner'
  BY <1>3, StartUpKeeps, CleanUpKeeps, HeartbeatKeeps, FaultKeeps
<1>4. ASSUME NEW p \in Proc, RetryDue(p)
      PROVE  MachineKeepsARunner'
  BY <1>4 DEF RetryDue
<1>5. ASSUME NEW p \in Proc, ForcedExit(p)
      PROVE  MachineKeepsARunner'
  BY <1>5 DEF ForcedExit, StaysInv, NobodyStops, Calm
<1>6. CASE UNCHANGED vars
  BY <1>6 DEF vars
<1> QED BY <1>1, <1>2, <1>3, <1>4, <1>5, <1>6 DEF Next

\* Neither an upgrade nor any number of processes that start, fail and fight over
\* the two files costs the machine its runner, unless one was refused by the hub,
\* displaced, killed or told to stop, gave way to a replacement that was not up yet,
\* or could not start one: the property of run upgrade.
THEOREM UpgradesKeepARunner == Spec => []MachineKeepsARunner
<1>1. Init => MachineKeepsARunner
  BY DEF Init, MachineKeepsARunner
<1> QED BY <1>1, KeepsStep, TypeCorrect, NobodyStopsUnasked, PTL DEF Spec

=============================================================================
