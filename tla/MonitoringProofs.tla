--------------------------- MODULE MonitoringProofs ---------------------------
(***************************************************************************)
(* What TLAPS proves of Monitoring for every set of rules, kinds, sources, *)
(* capacities, disturbances and restarts: the type invariant, that no work *)
(* is repeated, that rules which share a session keep out of each other's  *)
(* way, that a repair follows the plan its owner approved, and that a       *)
(* paused rule does nothing.                                               *)
(***************************************************************************)
EXTENDS Monitoring, TLAPS

USE MonitoringAssumption DEF MonitoringAssumption

-----------------------------------------------------------------------------
(* The invariant, of one incident: its row, the dispatch under way for it   *)
(* and the mode of its rule.                                               *)

ClaimedFor(job) == IF job.phase = "repair" THEN "repair_starting" ELSE "starting"
ReusesIn(job, mode) == mode = "direct" \/ (mode = "isolated" /\ job.phase = "repair")
RowSession(row, job) == IF job.phase = "repair" THEN row.repair ELSE row.session

BeforeRepair == {"unused", "queued", "starting", "investigating", "review", "repair_queued"}
ForRepair == {"repair_queued", "repair_starting", "repairing"}

\* A dispatch belongs to an incident that it has claimed, unless the incident
\* was closed or deleted in the meantime.
Owned(row, job) == job.step # "none" => row.state \in {ClaimedFor(job), "closed", "deleted"}

\* What has been spawned and sent by now.
Once(row) == \A p \in Phase : row.spawns[p] <= 1 /\ row.sends[p] <= 1
NotYet(row, phase) == row.spawns[phase] = 0 /\ row.sends[phase] = 0
Counts(row, job, mode) ==
    /\ Once(row)
    /\ row.state \in {"unused", "queued"} => NotYet(row, "investigate")
    /\ row.state \in BeforeRepair => NotYet(row, "repair")
    /\ job.step # "none" =>
         /\ job.phase = "investigate" => NotYet(row, "repair")
         /\ row.sends[job.phase] = 0
         /\ ReusesIn(job, mode) => row.spawns[job.phase] = 0

\* The sessions and the plan are there when they are needed.
Placed(row, job, mode) ==
    /\ row.state \in {"investigating", "review", "repair_queued", "repair_starting"} =>
         row.session \in Session
    /\ row.state = "repairing" => row.repair \in Session
    /\ job.step \in {"waiting", "configuring"} => RowSession(row, job) \in Session
    /\ job.step = "configuring" => mode = "isolated"

Approved(row) == row.approved = row.plan /\ row.plan.out \in Reviewable
Planned(i, row, job, mode) ==
    /\ row.state = "review" => row.plan.out \in Reviewable
    /\ (row.state \in ForRepair \/ (job.step # "none" /\ job.phase = "repair") \/ ~NotYet(row, "repair"))
         => Approved(row)
    /\ (row.sends["repair"] > 0 /\ mode = "direct") =>
         row.found = row.plan /\ row.plan.last = <<"investigate", i>>

Lawful(i, row, job, mode) ==
    /\ row \in IncidentRow /\ job \in Job
    /\ Owned(row, job) /\ Counts(row, job, mode) /\ Placed(row, job, mode) /\ Planned(i, row, job, mode)

AllLawful == \A i \in Incident : Lawful(i, incidents[i], jobs[i], ModeOf(i))

-----------------------------------------------------------------------------
(* Rows, whatever step changes them.                                       *)

LEMMA PromptTypes ==
    /\ NoPlan \in View /\ NoJob \in Job /\ NoJob.step = "none"
    /\ \A i \in Incident, p \in Phase : <<p, i>> \in Prompt /\ <<p, i>> \in Session
    /\ \A i \in Incident : RuleOf(i) \in Rule
    /\ \A r \in Rule : Target[r] \in Source
    /\ Source \subseteq Session
<1>1. NoPlan \in View
  BY DEF NoPlan, View, Prompt, Output
<1>2. NoJob \in Job /\ NoJob.step = "none"
  BY DEF NoJob, Job, Step, Phase
<1>3. \A i \in Incident, p \in Phase : <<p, i>> \in Prompt /\ <<p, i>> \in Session
  BY DEF Prompt, Session, Spawned
<1>4. \A i \in Incident : RuleOf(i) \in Rule
  BY DEF RuleOf, Incident
<1>5. \A r \in Rule : Target[r] \in Source
  OBVIOUS
<1>6. Source \subseteq Session
  BY DEF Session
<1> QED BY <1>1, <1>2, <1>3, <1>4, <1>5, <1>6

LEMMA Restated ==
    ASSUME NEW row \in IncidentRow, NEW st \in State
    PROVE  LET new == [row EXCEPT !.state = st] IN
           /\ new \in IncidentRow /\ new.state = st
           /\ new.session = row.session /\ new.repair = row.repair
           /\ new.plan = row.plan /\ new.approved = row.approved /\ new.found = row.found
           /\ new.spawns = row.spawns /\ new.sends = row.sends
BY DEF IncidentRow

\* A dispatch that ends leaves the row as lawful as it was.
LEMMA JobEnds ==
    ASSUME NEW i, NEW row, NEW job, NEW mode, Lawful(i, row, job, mode)
    PROVE  Lawful(i, row, NoJob, mode)
BY PromptTypes DEF Lawful, Owned, Counts, Placed, Planned

\* So does an incident that comes to its end.
LEMMA RowEnds ==
    ASSUME NEW i, NEW row, NEW job, NEW mode, Lawful(i, row, job, mode),
           NEW st \in {"completed", "needs_attention", "closed", "deleted"},
           job.step = "none" \/ st \in {"closed", "deleted"}
    PROVE  Lawful(i, [row EXCEPT !.state = st], job, mode)
<1> DEFINE new == [row EXCEPT !.state = st]
<1>1. /\ new \in IncidentRow /\ new.state = st
      /\ new.session = row.session /\ new.repair = row.repair
      /\ new.plan = row.plan /\ new.approved = row.approved /\ new.found = row.found
      /\ new.spawns = row.spawns /\ new.sends = row.sends
  <2>1. st \in State /\ row \in IncidentRow
    BY DEF Lawful, State
  <2> QED BY <2>1, Restated
<1> HIDE DEF new
<1>2. Lawful(i, new, job, mode)
  BY <1>1 DEF Lawful, Owned, Counts, Once, NotYet, Placed, RowSession, Planned, Approved,
              BeforeRepair, ForRepair
<1> QED BY <1>2 DEF new

LEMMA RowOpens ==
    ASSUME NEW i, NEW row, NEW job, NEW mode, Lawful(i, row, job, mode), row.state = "unused"
    PROVE  Lawful(i, [row EXCEPT !.state = "queued"], job, mode)
<1> DEFINE new == [row EXCEPT !.state = "queued"]
<1>1. /\ new \in IncidentRow /\ new.state = "queued"
      /\ new.session = row.session /\ new.repair = row.repair
      /\ new.plan = row.plan /\ new.approved = row.approved /\ new.found = row.found
      /\ new.spawns = row.spawns /\ new.sends = row.sends
  BY Restated DEF Lawful, State
<1>2. job.step = "none"
  BY DEF Lawful, Owned, ClaimedFor
<1> HIDE DEF new
<1>3. Lawful(i, new, job, mode)
  BY <1>1, <1>2 DEF Lawful, Owned, Counts, Once, NotYet, Placed, RowSession, Planned, Approved,
              BeforeRepair, ForRepair
<1> QED BY <1>3 DEF new

LEMMA RowApproved ==
    ASSUME NEW i, NEW row, NEW job, NEW mode, Lawful(i, row, job, mode), row.state = "review"
    PROVE  Lawful(i, [row EXCEPT !.state = "repair_queued", !.approved = row.plan], job, mode)
<1> DEFINE new == [row EXCEPT !.state = "repair_queued", !.approved = row.plan]
<1>1. /\ new \in IncidentRow /\ new.state = "repair_queued"
      /\ new.session = row.session /\ new.repair = row.repair
      /\ new.plan = row.plan /\ new.approved = row.plan /\ new.found = row.found
      /\ new.spawns = row.spawns /\ new.sends = row.sends
  BY DEF Lawful, IncidentRow, State
<1>2. job.step = "none"
  BY DEF Lawful, Owned, ClaimedFor
<1> HIDE DEF new
<1>3. Lawful(i, new, job, mode)
  BY <1>1, <1>2 DEF Lawful, Owned, Counts, Once, NotYet, Placed, RowSession, Planned, Approved,
              BeforeRepair, ForRepair
<1> QED BY <1>3 DEF new

\* The result of an investigation is stored with its plan.
LEMMA RowReviewed ==
    ASSUME NEW i, NEW row, NEW job, NEW mode, Lawful(i, row, job, mode), row.state = "investigating",
           NEW plan \in View, plan.out \in Reviewable
    PROVE  Lawful(i, [row EXCEPT !.state = "review", !.plan = plan], job, mode)
<1> DEFINE new == [row EXCEPT !.state = "review", !.plan = plan]
<1>1. /\ new \in IncidentRow /\ new.state = "review"
      /\ new.session = row.session /\ new.repair = row.repair
      /\ new.plan = plan /\ new.approved = row.approved /\ new.found = row.found
      /\ new.spawns = row.spawns /\ new.sends = row.sends
  BY DEF Lawful, IncidentRow, State
<1>2. job.step = "none"
  BY DEF Lawful, Owned, ClaimedFor
<1> HIDE DEF new
<1>3. Lawful(i, new, job, mode)
  BY <1>1, <1>2 DEF Lawful, Owned, Counts, Once, NotYet, Placed, RowSession, Planned, Approved,
              BeforeRepair, ForRepair
<1> QED BY <1>3 DEF new

\* The claim of a queued incident, in any of the modes.
ClaimedRow(i, row, mode) ==
    IF row.state = "repair_queued"
    THEN [row EXCEPT !.state = "repair_starting",
            !.repair = IF mode = "fresh" THEN @
                       ELSE IF mode = "direct" THEN Target[RuleOf(i)] ELSE row.session,
            !.spawns["repair"] = IF mode = "fresh" THEN @ + 1 ELSE @]
    ELSE [row EXCEPT !.state = "starting",
            !.session = IF mode = "direct" THEN Target[RuleOf(i)] ELSE @,
            !.spawns["investigate"] = IF mode = "direct" THEN @ ELSE @ + 1]
ClaimedJob(row, mode) ==
    LET phase == IF row.state = "queued" THEN "investigate" ELSE "repair"
        reuses == mode = "direct" \/ (mode = "isolated" /\ phase = "repair")
    IN  [step |-> IF reuses THEN "waiting" ELSE "spawning", phase |-> phase]

LEMMA RowClaimed ==
    ASSUME NEW i \in Incident, NEW row, NEW job, NEW mode \in Mode, Lawful(i, row, job, mode),
           row.state \in {"queued", "repair_queued"}
    PROVE  Lawful(i, ClaimedRow(i, row, mode), ClaimedJob(row, mode), mode)
<1> DEFINE new == ClaimedRow(i, row, mode)
           work == ClaimedJob(row, mode)
<1>1. Target[RuleOf(i)] \in Session /\ row \in IncidentRow
  BY PromptTypes DEF Lawful
<1>2. CASE row.state = "queued"
  <2> DEFINE session == IF mode = "direct" THEN Target[RuleOf(i)] ELSE row.session
             spawns == [row.spawns EXCEPT !["investigate"] = IF mode = "direct" THEN @ ELSE @ + 1]
  <2>1. NotYet(row, "investigate") /\ NotYet(row, "repair") /\ Once(row)
    BY <1>2 DEF Lawful, Counts, BeforeRepair
  <2>2. /\ spawns \in [Phase -> 0..2]
        /\ spawns["repair"] = 0
        /\ spawns["investigate"] = IF mode = "direct" THEN 0 ELSE 1
    BY <1>1, <2>1 DEF IncidentRow, Phase, NotYet
  <2>3. session \in Session \cup {NoSession} /\ (mode = "direct" => session \in Session)
    BY <1>1 DEF IncidentRow
  <2>4. new = [row EXCEPT !.state = "starting", !.session = session, !.spawns = spawns]
    BY <1>1, <1>2 DEF ClaimedRow, IncidentRow
  <2> HIDE DEF session, spawns
  <2>5. /\ new \in IncidentRow /\ new.state = "starting" /\ new.session = session
        /\ new.repair = row.repair /\ new.sends = row.sends /\ new.spawns = spawns
        /\ new.plan = row.plan /\ new.approved = row.approved /\ new.found = row.found
    BY <1>1, <2>2, <2>3, <2>4 DEF IncidentRow, State
  <2>6. work = [step |-> IF mode = "direct" THEN "waiting" ELSE "spawning", phase |-> "investigate"]
    BY <1>2 DEF ClaimedJob
  <2> HIDE DEF new, work
  <2>7. work \in Job
    BY <2>6 DEF Job, Step, Phase
  <2> QED
    BY <2>1, <2>2, <2>3, <2>5, <2>6, <2>7
    DEF Lawful, Owned, ClaimedFor, Counts, Once, NotYet, Placed, RowSession, Planned, Approved,
        ReusesIn, BeforeRepair, ForRepair, Phase, new, work
<1>3. CASE row.state = "repair_queued"
  <2> DEFINE repair == IF mode = "fresh" THEN row.repair
                       ELSE IF mode = "direct" THEN Target[RuleOf(i)] ELSE row.session
             spawns == [row.spawns EXCEPT !["repair"] = IF mode = "fresh" THEN @ + 1 ELSE @]
  <2>1. NotYet(row, "repair") /\ Once(row) /\ Approved(row) /\ row.session \in Session
    BY <1>3 DEF Lawful, Counts, BeforeRepair, Planned, ForRepair, Placed
  <2>2. /\ spawns \in [Phase -> 0..2]
        /\ spawns["investigate"] = row.spawns["investigate"]
        /\ spawns["repair"] = IF mode = "fresh" THEN 1 ELSE 0
    BY <1>1, <2>1 DEF IncidentRow, Phase, NotYet
  <2>3. repair \in Session \cup {NoSession} /\ (mode # "fresh" => repair \in Session)
    BY <1>1, <2>1 DEF IncidentRow
  <2>4. new = [row EXCEPT !.state = "repair_starting", !.repair = repair, !.spawns = spawns]
    BY <1>1, <1>3 DEF ClaimedRow, IncidentRow
  <2> HIDE DEF repair, spawns
  <2>5. /\ new \in IncidentRow /\ new.state = "repair_starting" /\ new.session = row.session
        /\ new.repair = repair /\ new.sends = row.sends /\ new.spawns = spawns
        /\ new.plan = row.plan /\ new.approved = row.approved /\ new.found = row.found
    BY <1>1, <2>2, <2>3, <2>4 DEF IncidentRow, State
  <2>6. work = [step |-> IF mode = "fresh" THEN "spawning" ELSE "waiting", phase |-> "repair"]
    BY <1>3 DEF ClaimedJob, Mode
  <2> HIDE DEF new, work
  <2>7. work \in Job
    BY <2>6 DEF Job, Step, Phase
  <2> QED
    BY <2>1, <2>2, <2>3, <2>5, <2>6, <2>7
    DEF Lawful, Owned, ClaimedFor, Counts, Once, NotYet, Placed, RowSession, Planned, Approved,
        ReusesIn, BeforeRepair, ForRepair, Phase, new, work
<1> QED BY <1>2, <1>3

LEMMA RowSpawned ==
    ASSUME NEW i \in Incident, NEW row, NEW job, NEW mode, Lawful(i, row, job, mode),
           job.step = "spawning", row.state = ClaimedFor(job)
    PROVE  Lawful(i, [row EXCEPT
                        !.session = IF job.phase = "investigate" THEN <<job.phase, i>> ELSE @,
                        !.repair  = IF job.phase = "repair" THEN <<job.phase, i>> ELSE @],
                  [job EXCEPT !.step = "waiting"], mode)
<1> DEFINE s == <<job.phase, i>>
           new == [row EXCEPT !.session = IF job.phase = "investigate" THEN s ELSE @,
                              !.repair  = IF job.phase = "repair" THEN s ELSE @]
           work == [job EXCEPT !.step = "waiting"]
<1>1. job \in Job /\ job.phase \in Phase /\ row \in IncidentRow
  BY DEF Lawful, Job
<1>2. s \in Session
  BY <1>1, PromptTypes
<1> HIDE DEF s
<1>3. /\ new \in IncidentRow /\ new.state = row.state
      /\ new.session = IF job.phase = "investigate" THEN s ELSE row.session
      /\ new.repair = IF job.phase = "repair" THEN s ELSE row.repair
      /\ new.plan = row.plan /\ new.approved = row.approved /\ new.found = row.found
      /\ new.spawns = row.spawns /\ new.sends = row.sends
  BY <1>1, <1>2 DEF IncidentRow
<1>4. work \in Job /\ work.step = "waiting" /\ work.phase = job.phase
  BY <1>1 DEF Job, Step
<1> HIDE DEF new, work
<1>5. Lawful(i, new, work, mode)
  BY <1>1, <1>2, <1>3, <1>4
  DEF Lawful, Owned, ClaimedFor, Counts, Once, NotYet, Placed, RowSession, Planned, Approved,
      ReusesIn, BeforeRepair, ForRepair, Phase
<1> QED BY <1>5 DEF s, new, work

\* A dispatch that found its session busy puts the incident back where it was:
\* it has spawned nothing, because it was to reuse the session.
QueuedFor(job) == IF job.phase = "repair" THEN "repair_queued" ELSE "queued"

LEMMA RowPutBack ==
    ASSUME NEW i \in Incident, NEW row, NEW job, NEW mode, Lawful(i, row, job, mode),
           job.step = "waiting", ReusesIn(job, mode), row.state = ClaimedFor(job)
    PROVE  Lawful(i, [row EXCEPT !.state = QueuedFor(job)], NoJob, mode)
<1> DEFINE new == [row EXCEPT !.state = QueuedFor(job)]
<1>1. job.phase \in Phase /\ row \in IncidentRow /\ QueuedFor(job) \in State
  BY DEF Lawful, Job, State, QueuedFor
<1>2. /\ new \in IncidentRow /\ new.state = QueuedFor(job)
      /\ new.session = row.session /\ new.repair = row.repair
      /\ new.plan = row.plan /\ new.approved = row.approved /\ new.found = row.found
      /\ new.spawns = row.spawns /\ new.sends = row.sends
  BY <1>1, Restated
<1> HIDE DEF new
<1>3. Lawful(i, new, NoJob, mode)
  BY <1>1, <1>2, PromptTypes
  DEF Lawful, Owned, ClaimedFor, QueuedFor, Counts, Once, NotYet, Placed, RowSession, Planned,
      Approved, BeforeRepair, ForRepair, Phase
<1> QED BY <1>3 DEF new

LEMMA JobConfigures ==
    ASSUME NEW i \in Incident, NEW row, NEW job, NEW mode, Lawful(i, row, job, mode),
           job.step = "waiting", mode = "isolated"
    PROVE  Lawful(i, row, [job EXCEPT !.step = "configuring"], mode)
<1> DEFINE work == [job EXCEPT !.step = "configuring"]
<1>1. work \in Job /\ work.step = "configuring" /\ work.phase = job.phase
  BY DEF Lawful, Job, Step
<1> HIDE DEF work
<1>2. Lawful(i, row, work, mode)
  BY <1>1 DEF Lawful, Owned, ClaimedFor, Counts, Placed, RowSession, Planned, ReusesIn
<1> QED BY <1>2 DEF work

\* A message that is counted, and the incident that goes on or has ended.  A
\* repair in a bound session was compared with its plan before.
SentRow(row, job, seen) ==
    [row EXCEPT !.sends[job.phase] = @ + 1,
                !.found = IF job.phase = "repair" THEN seen ELSE @]
RunningFor(job) == IF job.phase = "repair" THEN "repairing" ELSE "investigating"

LEMMA RowSent ==
    ASSUME NEW i \in Incident, NEW row, NEW job, NEW mode, Lawful(i, row, job, mode),
           job.step \in {"waiting", "configuring"}, NEW seen \in View,
           (job.phase = "repair" /\ mode = "direct") =>
               seen = row.plan /\ seen.last = <<"investigate", i>>
    PROVE  /\ SentRow(row, job, seen).state = row.state
           /\ row.state # ClaimedFor(job) => Lawful(i, SentRow(row, job, seen), NoJob, mode)
           /\ row.state = ClaimedFor(job) =>
                \A st \in {RunningFor(job), "needs_attention"} :
                    Lawful(i, [SentRow(row, job, seen) EXCEPT !.state = st], NoJob, mode)
<1> DEFINE sends == [row.sends EXCEPT ![job.phase] = @ + 1]
           found == IF job.phase = "repair" THEN seen ELSE row.found
           new == SentRow(row, job, seen)
<1>1. job.phase \in Phase /\ row \in IncidentRow /\ row.sends[job.phase] = 0 /\ Once(row)
  BY DEF Lawful, Counts, Job
<1>2. /\ sends \in [Phase -> 0..2] /\ sends[job.phase] = 1
      /\ \A p \in Phase : p # job.phase => sends[p] = row.sends[p]
  BY <1>1 DEF IncidentRow
<1>3. found \in View
  BY <1>1 DEF IncidentRow
<1>4. new = [row EXCEPT !.sends = sends, !.found = found]
  BY <1>1 DEF SentRow, IncidentRow
<1> HIDE DEF sends, found
<1>5. /\ new \in IncidentRow /\ new.state = row.state
      /\ new.session = row.session /\ new.repair = row.repair
      /\ new.plan = row.plan /\ new.approved = row.approved /\ new.found = found
      /\ new.spawns = row.spawns /\ new.sends = sends
  BY <1>1, <1>2, <1>3, <1>4 DEF IncidentRow
<1> HIDE DEF new
<1>6. ASSUME NEW st \in State, NEW last \in IncidentRow,
             last.state = st, last.session = row.session, last.repair = row.repair,
             last.plan = row.plan, last.approved = row.approved, last.found = found,
             last.spawns = row.spawns, last.sends = sends,
             \/ st \in {RunningFor(job), "needs_attention"} /\ row.state = ClaimedFor(job)
             \/ st = row.state /\ row.state # ClaimedFor(job)
      PROVE  Lawful(i, last, NoJob, mode)
  <2>1. CASE job.phase = "investigate"
    <3>1. NotYet(row, "repair") /\ found = row.found /\ sends["repair"] = 0 /\ sends["investigate"] = 1
      BY <1>2, <2>1 DEF Lawful, Counts, NotYet, Phase, found
    <3> QED
      BY <1>1, <1>6, <2>1, <3>1, PromptTypes
      DEF Lawful, Owned, ClaimedFor, RunningFor, Counts, Once, NotYet, Placed, RowSession, Planned,
          Approved, BeforeRepair, ForRepair, Phase
  <2>2. CASE job.phase = "repair"
    <3>1. /\ Approved(row) /\ found = seen
          /\ sends["repair"] = 1 /\ sends["investigate"] = row.sends["investigate"]
      BY <1>2, <2>2 DEF Lawful, Planned, Phase, found
    <3> QED
      BY <1>1, <1>6, <2>2, <3>1, PromptTypes
      DEF Lawful, Owned, ClaimedFor, RunningFor, Counts, Once, NotYet, Placed, RowSession, Planned,
          Approved, BeforeRepair, ForRepair, Phase
  <2> QED BY <1>1, <2>1, <2>2 DEF Phase
<1>7. row.state # ClaimedFor(job) => Lawful(i, new, NoJob, mode)
  BY <1>1, <1>5, <1>6 DEF IncidentRow
<1>8. ASSUME NEW st \in {RunningFor(job), "needs_attention"}, row.state = ClaimedFor(job)
      PROVE  Lawful(i, [new EXCEPT !.state = st], NoJob, mode)
  <2> DEFINE last == [new EXCEPT !.state = st]
  <2>1. st \in State
    BY DEF RunningFor, State
  <2>2. /\ last \in IncidentRow /\ last.state = st
        /\ last.session = new.session /\ last.repair = new.repair
        /\ last.plan = new.plan /\ last.approved = new.approved /\ last.found = new.found
        /\ last.spawns = new.spawns /\ last.sends = new.sends
    BY <1>5, <2>1, Restated
  <2> HIDE DEF last
  <2>3. Lawful(i, last, NoJob, mode)
    BY <1>5, <1>6, <1>8, <2>1, <2>2
  <2> QED BY <2>3 DEF last
<1> QED BY <1>5, <1>7, <1>8 DEF new

-----------------------------------------------------------------------------
(* The steps.                                                              *)

WorldType ==
    /\ rules \in [Rule -> RuleRow]
    /\ incidents \in [Incident -> IncidentRow]
    /\ tick \in {"idle", "probing", "dispatching"}
    /\ probes \in [Rule -> 0..NoProbe]
    /\ jobs \in [Incident -> Job]
    /\ sessions \in [Session -> SessionRow]
    /\ disturbances \in 0..MaxDisturbances /\ restarts \in 0..MaxRestarts

IInv == WorldType /\ AllLawful

LEMMA InvariantImpliesType == IInv => TypeOK
<1> SUFFICES ASSUME IInv
             PROVE  TypeOK
  OBVIOUS
<1>1. ASSUME NEW i \in Incident
      PROVE  /\ incidents[i].state = "investigating" => incidents[i].session \in Session
             /\ incidents[i].state = "repairing" => incidents[i].repair \in Session
             /\ incidents[i].state \in {"review", "repair_queued", "repair_starting", "repairing"} =>
                  incidents[i].plan.out \in Reviewable
  BY DEF IInv, AllLawful, Lawful, Placed, Planned, Approved, ForRepair
<1> QED BY <1>1 DEF IInv, WorldType, TypeOK

SameModes == \A i \in Incident : ModeOf(i)' = ModeOf(i)

\* The incidents a step does not touch stay lawful, also when it ends their
\* dispatches.
LEMMA OthersLawful ==
    ASSUME AllLawful, SameModes,
           \A k \in Incident : \/ /\ incidents'[k] = incidents[k]
                                  /\ jobs'[k] \in {jobs[k], NoJob}
                               \/ Lawful(k, incidents'[k], jobs'[k], ModeOf(k))
    PROVE  AllLawful'
<1> SUFFICES ASSUME NEW k \in Incident
             PROVE  Lawful(k, incidents'[k], jobs'[k], ModeOf(k)')
  BY DEF AllLawful
<1>1. Lawful(k, incidents[k], jobs[k], ModeOf(k)) /\ ModeOf(k)' = ModeOf(k)
  BY DEF AllLawful, SameModes
<1>2. Lawful(k, incidents[k], NoJob, ModeOf(k))
  BY <1>1, JobEnds
<1> QED BY <1>1, <1>2

LEMMA UntouchedModes == UNCHANGED rules => SameModes
BY DEF SameModes, ModeOf

\* A step of one dispatch.
LEMMA OneLawful ==
    ASSUME IInv, UNCHANGED rules, NEW i \in Incident, NEW row, NEW job,
           incidents' = [incidents EXCEPT ![i] = row], jobs' = [jobs EXCEPT ![i] = job],
           Lawful(i, row, job, ModeOf(i))
    PROVE  /\ incidents' \in [Incident -> IncidentRow] /\ jobs' \in [Incident -> Job]
           /\ AllLawful'
<1>1. row \in IncidentRow /\ job \in Job
  BY DEF Lawful
<1>2. \A k \in Incident : \/ incidents'[k] = incidents[k] /\ jobs'[k] \in {jobs[k], NoJob}
                          \/ Lawful(k, incidents'[k], jobs'[k], ModeOf(k))
  BY DEF IInv, WorldType
<1>3. AllLawful'
  BY <1>2, UntouchedModes, OthersLawful DEF IInv
<1> QED BY <1>1, <1>3 DEF IInv, WorldType

LEMMA OpenedLawful ==
    ASSUME IInv, NEW R
    PROVE  /\ Opened(R) \in [Incident -> IncidentRow]
           /\ \A k \in Incident : Lawful(k, Opened(R)[k], jobs[k], ModeOf(k))
<1> SUFFICES ASSUME NEW k \in Incident
             PROVE  /\ Opened(R)[k] \in IncidentRow
                    /\ Lawful(k, Opened(R)[k], jobs[k], ModeOf(k))
  BY DEF Opened
<1>1. Lawful(k, incidents[k], jobs[k], ModeOf(k))
  BY DEF IInv, AllLawful
<1>2. CASE Opened(R)[k] = incidents[k]
  BY <1>1, <1>2 DEF Lawful
<1>3. CASE Opened(R)[k] # incidents[k]
  <2>1. incidents[k].state = "unused" /\ Opened(R)[k] = [incidents[k] EXCEPT !.state = "queued"]
    BY <1>3 DEF Opened, IsNext
  <2>2. Lawful(k, Opened(R)[k], jobs[k], ModeOf(k))
    BY <1>1, <2>1, RowOpens
  <2> QED BY <2>2 DEF Lawful
<1> QED BY <1>2, <1>3

LEMMA ReadingLawful ==
    ASSUME IInv, NEW i \in Incident, Running(i), NEW overdue
    PROVE  /\ Lawful(i, Reconciled(i, overdue), jobs[i], ModeOf(i))
           /\ Reconciled(i, overdue).state \in {incidents[i].state, "needs_attention", "completed", "review"}
           /\ Reconciled(i, overdue).sends = incidents[i].sends
<1> DEFINE row == incidents[i]
           new == Reconciled(i, overdue)
<1>1. Lawful(i, row, jobs[i], ModeOf(i)) /\ row \in IncidentRow /\ WorldType
  BY DEF IInv, AllLawful, Lawful
<1>2. jobs[i].step = "none" /\ row.state \in {"investigating", "repairing"}
  BY <1>1 DEF Running, Lawful, Owned, ClaimedFor
<1>3. WorksIn(i) \in Session
  BY <1>1, <1>2 DEF WorksIn, Repairing, Lawful, Placed
<1>4. ASSUME NEW st \in {"completed", "needs_attention"}
      PROVE  /\ Lawful(i, [row EXCEPT !.state = st], jobs[i], ModeOf(i))
             /\ [row EXCEPT !.state = st].state = st
             /\ [row EXCEPT !.state = st].sends = row.sends
  <2>1. Lawful(i, [row EXCEPT !.state = st], jobs[i], ModeOf(i))
    BY <1>1, <1>2, RowEnds
  <2>2. st \in State
    BY DEF State
  <2> QED BY <1>1, <2>1, <2>2, Restated
<1>5. CASE new = row
  BY <1>1, <1>5
<1>6. CASE new = [row EXCEPT !.state = "needs_attention"] \/ new = [row EXCEPT !.state = "completed"]
  BY <1>4, <1>6
<1>7. CASE ~Repairing(i) /\ Finished(i) /\ new = [row EXCEPT !.state = "review", !.plan = Sees(WorksIn(i))]
  <2> DEFINE plan == Sees(WorksIn(i))
  <2>1. sessions[WorksIn(i)] \in SessionRow
    BY <1>1, <1>3 DEF WorldType
  <2>2. plan \in View /\ plan.out \in Reviewable
    BY <1>7, <2>1 DEF Sees, View, SessionRow, Finished, Seen
  <2>3. Lawful(i, new, jobs[i], ModeOf(i))
    <3>1. new = [row EXCEPT !.state = "review", !.plan = plan] /\ row.state = "investigating"
      BY <1>2, <1>7 DEF Repairing
    <3> HIDE DEF plan, new
    <3>2. Lawful(i, [row EXCEPT !.state = "review", !.plan = plan], jobs[i], ModeOf(i))
      BY <1>1, <2>2, <3>1, RowReviewed
    <3> QED BY <3>1, <3>2
  <2>4. new.state = "review" /\ new.sends = row.sends
    BY <1>1, <1>7 DEF IncidentRow
  <2> QED BY <2>3, <2>4
<1> QED BY <1>5, <1>6, <1>7 DEF Reconciled

\* The cycle.
LEMMA TickStartStep ==
    ASSUME IInv, TickStart
    PROVE  IInv'
<1>1. PICK S \in SUBSET Rule : incidents' = Opened(S)
  BY DEF TickStart
<1>2. rules' \in [Rule -> RuleRow] /\ \A r \in Rule : rules'[r].mode = rules[r].mode
  <2>1. ASSUME NEW r \in Rule
        PROVE  rules'[r] \in RuleRow /\ rules'[r].mode = rules[r].mode
    <3>1. rules[r] \in RuleRow
      BY DEF IInv, WorldType
    <3>2. rules'[r] \in {rules[r], [rules[r] EXCEPT !.due = FALSE]}
      BY DEF TickStart
    <3>3. /\ [rules[r] EXCEPT !.due = FALSE] \in RuleRow
          /\ [rules[r] EXCEPT !.due = FALSE].mode = rules[r].mode
      BY <3>1 DEF RuleRow
    <3> QED BY <3>1, <3>2, <3>3
  <2>2. DOMAIN rules' = Rule /\ rules' = [r \in Rule |-> rules'[r]]
    BY DEF TickStart
  <2> QED BY <2>1, <2>2
<1>3. probes' \in [Rule -> 0..NoProbe]
  <2>1. \A r \in Rule : rules[r].edition \in 0..NoProbe
    BY DEF IInv, WorldType, RuleRow, NoProbe
  <2> QED BY <2>1 DEF TickStart, IInv, WorldType
<1>4. AllLawful'
  <2>1. SameModes
    BY <1>2, PromptTypes DEF SameModes, ModeOf
  <2>2. \A k \in Incident : Lawful(k, incidents'[k], jobs'[k], ModeOf(k))
    BY <1>1, OpenedLawful DEF TickStart
  <2> QED BY <2>1, <2>2, OthersLawful DEF IInv
<1> QED BY <1>1, <1>2, <1>3, <1>4, OpenedLawful DEF IInv, WorldType, TickStart, counts

LEMMA ProbeStep ==
    ASSUME IInv, NEW r \in Rule, NEW ok \in BOOLEAN, ProbeReturns(r, ok)
    PROVE  IInv'
<1>1. probes' \in [Rule -> 0..NoProbe]
  BY DEF ProbeReturns, IInv, WorldType, NoProbe
<1>2. \/ UNCHANGED table
      \/ /\ \E n \in 0..2 : rules' = [rules EXCEPT ![r].failures = n]
         /\ incidents' \in {incidents, Opened({r})}
  BY DEF ProbeReturns
<1>3. rules' \in [Rule -> RuleRow] /\ \A q \in Rule : rules'[q].mode = rules[q].mode
  BY <1>2 DEF IInv, WorldType, RuleRow, table
<1>4. SameModes
  BY <1>3, PromptTypes DEF SameModes, ModeOf
<1>5. /\ incidents' \in [Incident -> IncidentRow]
      /\ \A k \in Incident : Lawful(k, incidents'[k], jobs[k], ModeOf(k))
  BY <1>2, OpenedLawful DEF IInv, WorldType, AllLawful, table
<1>6. AllLawful'
  BY <1>4, <1>5, OthersLawful DEF IInv, ProbeReturns
<1> QED BY <1>1, <1>3, <1>5, <1>6 DEF IInv, WorldType, ProbeReturns, counts

\* What the two definitions of a claim have in common.
LEMMA ClaimRead ==
    ASSUME NEW table_ \in [Incident -> IncidentRow], NEW chosen, NEW i \in Incident,
           \A k \in Incident : ModeOf(k) \in Mode
    PROVE  /\ i \in chosen => Claimed(table_, chosen)[i] = ClaimedRow(i, table_[i], ModeOf(i))
           /\ i \notin chosen => Claimed(table_, chosen)[i] = table_[i]
BY DEF Claimed, ClaimedRow

LEMMA ClaimStarts ==
    ASSUME NEW i \in Incident, NEW row \in IncidentRow, NEW mode \in Mode,
           row.state \in {"queued", "repair_queued"}
    PROVE  LET new == ClaimedRow(i, row, mode)
               phase == IF row.state = "queued" THEN "investigate" ELSE "repair"
           IN  /\ [step |-> IF new.spawns[phase] > row.spawns[phase] THEN "spawning" ELSE "waiting",
                   phase |-> phase] = ClaimedJob(row, mode)
               /\ new.sends = row.sends
               /\ new.state \in {"starting", "repair_starting"}
<1>1. row.spawns \in [Phase -> 0..2]
  BY DEF IncidentRow
<1>2. CASE row.state = "queued"
  <2> DEFINE new == ClaimedRow(i, row, mode)
  <2>1. /\ new.spawns["investigate"] =
             IF mode = "direct" THEN row.spawns["investigate"] ELSE row.spawns["investigate"] + 1
        /\ new.sends = row.sends /\ new.state = "starting"
    BY <1>1, <1>2 DEF ClaimedRow, IncidentRow, Phase
  <2>2. row.spawns["investigate"] \in Nat
    BY <1>1 DEF Phase
  <2> HIDE DEF new
  <2>3. (new.spawns["investigate"] > row.spawns["investigate"]) <=> mode # "direct"
    BY <2>1, <2>2
  <2> QED BY <1>2, <2>1, <2>3 DEF ClaimedJob, new
<1>3. CASE row.state = "repair_queued"
  <2> DEFINE new == ClaimedRow(i, row, mode)
  <2>1. /\ new.spawns["repair"] =
             IF mode = "fresh" THEN row.spawns["repair"] + 1 ELSE row.spawns["repair"]
        /\ new.sends = row.sends /\ new.state = "repair_starting"
    BY <1>1, <1>3 DEF ClaimedRow, IncidentRow, Phase
  <2>2. row.spawns["repair"] \in Nat
    BY <1>1 DEF Phase
  <2> HIDE DEF new
  <2>3. (new.spawns["repair"] > row.spawns["repair"]) <=> mode = "fresh"
    BY <2>1, <2>2
  <2> QED BY <1>3, <2>1, <2>3 DEF ClaimedJob, Mode, new
<1> QED BY <1>2, <1>3

LEMMA AllRead ==
    ASSUME IInv, NEW overdue
    PROVE  LET read == AllReconciled(overdue) IN
           /\ read \in [Incident -> IncidentRow]
           /\ \A k \in Incident :
                /\ Lawful(k, read[k], jobs[k], ModeOf(k))
                /\ read[k].sends = incidents[k].sends
                /\ read[k].state \in {incidents[k].state, "needs_attention", "completed", "review"}
                /\ read[k].state = "review" => incidents[k].state \in Engaged
<1> DEFINE read == AllReconciled(overdue)
<1>1. ASSUME NEW k \in Incident
      PROVE  /\ Lawful(k, read[k], jobs[k], ModeOf(k))
             /\ read[k].sends = incidents[k].sends
             /\ read[k].state \in {incidents[k].state, "needs_attention", "completed", "review"}
             /\ read[k].state = "review" => incidents[k].state \in Engaged
  <2>1. CASE Running(k)
    <3>1. read[k] = Reconciled(k, overdue) /\ incidents[k].state \in Engaged
      BY <2>1 DEF AllReconciled, Running, Engaged, InHand
    <3> HIDE DEF read
    <3> QED BY <2>1, <3>1, ReadingLawful
  <2>2. CASE ~Running(k)
    <3>1. read[k] = incidents[k]
      BY <2>2 DEF AllReconciled
    <3> HIDE DEF read
    <3> QED BY <3>1 DEF IInv, AllLawful, Engaged
  <2> QED BY <2>1, <2>2
<1>2. read \in [Incident -> IncidentRow]
  <2>1. \A k \in Incident : read[k] \in IncidentRow
    BY <1>1 DEF Lawful
  <2> QED BY <2>1 DEF AllReconciled
<1> QED BY <1>1, <1>2

\* A dispatch cycle as seen from one incident.
LEMMA DispatchRead ==
    ASSUME IInv, TickDispatch
    PROVE  \E read \in [Incident -> IncidentRow], chosen \in SUBSET Incident :
             /\ \A k \in Incident :
                  /\ Lawful(k, read[k], jobs[k], ModeOf(k))
                  /\ read[k].sends = incidents[k].sends
                  /\ read[k].state \in {incidents[k].state, "needs_attention", "completed", "review"}
                  /\ read[k].state = "review" => incidents[k].state \in Engaged
             /\ \A k \in chosen : MayStart(read, k, chosen)
             /\ incidents' \in [Incident -> IncidentRow] /\ jobs' \in [Incident -> Job]
             /\ \A k \in Incident :
                  IF k \in chosen
                  THEN /\ incidents'[k] = ClaimedRow(k, read[k], ModeOf(k))
                       /\ jobs'[k] = ClaimedJob(read[k], ModeOf(k))
                  ELSE incidents'[k] = read[k] /\ jobs'[k] = jobs[k]
<1>1. PICK overdue, chosen \in SUBSET Incident :
         LET read == AllReconciled(overdue) IN
         /\ \A i \in chosen : MayStart(read, i, chosen)
         /\ incidents' = Claimed(read, chosen)
         /\ jobs' = [i \in Incident |->
                       IF i \notin chosen THEN jobs[i]
                       ELSE LET phase == IF read[i].state = "queued" THEN "investigate" ELSE "repair"
                            IN  [step |-> IF incidents'[i].spawns[phase] > read[i].spawns[phase]
                                          THEN "spawning" ELSE "waiting",
                                 phase |-> phase]]
  BY DEF TickDispatch
<1> DEFINE read == AllReconciled(overdue)
<1>2. /\ read \in [Incident -> IncidentRow]
      /\ \A k \in Incident :
           /\ Lawful(k, read[k], jobs[k], ModeOf(k))
           /\ read[k].sends = incidents[k].sends
           /\ read[k].state \in {incidents[k].state, "needs_attention", "completed", "review"}
           /\ read[k].state = "review" => incidents[k].state \in Engaged
  BY AllRead
<1>3. \A k \in Incident : ModeOf(k) \in Mode
  BY PromptTypes DEF ModeOf, IInv, WorldType, RuleRow
<1>4. /\ \A i \in chosen : MayStart(read, i, chosen)
      /\ incidents' = Claimed(read, chosen)
      /\ jobs' = [i \in Incident |->
                    IF i \notin chosen THEN jobs[i]
                    ELSE LET phase == IF read[i].state = "queued" THEN "investigate" ELSE "repair"
                         IN  [step |-> IF incidents'[i].spawns[phase] > read[i].spawns[phase]
                                       THEN "spawning" ELSE "waiting",
                              phase |-> phase]]
  BY <1>1
<1> HIDE DEF read
<1>5. ASSUME NEW k \in Incident
      PROVE  /\ IF k \in chosen
                THEN /\ incidents'[k] = ClaimedRow(k, read[k], ModeOf(k))
                     /\ jobs'[k] = ClaimedJob(read[k], ModeOf(k))
                ELSE incidents'[k] = read[k] /\ jobs'[k] = jobs[k]
             /\ incidents'[k] \in IncidentRow /\ jobs'[k] \in Job
  <2>1. CASE k \in chosen
    <3>1. incidents'[k] = ClaimedRow(k, read[k], ModeOf(k))
      BY <1>2, <1>3, <1>4, <2>1, ClaimRead
    <3>2. read[k].state \in {"queued", "repair_queued"}
      BY <1>4, <2>1 DEF MayStart
    <3>3. jobs'[k] = ClaimedJob(read[k], ModeOf(k))
      BY <1>2, <1>3, <1>4, <2>1, <3>1, <3>2, ClaimStarts
    <3>4. Lawful(k, ClaimedRow(k, read[k], ModeOf(k)), ClaimedJob(read[k], ModeOf(k)), ModeOf(k))
      BY <1>2, <1>3, <3>2, RowClaimed
    <3> QED BY <2>1, <3>1, <3>3, <3>4 DEF Lawful
  <2>2. CASE k \notin chosen
    <3>1. incidents'[k] = read[k] /\ jobs'[k] = jobs[k]
      BY <1>2, <1>3, <1>4, <2>2, ClaimRead
    <3> QED BY <1>2, <2>2, <3>1 DEF Lawful
  <2> QED BY <2>1, <2>2
<1>6. incidents' \in [Incident -> IncidentRow] /\ jobs' \in [Incident -> Job]
  BY <1>4, <1>5 DEF Claimed
<1> QED BY <1>2, <1>4, <1>5, <1>6

LEMMA TickDispatchStep ==
    ASSUME IInv, TickDispatch
    PROVE  IInv'
<1>1. PICK read \in [Incident -> IncidentRow], chosen \in SUBSET Incident :
             /\ \A k \in Incident : Lawful(k, read[k], jobs[k], ModeOf(k))
             /\ \A k \in chosen : MayStart(read, k, chosen)
             /\ incidents' \in [Incident -> IncidentRow] /\ jobs' \in [Incident -> Job]
             /\ \A k \in Incident :
                  IF k \in chosen
                  THEN /\ incidents'[k] = ClaimedRow(k, read[k], ModeOf(k))
                       /\ jobs'[k] = ClaimedJob(read[k], ModeOf(k))
                  ELSE incidents'[k] = read[k] /\ jobs'[k] = jobs[k]
  BY DispatchRead
<1>2. \A k \in Incident : Lawful(k, incidents'[k], jobs'[k], ModeOf(k))
  <2> SUFFICES ASSUME NEW k \in Incident
               PROVE  Lawful(k, incidents'[k], jobs'[k], ModeOf(k))
    OBVIOUS
  <2>1. CASE k \in chosen
    <3>1. read[k].state \in {"queued", "repair_queued"} /\ ModeOf(k) \in Mode
      BY <1>1, <2>1, PromptTypes DEF MayStart, ModeOf, IInv, WorldType, RuleRow
    <3> QED BY <1>1, <2>1, <3>1, RowClaimed
  <2>2. CASE k \notin chosen
    BY <1>1, <2>2
  <2> QED BY <2>1, <2>2
<1>3. AllLawful'
  BY <1>2, UntouchedModes, OthersLawful DEF IInv, TickDispatch
<1> QED BY <1>1, <1>3 DEF IInv, WorldType, TickDispatch, counts

LEMMA TickEndsStep ==
    ASSUME IInv, TickEnds
    PROVE  IInv'
<1>1. AllLawful'
  BY UntouchedModes, OthersLawful DEF IInv, TickEnds, table
<1> QED BY <1>1 DEF IInv, WorldType, TickEnds, table, counts

\* The dispatch of one incident.
LEMMA MovedRow ==
    ASSUME NEW table_ \in [Incident -> IncidentRow], NEW i \in Incident, NEW from, NEW to
    PROVE  Moved(table_, i, from, to) =
             [table_ EXCEPT ![i] = IF table_[i].state = from
                                   THEN [table_[i] EXCEPT !.state = to] ELSE table_[i]]
BY DEF Moved

LEMMA RowOf ==
    ASSUME IInv, NEW i \in Incident
    PROVE  /\ Lawful(i, incidents[i], jobs[i], ModeOf(i))
           /\ incidents[i] \in IncidentRow /\ jobs[i] \in Job
           /\ PhaseOf(i) = jobs[i].phase /\ PhaseOf(i) \in Phase
           /\ ClaimedState(i) = ClaimedFor(jobs[i])
           /\ QueuedState(i) = QueuedFor(jobs[i])
           /\ RunningState(i) = RunningFor(jobs[i])
           /\ InSession(i) = RowSession(incidents[i], jobs[i])
           /\ Reuses(i) <=> ReusesIn(jobs[i], ModeOf(i))
BY DEF IInv, AllLawful, Lawful, Job, PhaseOf, ClaimedState, ClaimedFor, QueuedState, QueuedFor,
       RunningState, RunningFor, InSession, RowSession, Reuses, ReusesIn

LEMMA FailsStep ==
    ASSUME IInv, NEW i \in Incident, Fails(i), UNCHANGED rules
    PROVE  /\ incidents' \in [Incident -> IncidentRow] /\ jobs' \in [Incident -> Job]
           /\ AllLawful'
<1> DEFINE row == IF incidents[i].state = ClaimedState(i)
                  THEN [incidents[i] EXCEPT !.state = "needs_attention"] ELSE incidents[i]
<1>1. Lawful(i, row, NoJob, ModeOf(i))
  <2>1. Lawful(i, incidents[i], NoJob, ModeOf(i))
    BY RowOf, JobEnds
  <2>2. Lawful(i, [incidents[i] EXCEPT !.state = "needs_attention"], NoJob, ModeOf(i))
    BY <2>1, PromptTypes, RowEnds
  <2> QED BY <2>1, <2>2
<1>2. incidents' = [incidents EXCEPT ![i] = row] /\ jobs' = [jobs EXCEPT ![i] = NoJob]
  BY MovedRow DEF Fails, Done, IInv, WorldType
<1> HIDE DEF row
<1> QED BY <1>1, <1>2, OneLawful

LEMMA SpawnedSession ==
    ASSUME IInv, NEW s \in Session, NEW link \in {"absent", "down", "up"}
    PROVE  [sessions EXCEPT ![s] = [Absent EXCEPT !.link = link]] \in [Session -> SessionRow]
<1>1. [Absent EXCEPT !.link = link] \in SessionRow
  BY DEF Absent, SessionRow, Prompt, Output
<1> QED BY <1>1 DEF IInv, WorldType

LEMMA SpawnReturnsStep ==
    ASSUME IInv, NEW i \in Incident, SpawnReturns(i)
    PROVE  IInv'
<1>1. sessions' \in [Session -> SessionRow]
  BY RowOf, PromptTypes, SpawnedSession DEF SpawnReturns
<1>2. CASE incidents[i].state = ClaimedState(i)
  <2> DEFINE row == [incidents[i] EXCEPT
                       !.session = IF jobs[i].phase = "investigate" THEN <<jobs[i].phase, i>> ELSE @,
                       !.repair  = IF jobs[i].phase = "repair" THEN <<jobs[i].phase, i>> ELSE @]
             job == [jobs[i] EXCEPT !.step = "waiting"]
  <2>1. Lawful(i, row, job, ModeOf(i))
    BY <1>2, RowOf, RowSpawned DEF SpawnReturns
  <2>2. jobs' = [jobs EXCEPT ![i] = job]
    BY <1>2 DEF SpawnReturns
  <2>3. incidents' = [incidents EXCEPT ![i] = row]
    BY <1>2 DEF SpawnReturns, PhaseOf, IInv, WorldType, IncidentRow
  <2> HIDE DEF row, job
  <2>4. /\ incidents' \in [Incident -> IncidentRow] /\ jobs' \in [Incident -> Job]
        /\ AllLawful'
    BY <2>1, <2>2, <2>3, OneLawful DEF SpawnReturns
  <2> QED BY <1>1, <2>4 DEF IInv, WorldType, SpawnReturns, counts
<1>3. CASE incidents[i].state # ClaimedState(i)
  <2>1. /\ incidents' \in [Incident -> IncidentRow] /\ jobs' \in [Incident -> Job]
        /\ AllLawful'
    BY <1>3, FailsStep DEF SpawnReturns
  <2> QED BY <1>1, <2>1 DEF IInv, WorldType, SpawnReturns, counts
<1> QED BY <1>2, <1>3

LEMMA RefusedStep ==
    ASSUME IInv, NEW i \in Incident, SpawnFails(i) \/ WaitFails(i)
    PROVE  IInv'
<1>1. /\ incidents' \in [Incident -> IncidentRow] /\ jobs' \in [Incident -> Job]
      /\ AllLawful'
  BY FailsStep DEF SpawnFails, WaitFails
<1> QED BY <1>1 DEF IInv, WorldType, SpawnFails, WaitFails, counts

LEMMA PromptedType ==
    ASSUME IInv, NEW s \in Session, NEW prompt \in Prompt
    PROVE  Prompted(s, prompt) \in [Session -> SessionRow]
<1> DEFINE thinking == sessions[s].thinking \/ sessions[s].link = "up"
           row == [sessions[s] EXCEPT !.last = prompt, !.out = "none", !.thinking = thinking]
<1>1. thinking \in BOOLEAN
  OBVIOUS
<1>2. Prompted(s, prompt) = [sessions EXCEPT ![s] = row]
  BY DEF Prompted, IInv, WorldType, SessionRow
<1>3. sessions[s] \in SessionRow
  BY DEF IInv, WorldType
<1> HIDE DEF thinking
<1>4. row \in SessionRow
  BY <1>1, <1>3 DEF SessionRow, Output
<1> QED BY <1>2, <1>4 DEF IInv, WorldType

LEMMA CountedRow ==
    ASSUME IInv, NEW i \in Incident
    PROVE  Counted(i) = [incidents EXCEPT ![i] = SentRow(incidents[i], jobs[i], Sees(InSession(i)))]
BY DEF Counted, SentRow, PhaseOf, IInv, WorldType, IncidentRow

LEMMA SeesType ==
    ASSUME IInv, NEW s \in Session
    PROVE  Sees(s) \in View
BY DEF Sees, View, IInv, WorldType, SessionRow

\* What holds when a message may be sent: a repair in a bound session directly
\* follows the plan it was approved from.
Compared(i) ==
    /\ jobs[i].step \in {"waiting", "configuring"}
    /\ (jobs[i].phase = "repair" /\ ModeOf(i) = "direct") => Unchanged(i)

LEMMA SentLawful ==
    ASSUME IInv, NEW i \in Incident, Compared(i)
    PROVE  LET sent == SentRow(incidents[i], jobs[i], Sees(InSession(i))) IN
           /\ sent.state = incidents[i].state
           /\ incidents[i].state # ClaimedState(i) => Lawful(i, sent, NoJob, ModeOf(i))
           /\ incidents[i].state = ClaimedState(i) =>
                \A st \in {RunningState(i), "needs_attention"} :
                    Lawful(i, [sent EXCEPT !.state = st], NoJob, ModeOf(i))
<1>1. InSession(i) \in Session
  BY RowOf DEF Compared, Lawful, Placed
<1>2. Sees(InSession(i)) \in View
  BY <1>1, SeesType
<1>3. (jobs[i].phase = "repair" /\ ModeOf(i) = "direct") =>
        /\ Sees(InSession(i)) = incidents[i].plan
        /\ Sees(InSession(i)).last = <<"investigate", i>>
  BY DEF Compared, Unchanged, Sees
<1> DEFINE seen == Sees(InSession(i))
<1> HIDE DEF seen
<1>4. seen \in View
      /\ ((jobs[i].phase = "repair" /\ ModeOf(i) = "direct") =>
            seen = incidents[i].plan /\ seen.last = <<"investigate", i>>)
  BY <1>2, <1>3 DEF seen
<1>5. LET sent == SentRow(incidents[i], jobs[i], seen) IN
      /\ sent.state = incidents[i].state
      /\ incidents[i].state # ClaimedState(i) => Lawful(i, sent, NoJob, ModeOf(i))
      /\ incidents[i].state = ClaimedState(i) =>
           \A st \in {RunningState(i), "needs_attention"} :
               Lawful(i, [sent EXCEPT !.state = st], NoJob, ModeOf(i))
  BY <1>4, RowOf, RowSent DEF Compared
<1> QED BY <1>5 DEF seen

LEMMA SendStep ==
    ASSUME IInv, NEW i \in Incident, SendOrFail(i), Compared(i), UNCHANGED rules
    PROVE  /\ incidents' \in [Incident -> IncidentRow] /\ jobs' \in [Incident -> Job]
           /\ AllLawful' /\ sessions' \in [Session -> SessionRow]
<1>1. CASE Send(i)
  <2> DEFINE sent == SentRow(incidents[i], jobs[i], Sees(InSession(i)))
             row == IF sent.state = ClaimedState(i) THEN [sent EXCEPT !.state = RunningState(i)] ELSE sent
  <2>1. InSession(i) \in Session
    BY RowOf DEF Compared, Lawful, Placed
  <2>2. sessions' \in [Session -> SessionRow]
    BY <1>1, <2>1, RowOf, PromptTypes, PromptedType DEF Send
  <2>3. Lawful(i, row, NoJob, ModeOf(i))
    BY SentLawful
  <2>4. incidents' = [incidents EXCEPT ![i] = row]
    <3>1. incidents' = Moved([incidents EXCEPT ![i] = sent], i, ClaimedState(i), RunningState(i))
      BY <1>1, CountedRow DEF Send
    <3> HIDE DEF sent
    <3> QED BY <3>1 DEF Moved, IInv, WorldType
  <2> HIDE DEF row
  <2> QED BY <1>1, <2>2, <2>3, <2>4, OneLawful DEF Send, Done
<1>2. CASE Refused(i)
  BY <1>2, FailsStep DEF Refused, IInv, WorldType
<1> QED BY <1>1, <1>2 DEF SendOrFail

LEMMA ProceedStep ==
    ASSUME IInv, NEW i \in Incident, Proceed(i)
    PROVE  IInv'
<1>1. UNCHANGED <<rules, tick, probes, counts>> /\ jobs[i].step = "waiting"
  BY DEF Proceed
<1>2. /\ incidents' \in [Incident -> IncidentRow] /\ jobs' \in [Incident -> Job]
      /\ AllLawful' /\ sessions' \in [Session -> SessionRow]
  <2>1. CASE Reuses(i) /\ Busy(sessions[InSession(i)])
    <3> DEFINE row == IF incidents[i].state = ClaimedState(i)
                      THEN [incidents[i] EXCEPT !.state = QueuedState(i)] ELSE incidents[i]
    <3>1. Lawful(i, row, NoJob, ModeOf(i))
      BY <1>1, <2>1, RowOf, RowPutBack, JobEnds
    <3>2. incidents' = [incidents EXCEPT ![i] = row] /\ jobs' = [jobs EXCEPT ![i] = NoJob]
      BY <2>1, MovedRow DEF Proceed, Done, IInv, WorldType
    <3> HIDE DEF row
    <3>3. UNCHANGED sessions
      BY <2>1 DEF Proceed
    <3> QED BY <1>1, <3>1, <3>2, <3>3, OneLawful DEF IInv, WorldType
  <2>2. CASE ~(Reuses(i) /\ Busy(sessions[InSession(i)])) /\ MustBeUnchanged(i) /\ ~Unchanged(i)
    BY <1>1, <2>2, FailsStep DEF Proceed, Refused, IInv, WorldType
  <2>3. CASE /\ ~(Reuses(i) /\ Busy(sessions[InSession(i)]))
             /\ ~(MustBeUnchanged(i) /\ ~Unchanged(i))
             /\ Reuses(i) /\ ModeOf(i) = "isolated"
    <3> DEFINE job == [jobs[i] EXCEPT !.step = "configuring"]
    <3>1. Lawful(i, incidents[i], job, ModeOf(i))
      BY <1>1, <2>3, RowOf, JobConfigures
    <3>2. /\ jobs' = [jobs EXCEPT ![i] = job]
          /\ UNCHANGED <<incidents, sessions>>
      BY <2>3 DEF Proceed
    <3>3. incidents' = [incidents EXCEPT ![i] = incidents[i]]
      BY <3>2 DEF IInv, WorldType
    <3> HIDE DEF job
    <3> QED BY <1>1, <3>1, <3>2, <3>3, OneLawful DEF IInv, WorldType
  <2>4. CASE /\ ~(Reuses(i) /\ Busy(sessions[InSession(i)]))
             /\ ~(MustBeUnchanged(i) /\ ~Unchanged(i))
             /\ ~(Reuses(i) /\ ModeOf(i) = "isolated")
    <3>1. SendOrFail(i)
      BY <2>4 DEF Proceed
    <3>2. Compared(i)
      BY <1>1, <2>4 DEF Compared, MustBeUnchanged, PhaseOf
    <3> QED BY <1>1, <3>1, <3>2, SendStep
  <2> QED BY <2>1, <2>2, <2>3, <2>4
<1> QED BY <1>1, <1>2 DEF IInv, WorldType, counts

LEMMA ConfigReturnsStep ==
    ASSUME IInv, NEW i \in Incident, ConfigReturns(i)
    PROVE  IInv'
<1>1. Compared(i)
  BY RowOf DEF ConfigReturns, Compared, Lawful, Placed
<1>2. /\ incidents' \in [Incident -> IncidentRow] /\ jobs' \in [Incident -> Job]
      /\ AllLawful' /\ sessions' \in [Session -> SessionRow]
  BY <1>1, SendStep DEF ConfigReturns
<1> QED BY <1>2 DEF IInv, WorldType, ConfigReturns, counts

\* Restarts of the hub.
LEMMA QuietType ==
    ASSUME NEW view \in [Session -> SessionRow]
    PROVE  Quiet(view) \in [Session -> SessionRow]
<1>1. \A s \in Session : [view[s] EXCEPT !.thinking = FALSE] \in SessionRow
  BY DEF SessionRow
<1> QED BY <1>1 DEF Quiet

\* Recovery of a row whose dispatch is over, or was cut off.
LEMMA RecoveredLawful ==
    ASSUME NEW rows \in [Incident -> IncidentRow], NEW i \in Incident, NEW mode,
           Lawful(i, rows[i], NoJob, mode)
    PROVE  Lawful(i, Recovered(rows)[i], NoJob, mode)
<1>1. CASE rows[i].state \in {"starting", "repair_starting"}
  <2>1. Recovered(rows)[i] = [rows[i] EXCEPT !.state = "needs_attention"]
    BY <1>1 DEF Recovered
  <2>2. Lawful(i, [rows[i] EXCEPT !.state = "needs_attention"], NoJob, mode)
    BY PromptTypes, RowEnds
  <2> QED BY <2>1, <2>2
<1>2. CASE rows[i].state \notin {"starting", "repair_starting"}
  BY <1>2 DEF Recovered
<1> QED BY <1>1, <1>2

LEMMA RestartType ==
    ASSUME IInv, NEW rows, Restart(rows), sessions' \in [Session -> SessionRow],
           \A k \in Incident : Lawful(k, incidents'[k], NoJob, ModeOf(k))
    PROVE  IInv'
<1>1. incidents' \in [Incident -> IncidentRow]
  <2>1. \A k \in Incident : incidents'[k] \in IncidentRow
    BY DEF Lawful
  <2> QED BY <2>1 DEF Restart, Recovered
<1>2. jobs' \in [Incident -> Job] /\ \A k \in Incident : jobs'[k] = NoJob
  BY PromptTypes DEF Restart
<1>3. probes' \in [Rule -> 0..NoProbe] /\ restarts' \in 0..MaxRestarts
  BY DEF Restart, NoProbe, IInv, WorldType
<1>4. AllLawful'
  BY <1>2, UntouchedModes, OthersLawful DEF IInv, Restart
<1> QED BY <1>1, <1>2, <1>3, <1>4 DEF IInv, WorldType, Restart

LEMMA HubRestartsStep ==
    ASSUME IInv, HubRestarts
    PROVE  IInv'
<1>1. ASSUME NEW k \in Incident
      PROVE  Lawful(k, incidents'[k], NoJob, ModeOf(k))
  <2>1. Lawful(k, incidents[k], NoJob, ModeOf(k))
    BY RowOf, JobEnds
  <2> QED BY <2>1, RecoveredLawful DEF HubRestarts, Restart, IInv, WorldType
<1> QED BY <1>1, RestartType, QuietType DEF HubRestarts, IInv, WorldType

LEMMA RestartAfterSendStep ==
    ASSUME IInv, NEW i \in Incident, HubRestartsAfterSend(i)
    PROVE  IInv'
<1>1. Compared(i)
  <2>1. CASE jobs[i].step = "configuring"
    BY <2>1, RowOf DEF Compared, Lawful, Placed
  <2>2. CASE jobs[i].step # "configuring"
    BY <2>2 DEF HubRestartsAfterSend, Compared, MustBeUnchanged, PhaseOf
  <2> QED BY <2>1, <2>2
<1>2. InSession(i) \in Session
  BY <1>1, RowOf DEF Compared, Lawful, Placed
<1>3. sessions' \in [Session -> SessionRow]
  <2>1. Prompted(InSession(i), <<PhaseOf(i), i>>) \in [Session -> SessionRow]
    BY <1>2, RowOf, PromptTypes, PromptedType
  <2> QED BY <2>1, QuietType DEF HubRestartsAfterSend
<1>4. ASSUME NEW k \in Incident
      PROVE  Lawful(k, incidents'[k], NoJob, ModeOf(k))
  <2> DEFINE sent == SentRow(incidents[i], jobs[i], Sees(InSession(i)))
             rows == Counted(i)
  <2>1. rows = [incidents EXCEPT ![i] = sent] /\ incidents' = Recovered(rows)
    BY CountedRow DEF HubRestartsAfterSend, Restart
  <2>2. CASE k = i
    <3>1. rows[i] = sent
      BY <2>1 DEF IInv, WorldType
    <3>2. CASE sent.state = ClaimedState(i)
      <4>1. sent.state \in {"starting", "repair_starting"}
        BY <3>2 DEF ClaimedState
      <4>2. incidents'[i] = [sent EXCEPT !.state = "needs_attention"]
        BY <2>1, <3>1, <4>1 DEF Recovered
      <4> QED BY <1>1, <2>2, <3>2, <4>2, SentLawful
    <3>3. CASE sent.state # ClaimedState(i)
      <4>1. Lawful(i, sent, NoJob, ModeOf(i))
        BY <1>1, <3>3, SentLawful
      <4>2. rows \in [Incident -> IncidentRow]
        BY <2>1, <4>1 DEF IInv, WorldType, Lawful
      <4> HIDE DEF sent, rows
      <4> QED BY <2>1, <2>2, <3>1, <4>1, <4>2, RecoveredLawful
    <3> QED BY <3>2, <3>3
  <2>3. CASE k # i
    <3>1. rows[k] = incidents[k]
      BY <2>1, <2>3 DEF IInv, WorldType
    <3>2. Lawful(k, incidents[k], NoJob, ModeOf(k)) /\ incidents[k] \in IncidentRow
      BY RowOf, JobEnds
    <3>3. incidents'[k] = IF incidents[k].state \in {"starting", "repair_starting"}
                          THEN [incidents[k] EXCEPT !.state = "needs_attention"] ELSE incidents[k]
      BY <2>1, <3>1 DEF Recovered
    <3>4. Lawful(k, [incidents[k] EXCEPT !.state = "needs_attention"], NoJob, ModeOf(k))
      BY <3>2, PromptTypes, RowEnds
    <3> QED BY <3>2, <3>3, <3>4
  <2> QED BY <2>2, <2>3
<1> QED BY <1>3, <1>4, RestartType DEF HubRestartsAfterSend

\* Owners and other systems.
LEMMA OwnerStep ==
    ASSUME IInv, Owner
    PROVE  IInv'
<1>1. ASSUME NEW r \in Rule, Trigger(r)
      PROVE  IInv'
  <2>1. AllLawful'
    BY <1>1, OpenedLawful, UntouchedModes, OthersLawful DEF Trigger, IInv, cycle
  <2> QED BY <1>1, <2>1, OpenedLawful DEF Trigger, IInv, WorldType, cycle, counts
<1>2. ASSUME NEW r \in Rule, NEW row \in RuleRow, row.mode = rules[r].mode,
             rules' = [rules EXCEPT ![r] = row], UNCHANGED <<incidents, cycle, sessions, restarts>>,
             disturbances' \in 0..MaxDisturbances
      PROVE  IInv'
  <2>1. rules' \in [Rule -> RuleRow] /\ SameModes
    BY <1>2, PromptTypes DEF IInv, WorldType, SameModes, ModeOf
  <2>2. AllLawful'
    BY <1>2, <2>1, OthersLawful DEF IInv, cycle
  <2> QED BY <1>2, <2>1, <2>2 DEF IInv, WorldType, cycle
<1>3. ASSUME NEW r \in Rule, BecomesDue(r)
      PROVE  IInv'
  <2> DEFINE row == [rules[r] EXCEPT !.due = TRUE]
  <2>1. rules[r] \in RuleRow
    BY DEF IInv, WorldType
  <2>2. row \in RuleRow /\ row.mode = rules[r].mode
    BY <2>1 DEF RuleRow
  <2>3. rules' = [rules EXCEPT ![r] = row]
    BY <1>3 DEF BecomesDue
  <2> HIDE DEF row
  <2> QED BY <1>2, <1>3, <2>2, <2>3 DEF BecomesDue, IInv, WorldType, counts
<1>4. ASSUME NEW r \in Rule, Toggle(r)
      PROVE  IInv'
  <2> DEFINE enabled == ~rules[r].enabled
             row == [rules[r] EXCEPT !.enabled = enabled, !.due = TRUE]
  <2>1. rules[r] \in RuleRow /\ enabled \in BOOLEAN
    BY DEF IInv, WorldType
  <2>2. rules' = [rules EXCEPT ![r] = row]
    BY <1>4, <2>1 DEF Toggle, IInv, WorldType, RuleRow
  <2> HIDE DEF enabled
  <2>3. row \in RuleRow /\ row.mode = rules[r].mode
    BY <2>1 DEF RuleRow
  <2> HIDE DEF row
  <2>4. /\ disturbances' \in 0..MaxDisturbances
        /\ UNCHANGED <<incidents, cycle, sessions, restarts>>
    BY <1>4 DEF Toggle, Edited, Disturbed, IInv, WorldType
  <2> QED BY <1>2, <2>2, <2>3, <2>4
<1>5. ASSUME NEW r \in Rule, Edit(r)
      PROVE  IInv'
  <2> DEFINE edition == disturbances'
             row == [rules[r] EXCEPT !.edition = edition, !.due = TRUE]
  <2>1. rules[r] \in RuleRow /\ edition \in 0..MaxDisturbances
    BY <1>5 DEF Edit, Edited, Disturbed, IInv, WorldType
  <2>2. rules' = [rules EXCEPT ![r] = row]
    BY <1>5, <2>1 DEF Edit, IInv, WorldType, RuleRow
  <2>3. row \in RuleRow /\ row.mode = rules[r].mode
    BY <2>1 DEF RuleRow
  <2> HIDE DEF row
  <2> QED BY <1>2, <1>5, <2>1, <2>2, <2>3 DEF Edit, Edited, Disturbed
<1>6. ASSUME NEW r \in Rule, Delete(r)
      PROVE  IInv'
  <2>1. rules' \in [Rule -> RuleRow] /\ SameModes
    BY <1>6, PromptTypes DEF Delete, IInv, WorldType, RuleRow, SameModes, ModeOf
  <2>2. ASSUME NEW k \in Incident
        PROVE  Lawful(k, incidents'[k], jobs'[k], ModeOf(k)) /\ incidents'[k] \in IncidentRow
    <3>1. Lawful(k, [incidents[k] EXCEPT !.state = "deleted"], jobs[k], ModeOf(k))
      BY RowOf, RowEnds
    <3>2. incidents'[k] \in {incidents[k], [incidents[k] EXCEPT !.state = "deleted"]} /\ jobs'[k] = jobs[k]
      BY <1>6 DEF Delete, Edited, cycle
    <3> QED BY <3>1, <3>2, RowOf DEF Lawful
  <2>3. incidents' \in [Incident -> IncidentRow]
    BY <1>6, <2>2 DEF Delete
  <2>4. AllLawful'
    BY <2>1, <2>2, OthersLawful DEF IInv
  <2> QED BY <1>6, <2>1, <2>3, <2>4 DEF Delete, Edited, Disturbed, IInv, WorldType, cycle
<1>7. ASSUME NEW i \in Incident, Approve(i) \/ Close(i)
      PROVE  IInv'
  <2>1. PICK row : Lawful(i, row, jobs[i], ModeOf(i)) /\ incidents' = [incidents EXCEPT ![i] = row]
    <3>1. CASE Approve(i)
      <4>1. Lawful(i, [incidents[i] EXCEPT !.state = "repair_queued", !.approved = incidents[i].plan],
                   jobs[i], ModeOf(i))
        BY <3>1, RowOf, RowApproved DEF Approve
      <4>2. incidents' = [incidents EXCEPT ![i] =
                [incidents[i] EXCEPT !.state = "repair_queued", !.approved = incidents[i].plan]]
        BY <3>1 DEF Approve, IInv, WorldType, IncidentRow
      <4> QED BY <4>1, <4>2
    <3>2. CASE Close(i)
      BY <3>2, RowOf, RowEnds DEF Close
    <3> QED BY <1>7, <3>1, <3>2
  <2>2. UNCHANGED <<rules, cycle, sessions, counts>>
    BY <1>7 DEF Approve, Close
  <2>3. jobs' = [jobs EXCEPT ![i] = jobs[i]]
    BY <2>2 DEF cycle, IInv, WorldType
  <2>4. /\ incidents' \in [Incident -> IncidentRow] /\ jobs' \in [Incident -> Job]
        /\ AllLawful'
    BY <2>1, <2>2, <2>3, OneLawful
  <2> QED BY <2>2, <2>4 DEF IInv, WorldType, cycle, counts
<1> QED BY <1>1, <1>3, <1>4, <1>5, <1>6, <1>7 DEF Owner

\* The sessions.
LEMMA SessionsMove ==
    ASSUME IInv, NEW s \in Session, NEW row \in SessionRow, Hears(row, s) \/ Loses(row, s)
    PROVE  IInv'
<1>1. sessions' \in [Session -> SessionRow] /\ UNCHANGED <<table, cycle>>
  BY DEF Hears, Loses, Becomes, IInv, WorldType
<1>2. disturbances' \in 0..MaxDisturbances /\ restarts' \in 0..MaxRestarts
  BY DEF Hears, Loses, Disturbed, counts, IInv, WorldType
<1>3. AllLawful'
  BY <1>1, UntouchedModes, OthersLawful DEF IInv, table, cycle
<1> QED BY <1>1, <1>2, <1>3 DEF IInv, WorldType, table, cycle

LEMMA SessionRowTypes ==
    ASSUME NEW row \in SessionRow
    PROVE  /\ \A b \in BOOLEAN : /\ [row EXCEPT !.thinking = b] \in SessionRow
                                 /\ [row EXCEPT !.asks = b] \in SessionRow
           /\ \A out \in Output : [row EXCEPT !.out = out] \in SessionRow
           /\ \A link \in {"absent", "down", "up"} :
                /\ [row EXCEPT !.link = link] \in SessionRow
                /\ [row EXCEPT !.link = link, !.thinking = FALSE] \in SessionRow
           /\ Absent \in SessionRow
BY DEF SessionRow, Absent, Prompt, Output

LEMMA AgentStep ==
    ASSUME IInv, NEW s \in Session, Agent(s)
    PROVE  IInv'
<1>1. sessions[s] \in SessionRow
  BY DEF IInv, WorldType
<1>2. CASE OwnerPrompts(s)
  <2>1. <<"owner">> \in Prompt
    BY DEF Prompt
  <2>2. sessions' \in [Session -> SessionRow]
    BY <1>2, <2>1, PromptedType DEF OwnerPrompts
  <2>3. AllLawful'
    BY <1>2, UntouchedModes, OthersLawful DEF OwnerPrompts, IInv, table, cycle
  <2> QED BY <1>2, <2>2, <2>3 DEF OwnerPrompts, Disturbed, IInv, WorldType, table, cycle
<1>3. CASE Works(s) \/ Rests(s)
  BY <1>1, <1>3, SessionRowTypes, SessionsMove DEF Works, Rests
<1>10. CASE Asks(s) \/ Settles(s)
  BY <1>1, <1>10, SessionRowTypes, SessionsMove DEF Asks, Settles
<1>4. CASE Connects(s)
  BY <1>1, <1>4, SessionRowTypes, SessionsMove DEF Connects
<1>5. CASE Expires(s)
  BY <1>1, <1>5, SessionRowTypes, SessionsMove DEF Expires
<1>6. CASE Removed(s)
  BY <1>1, <1>6, SessionRowTypes, SessionsMove DEF Removed
<1>7. ASSUME NEW out \in Output, Answers(s, out)
      PROVE  IInv'
  BY <1>1, <1>7, SessionRowTypes, SessionsMove DEF Answers
<1>8. CASE HearsReady(s)
  <2>1. ASSUME NEW k \in Incident
        PROVE  Lawful(k, incidents'[k], jobs'[k], ModeOf(k))
    <3>1. jobs'[k] = jobs[k]
      BY <1>8 DEF HearsReady, cycle
    <3>2. CASE Bound(k, s)
      BY <1>8, <3>1, <3>2, ReadingLawful DEF HearsReady, Bound
    <3>3. CASE ~Bound(k, s)
      BY <1>8, <3>1, <3>3, RowOf DEF HearsReady
    <3> QED BY <3>2, <3>3
  <2>2. incidents' \in [Incident -> IncidentRow]
    <3>1. \A k \in Incident : incidents'[k] \in IncidentRow
      BY <2>1 DEF Lawful
    <3> QED BY <1>8, <3>1 DEF HearsReady
  <2>3. AllLawful'
    BY <1>8, <2>1, UntouchedModes, OthersLawful DEF IInv, HearsReady
  <2> QED BY <1>8, <2>2, <2>3 DEF IInv, WorldType, HearsReady, cycle, counts
<1>9. CASE Stops(s)
  <2>1. ASSUME NEW k \in Incident
        PROVE  Lawful(k, incidents'[k], jobs'[k], ModeOf(k))
    <3>1. jobs'[k] = jobs[k]
      BY <1>9 DEF Stops, cycle
    <3>2. CASE Bound(k, s)
      <4>1. jobs[k].step = "none"
        BY <3>2, RowOf DEF Bound, Running, Lawful, Owned, ClaimedFor
      <4>2. incidents'[k] = [incidents[k] EXCEPT !.state = "needs_attention"]
        BY <1>9, <3>2 DEF Stops
      <4>3. Lawful(k, [incidents[k] EXCEPT !.state = "needs_attention"], jobs[k], ModeOf(k))
        BY <4>1, RowOf, RowEnds
      <4> QED BY <3>1, <4>2, <4>3
    <3>3. CASE ~Bound(k, s)
      BY <1>9, <3>1, <3>3, RowOf DEF Stops
    <3> QED BY <3>2, <3>3
  <2>2. incidents' \in [Incident -> IncidentRow]
    <3>1. \A k \in Incident : incidents'[k] \in IncidentRow
      BY <2>1 DEF Lawful
    <3> QED BY <1>9, <3>1 DEF Stops
  <2>3. AllLawful'
    BY <1>9, <2>1, UntouchedModes, OthersLawful DEF IInv, Stops
  <2>4. sessions' \in [Session -> SessionRow]
    <3>1. sessions' = [sessions EXCEPT ![s] = [sessions[s] EXCEPT !.link = "down", !.thinking = FALSE]]
      BY <1>9 DEF Stops, IInv, WorldType, SessionRow
    <3> QED BY <1>1, <3>1, SessionRowTypes DEF IInv, WorldType
  <2> QED BY <1>9, <2>2, <2>3, <2>4 DEF IInv, WorldType, Stops, Disturbed, cycle
<1> QED BY <1>2, <1>3, <1>4, <1>5, <1>6, <1>7, <1>8, <1>9, <1>10 DEF Agent

LEMMA InvariantStep == IInv /\ [Next]_vars => IInv'
<1> SUFFICES ASSUME IInv, [Next]_vars
             PROVE  IInv'
  OBVIOUS
<1>1. CASE Cycle
  BY <1>1, TickStartStep, TickDispatchStep, TickEndsStep, ProbeStep DEF Cycle
<1>2. ASSUME NEW i \in Incident, Dispatch(i)
      PROVE  IInv'
  BY <1>2, SpawnReturnsStep, RefusedStep, ProceedStep, ConfigReturnsStep DEF Dispatch
<1>3. ASSUME NEW i \in Incident, HubRestartsAfterSend(i)
      PROVE  IInv'
  BY <1>3, RestartAfterSendStep
<1>4. CASE HubRestarts
  BY <1>4, HubRestartsStep
<1>5. CASE Owner
  BY <1>5, OwnerStep
<1>6. ASSUME NEW s \in Session, Agent(s)
      PROVE  IInv'
  BY <1>6, AgentStep
<1>7. CASE UNCHANGED vars
  <2>1. AllLawful'
    BY <1>7, UntouchedModes, OthersLawful DEF IInv, vars, table, cycle
  <2> QED BY <1>7, <2>1 DEF IInv, WorldType, vars, table, cycle, counts
<1> QED BY <1>1, <1>2, <1>3, <1>4, <1>5, <1>6, <1>7 DEF Next

LEMMA InvariantInitially == Init => IInv
<1> SUFFICES ASSUME Init
             PROVE  IInv
  OBVIOUS
<1>1. rules \in [Rule -> RuleRow]
  <2>1. PICK setup \in Setup :
          rules = [r \in Rule |-> [present |-> setup[r].present, kind |-> setup[r].kind,
                                   mode |-> setup[r].mode, enabled |-> TRUE,
                                   edition |-> 0, due |-> TRUE, failures |-> 0]]
    BY DEF Init
  <2>2. setup \in [Rule -> [present : BOOLEAN, kind : Kind, mode : Mode]]
    OBVIOUS
  <2> QED BY <2>1, <2>2 DEF RuleRow
<1>2. Unused \in IncidentRow
  BY PromptTypes DEF Unused, IncidentRow, State
<1>3. sessions \in [Session -> SessionRow]
  <2>1. Absent \in SessionRow /\ [Absent EXCEPT !.link = "up"] \in SessionRow
    BY DEF Absent, SessionRow, Prompt, Output
  <2> QED BY <2>1 DEF Init
<1>4. ASSUME NEW i \in Incident, NEW mode
      PROVE  Lawful(i, Unused, NoJob, mode)
  <2>1. /\ Unused.state = "unused" /\ NotYet(Unused, "investigate") /\ NotYet(Unused, "repair")
        /\ Once(Unused)
    BY DEF Unused, NotYet, Once, Phase
  <2> QED
    BY <1>2, <2>1, PromptTypes
    DEF Lawful, Owned, Counts, Placed, Planned, NotYet, ForRepair
<1>5. AllLawful
  BY <1>4 DEF Init, AllLawful
<1>6. incidents \in [Incident -> IncidentRow] /\ jobs \in [Incident -> Job]
  BY <1>2, PromptTypes DEF Init
<1>7. probes \in [Rule -> 0..NoProbe] /\ disturbances \in 0..MaxDisturbances /\ restarts \in 0..MaxRestarts
  BY DEF Init, NoProbe
<1> QED BY <1>1, <1>3, <1>5, <1>6, <1>7 DEF Init, IInv, WorldType

\* What every incident and its dispatch satisfy at each moment: its claim belongs
\* to the dispatch that holds it, and its counts, its session and its plan are
\* those of its state (the compare-and-set discipline of monitoring/service.ts).
THEOREM DispatchesAreLawful == Spec => []IInv
BY InvariantInitially, InvariantStep, PTL DEF Spec

\* The tables and sessions hold what their declarations say, and a running
\* incident has the session and the plan that its state promises.
THEOREM TypeCorrect == Spec => []TypeOK
BY DispatchesAreLawful, InvariantImpliesType, PTL

\* Whatever crashes, is closed, paused or put back into the queue, each phase of
\* an incident spawns at most one session and sends at most one message: the
\* property of run incidents.
THEOREM WorkIsNeverRepeated == Spec => []OneAttempt
<1>1. IInv => OneAttempt
  BY DEF IInv, AllLawful, Lawful, Counts, Once, OneAttempt
<1> QED BY <1>1, DispatchesAreLawful, PTL

\* A repair carries the plan its owner approved, and in a bound session directly
\* follows the answer it was approved from: the property of run incidents.
THEOREM RepairsAreApproved == Spec => []RepairsFollowPlans
<1>1. IInv => RepairsFollowPlans
  <2> SUFFICES ASSUME IInv, NEW i \in Incident
               PROVE  LET row == incidents[i] IN
                      /\ row.spawns["repair"] + row.sends["repair"] > 0 =>
                           row.approved = row.plan /\ row.plan.out \in Reviewable
                      /\ (row.sends["repair"] > 0 /\ ModeOf(i) = "direct") =>
                           row.found = row.plan /\ row.plan.last = <<"investigate", i>>
    BY DEF RepairsFollowPlans
  <2>1. Lawful(i, incidents[i], jobs[i], ModeOf(i)) /\ incidents[i].spawns \in [Phase -> 0..2]
    BY RowOf DEF IncidentRow
  <2>2. incidents[i].spawns["repair"] + incidents[i].sends["repair"] > 0 => ~NotYet(incidents[i], "repair")
    BY DEF NotYet
  <2> QED BY <2>1, <2>2 DEF Lawful, Planned, Approved
<1> QED BY <1>1, DispatchesAreLawful, PTL

-----------------------------------------------------------------------------
(* Sources are exclusive.                                                  *)

\* Outside a dispatch cycle no incident begins to engage its session.
EngagedStay == \A k \in Incident : incidents'[k].state \in Engaged => incidents[k].state \in Engaged

LEMMA StateOf ==
    ASSUME NEW row \in IncidentRow, NEW st
    PROVE  [row EXCEPT !.state = st].state = st
BY DEF IncidentRow

LEMMA OpenedEngages ==
    ASSUME IInv, NEW R, NEW k \in Incident, Opened(R)[k].state \in Engaged
    PROVE  incidents[k].state \in Engaged
<1>1. Opened(R)[k] \in {incidents[k], [incidents[k] EXCEPT !.state = "queued"]}
  BY DEF Opened
<1>2. [incidents[k] EXCEPT !.state = "queued"].state = "queued"
  BY RowOf, StateOf
<1> QED BY <1>1, <1>2 DEF Engaged, InHand

LEMMA MovedEngages ==
    ASSUME IInv, NEW i \in Incident, NEW k \in Incident, NEW to,
           NEW table_, DOMAIN table_ = Incident, table_[k].state = incidents[k].state,
           Moved(table_, i, ClaimedState(i), to)[k].state \in Engaged
    PROVE  incidents[k].state \in Engaged
<1>1. ClaimedState(i) \in Engaged
  BY DEF ClaimedState, Engaged, InHand
<1>2. CASE k = i /\ table_[i].state = ClaimedState(i)
  BY <1>1, <1>2
<1>3. CASE ~(k = i /\ table_[i].state = ClaimedState(i))
  BY <1>3 DEF Moved
<1> QED BY <1>2, <1>3

LEMMA CountedStates ==
    ASSUME IInv, NEW i \in Incident, NEW k \in Incident
    PROVE  Counted(i)[k].state = incidents[k].state
<1>1. incidents[i] \in IncidentRow /\ DOMAIN incidents = Incident
  BY RowOf DEF IInv, WorldType
<1>2. CASE k = i
  <2>1. Counted(i)[i] = SentRow(incidents[i], jobs[i], Sees(InSession(i)))
    BY <1>1, CountedRow
  <2> QED BY <1>1, <1>2, <2>1 DEF SentRow, IncidentRow
<1>3. CASE k # i
  BY <1>1, <1>3, CountedRow
<1> QED BY <1>2, <1>3

LEMMA RecoveredEngages ==
    ASSUME IInv, NEW rows, NEW k \in Incident, rows[k].state = incidents[k].state,
           Recovered(rows)[k].state \in Engaged, rows[k] \in IncidentRow \/ rows[k] = incidents[k]
    PROVE  incidents[k].state \in Engaged
<1>1. rows[k] \in IncidentRow
  BY RowOf
<1>2. [rows[k] EXCEPT !.state = "needs_attention"].state = "needs_attention"
  BY <1>1, StateOf
<1> QED BY <1>2 DEF Recovered, Engaged, InHand

LEMMA FailsEngages ==
    ASSUME IInv, NEW i \in Incident, Fails(i)
    PROVE  EngagedStay
BY MovedEngages DEF Fails, EngagedStay, IInv, WorldType

LEMMA SendEngages ==
    ASSUME IInv, NEW i \in Incident, SendOrFail(i)
    PROVE  EngagedStay
<1>1. DOMAIN Counted(i) = Incident
  BY CountedRow DEF IInv, WorldType
<1>2. CASE Send(i)
  BY <1>1, <1>2, CountedStates, MovedEngages DEF Send, EngagedStay
<1>3. CASE Refused(i)
  BY <1>3, FailsEngages DEF Refused
<1> QED BY <1>2, <1>3 DEF SendOrFail

LEMMA DispatchEngages ==
    ASSUME IInv, NEW i \in Incident, Dispatch(i)
    PROVE  EngagedStay
<1>1. CASE SpawnReturns(i)
  <2>1. CASE incidents[i].state = ClaimedState(i)
    <3> DEFINE session == IF PhaseOf(i) = "investigate" THEN <<PhaseOf(i), i>> ELSE incidents[i].session
               repair == IF PhaseOf(i) = "repair" THEN <<PhaseOf(i), i>> ELSE incidents[i].repair
               row == [incidents[i] EXCEPT !.session = session, !.repair = repair]
    <3>1. incidents' = [incidents EXCEPT ![i] = row]
      BY <1>1, <2>1 DEF SpawnReturns, IInv, WorldType, IncidentRow
    <3> HIDE DEF session, repair
    <3>2. row.state = incidents[i].state
      BY RowOf DEF IncidentRow
    <3> HIDE DEF row
    <3> QED BY <3>1, <3>2 DEF EngagedStay, IInv, WorldType
  <2>2. CASE incidents[i].state # ClaimedState(i)
    BY <1>1, <2>2, FailsEngages DEF SpawnReturns
  <2> QED BY <2>1, <2>2
<1>2. CASE SpawnFails(i) \/ WaitFails(i)
  BY <1>2, FailsEngages DEF SpawnFails, WaitFails
<1>3. CASE Proceed(i)
  <2>1. CASE Reuses(i) /\ Busy(sessions[InSession(i)])
    <3>1. incidents' = Moved(incidents, i, ClaimedState(i), QueuedState(i))
      BY <1>3, <2>1 DEF Proceed
    <3> QED BY <3>1, MovedEngages DEF EngagedStay, IInv, WorldType
  <2>2. CASE ~(Reuses(i) /\ Busy(sessions[InSession(i)]))
    <3>1. Refused(i) \/ UNCHANGED incidents \/ SendOrFail(i)
      BY <1>3, <2>2 DEF Proceed
    <3> QED BY <3>1, FailsEngages, SendEngages DEF Refused, EngagedStay
  <2> QED BY <2>1, <2>2
<1>4. CASE ConfigReturns(i)
  BY <1>4, SendEngages DEF ConfigReturns
<1> QED BY <1>1, <1>2, <1>3, <1>4 DEF Dispatch

LEMMA RestartEngages ==
    ASSUME IInv, HubRestarts \/ \E i \in Incident : HubRestartsAfterSend(i)
    PROVE  EngagedStay
<1>1. CASE HubRestarts
  <2>1. incidents' = Recovered(incidents)
    BY <1>1 DEF HubRestarts, Restart
  <2> QED BY <2>1, RowOf, RecoveredEngages DEF EngagedStay
<1>2. ASSUME NEW i \in Incident, HubRestartsAfterSend(i)
      PROVE  EngagedStay
  <2>1. incidents' = Recovered(Counted(i))
    BY <1>2 DEF HubRestartsAfterSend, Restart
  <2>2. ASSUME NEW k \in Incident
        PROVE  incidents'[k].state \in Engaged => incidents[k].state \in Engaged
    <3>1. CASE incidents[k].state \in {"starting", "repair_starting"}
      BY <3>1 DEF Engaged, InHand
    <3>2. CASE incidents[k].state \notin {"starting", "repair_starting"}
      BY <2>1, <3>2, CountedStates DEF Recovered
    <3> QED BY <3>1, <3>2
  <2> QED BY <2>2 DEF EngagedStay
<1> QED BY <1>1, <1>2

LEMMA OwnerEngages ==
    ASSUME IInv, Owner
    PROVE  EngagedStay
<1>1. ASSUME NEW r \in Rule, Trigger(r)
      PROVE  EngagedStay
  BY <1>1, OpenedEngages DEF Trigger, EngagedStay
<1>2. ASSUME NEW r \in Rule, BecomesDue(r) \/ Toggle(r) \/ Edit(r)
      PROVE  EngagedStay
  BY <1>2 DEF BecomesDue, Toggle, Edit, EngagedStay
<1>3. ASSUME NEW r \in Rule, Delete(r)
      PROVE  EngagedStay
  <2>1. ASSUME NEW k \in Incident
        PROVE  incidents'[k].state \in Engaged => incidents[k].state \in Engaged
    <3>1. [incidents[k] EXCEPT !.state = "deleted"].state = "deleted"
      BY RowOf, StateOf
    <3> QED BY <1>3, <3>1 DEF Delete, Engaged, InHand
  <2> QED BY <2>1 DEF EngagedStay
<1>4. ASSUME NEW i \in Incident, Approve(i)
      PROVE  EngagedStay
  BY <1>4 DEF Approve, EngagedStay, Engaged, IInv, WorldType
<1>5. ASSUME NEW i \in Incident, Close(i)
      PROVE  EngagedStay
  <2>1. [incidents[i] EXCEPT !.state = "closed"].state = "closed"
    BY RowOf, StateOf
  <2> QED BY <1>5, <2>1 DEF Close, EngagedStay, Engaged, InHand, IInv, WorldType
<1> QED BY <1>1, <1>2, <1>3, <1>4, <1>5 DEF Owner

LEMMA AgentEngages ==
    ASSUME IInv, NEW s \in Session, Agent(s)
    PROVE  EngagedStay
<1>1. ASSUME NEW k \in Incident, Bound(k, s)
      PROVE  incidents[k].state \in Engaged
  BY <1>1 DEF Bound, Running, Engaged, InHand
<1>2. CASE HearsReady(s)
  <2>1. \A k \in Incident : incidents'[k] = incidents[k] \/ Bound(k, s)
    BY <1>2 DEF HearsReady
  <2> QED BY <1>1, <2>1 DEF EngagedStay
<1>3. CASE Stops(s)
  <2>1. \A k \in Incident : incidents'[k] = incidents[k] \/ Bound(k, s)
    BY <1>3 DEF Stops
  <2> QED BY <1>1, <2>1 DEF EngagedStay
<1>4. CASE UNCHANGED incidents
  BY <1>4 DEF EngagedStay
<1>5. Agent(s) => HearsReady(s) \/ Stops(s) \/ UNCHANGED incidents
  BY DEF Agent, OwnerPrompts, Works, Rests, Connects, Expires, Removed, Asks, Settles, Answers,
         Hears, Loses, Becomes, table
<1> QED BY <1>2, <1>3, <1>4, <1>5

LEMMA EngagedKept ==
    ASSUME IInv, [Next]_vars, ~TickDispatch
    PROVE  EngagedStay
<1>1. CASE TickStart
  BY <1>1, OpenedEngages DEF TickStart, EngagedStay
<1>2. CASE TickEnds
  BY <1>2 DEF TickEnds, EngagedStay, table
<1>3. ASSUME NEW r \in Rule, NEW ok \in BOOLEAN, ProbeReturns(r, ok)
      PROVE  EngagedStay
  <2>1. incidents' \in {incidents, Opened({r})}
    BY <1>3 DEF ProbeReturns, table
  <2> QED BY <2>1, OpenedEngages DEF EngagedStay
<1>4. CASE UNCHANGED vars
  BY <1>4 DEF vars, table, EngagedStay
<1> QED
  BY <1>1, <1>2, <1>3, <1>4, DispatchEngages, RestartEngages, OwnerEngages, AgentEngages
  DEF Next, Cycle

\* No step changes the mode of a rule.
LEMMA ModesKept == IInv /\ [Next]_vars => SameModes
<1> SUFFICES ASSUME IInv, [Next]_vars, NEW r \in Rule
             PROVE  rules'[r].mode = rules[r].mode
  BY PromptTypes DEF SameModes, ModeOf
<1>1. rules[r] \in RuleRow /\ DOMAIN rules = Rule
  BY DEF IInv, WorldType
<1>2. CASE UNCHANGED rules
  BY <1>2
<1>3. CASE TickStart
  BY <1>1, <1>3 DEF TickStart, RuleRow
<1>4. ASSUME NEW q \in Rule, NEW ok \in BOOLEAN, ProbeReturns(q, ok)
      PROVE  rules'[r].mode = rules[r].mode
  <2>1. UNCHANGED rules \/ \E n \in 0..2 : rules' = [rules EXCEPT ![q].failures = n]
    BY <1>4 DEF ProbeReturns, table
  <2> QED BY <1>1, <2>1 DEF RuleRow
<1>5. ASSUME NEW q \in Rule, BecomesDue(q) \/ Toggle(q) \/ Edit(q) \/ Delete(q)
      PROVE  rules'[r].mode = rules[r].mode
  <2>1. CASE q = r
    BY <1>1, <1>5, <2>1 DEF BecomesDue, Toggle, Edit, Delete, RuleRow
  <2>2. CASE q # r
    BY <1>1, <1>5, <2>2 DEF BecomesDue, Toggle, Edit, Delete
  <2> QED BY <2>1, <2>2
<1>6. \/ UNCHANGED rules \/ TickStart
      \/ \E q \in Rule, ok \in BOOLEAN : ProbeReturns(q, ok)
      \/ \E q \in Rule : BecomesDue(q) \/ Toggle(q) \/ Edit(q) \/ Delete(q)
  <2>1. ASSUME NEW i \in Incident, Dispatch(i) \/ HubRestartsAfterSend(i) \/ Approve(i) \/ Close(i)
        PROVE  UNCHANGED rules
    BY <2>1 DEF Dispatch, SpawnReturns, SpawnFails, WaitFails, Proceed, ConfigReturns,
                HubRestartsAfterSend, Restart, Approve, Close
  <2>2. ASSUME NEW s \in Session, Agent(s)
        PROVE  UNCHANGED rules
    BY <2>2 DEF Agent, OwnerPrompts, Works, Rests, Connects, Expires, Removed, Asks, Settles,
                Answers, HearsReady, Stops, Hears, Loses, Becomes, table
  <2>3. TickDispatch \/ TickEnds \/ HubRestarts \/ UNCHANGED vars => UNCHANGED rules
    BY DEF TickDispatch, TickEnds, HubRestarts, Restart, vars, table
  <2>4. ASSUME NEW q \in Rule, Trigger(q)
        PROVE  UNCHANGED rules
    BY <2>4 DEF Trigger
  <2> QED BY <2>1, <2>2, <2>3, <2>4 DEF Next, Cycle, Owner
<1> QED BY <1>2, <1>3, <1>4, <1>5, <1>6

LEMMA ExclusiveStep == IInv /\ SourceExclusive /\ [Next]_vars => SourceExclusive'
<1> SUFFICES ASSUME IInv, SourceExclusive, [Next]_vars,
                    NEW i \in Incident, NEW j \in Incident, i # j,
                    ModeOf(i) = "direct", ModeOf(j) = "direct",
                    Target[RuleOf(i)] = Target[RuleOf(j)],
                    incidents'[i].state \in Engaged, incidents'[j].state \in Engaged
             PROVE  FALSE
  BY ModesKept DEF SourceExclusive, SameModes
<1>1. ~(incidents[i].state \in Engaged /\ incidents[j].state \in Engaged)
  BY DEF SourceExclusive
<1>2. CASE ~TickDispatch
  BY <1>1, <1>2, EngagedKept DEF EngagedStay
<1>3. CASE TickDispatch
  <2>1. PICK read \in [Incident -> IncidentRow], chosen \in SUBSET Incident :
             /\ \A k \in Incident :
                  /\ read[k].state \in {incidents[k].state, "needs_attention", "completed", "review"}
                  /\ read[k].state = "review" => incidents[k].state \in Engaged
             /\ \A k \in chosen : MayStart(read, k, chosen)
             /\ \A k \in Incident \ chosen : incidents'[k] = read[k]
    BY <1>3, DispatchRead
  <2>2. \A k \in Incident : read[k].state \in Engaged => incidents[k].state \in Engaged
    BY <2>1 DEF Engaged, InHand
  <2>3. ASSUME NEW k \in {i, j}, NEW l \in {i, j} \ {k}, k \in chosen
        PROVE  l \notin chosen /\ read[l].state \notin Engaged
    <3>1. ModeOf(k) = "direct" /\ ModeOf(l) = "direct" /\ SameSource(k, l)
      BY <2>3 DEF SameSource
    <3> QED BY <2>1, <2>3, <3>1 DEF MayStart
  <2> QED BY <1>1, <2>1, <2>2, <2>3
<1> QED BY <1>2, <1>3

\* Two rules that are bound to one session never have incidents in it at the
\* same time: the property of run incidents.
THEOREM SourcesAreExclusive == Spec => []SourceExclusive
<1>1. Init => SourceExclusive
  BY DEF Init, Unused, SourceExclusive, Engaged, InHand
<1> QED BY <1>1, ExclusiveStep, DispatchesAreLawful, PTL DEF Spec

-----------------------------------------------------------------------------
(* Paused rules are quiet.                                                 *)

Loud(k) == \/ incidents'[k].sends # incidents[k].sends
           \/ incidents[k].state = "unused" /\ incidents'[k].state = "queued"
QuietStep == \A k \in Incident : Loud(k) => Enabled(RuleOf(k))

LEMMA Unheard ==
    ASSUME IInv, NEW k \in Incident, NEW st, st # "queued",
           incidents'[k] \in {incidents[k], [incidents[k] EXCEPT !.state = st]}
    PROVE  ~Loud(k)
<1>1. incidents[k] \in IncidentRow
  BY RowOf
<1>2. /\ [incidents[k] EXCEPT !.state = st].state = st
      /\ [incidents[k] EXCEPT !.state = st].sends = incidents[k].sends
  BY <1>1 DEF IncidentRow
<1> QED BY <1>2 DEF Loud

LEMMA OpenedQuiet ==
    ASSUME IInv, NEW R, incidents' = Opened(R), \A r \in Rule : r \in R => Enabled(r)
    PROVE  QuietStep
<1> SUFFICES ASSUME NEW k \in Incident, Loud(k)
             PROVE  Enabled(RuleOf(k))
  BY DEF QuietStep
<1>1. CASE RuleOf(k) \in R
  BY <1>1, PromptTypes
<1>2. CASE RuleOf(k) \notin R
  BY <1>2 DEF Opened, Loud
<1> QED BY <1>1, <1>2

LEMMA MovedQuiet ==
    ASSUME IInv, NEW i \in Incident, NEW to, incidents' = Moved(incidents, i, ClaimedState(i), to)
    PROVE  QuietStep
<1> SUFFICES ASSUME NEW k \in Incident
             PROVE  ~Loud(k)
  BY DEF QuietStep
<1>1. incidents[k] \in IncidentRow /\ DOMAIN incidents = Incident
  BY RowOf DEF IInv, WorldType
<1>2. CASE incidents'[k] = incidents[k]
  BY <1>2 DEF Loud
<1>3. CASE incidents'[k] # incidents[k]
  <2>1. k = i /\ incidents[i].state = ClaimedState(i) /\ incidents'[k] = [incidents[k] EXCEPT !.state = to]
    BY <1>1, <1>3 DEF Moved
  <2>2. incidents'[k].sends = incidents[k].sends
    BY <1>1, <2>1 DEF IncidentRow
  <2> QED BY <2>1, <2>2 DEF Loud, ClaimedState
<1> QED BY <1>2, <1>3

LEMMA SendQuiet ==
    ASSUME IInv, NEW i \in Incident, SendOrFail(i)
    PROVE  QuietStep
<1>1. CASE Send(i)
  <2> SUFFICES ASSUME NEW k \in Incident, k # i
               PROVE  ~Loud(k)
    BY <1>1 DEF Send, QuietStep
  <2>1. Counted(i)[k] = incidents[k]
    BY CountedRow DEF IInv, WorldType
  <2>2. incidents'[k] = incidents[k]
    BY <1>1, <2>1, CountedRow DEF Send, Moved, IInv, WorldType
  <2> QED BY <2>2 DEF Loud
<1>2. CASE Refused(i)
  BY <1>2, MovedQuiet DEF Refused, Fails
<1> QED BY <1>1, <1>2 DEF SendOrFail

LEMMA DispatchQuiet ==
    ASSUME IInv, NEW i \in Incident, Dispatch(i)
    PROVE  QuietStep
<1>1. CASE SpawnReturns(i)
  <2>1. CASE incidents[i].state = ClaimedState(i)
    <3>1. \A k \in Incident : incidents'[k].sends = incidents[k].sends /\ incidents'[k].state = incidents[k].state
      <4> SUFFICES ASSUME NEW k \in Incident
                   PROVE  incidents'[k].sends = incidents[k].sends /\ incidents'[k].state = incidents[k].state
        OBVIOUS
      <4> DEFINE session == IF PhaseOf(i) = "investigate" THEN <<PhaseOf(i), i>> ELSE incidents[i].session
                 repair == IF PhaseOf(i) = "repair" THEN <<PhaseOf(i), i>> ELSE incidents[i].repair
                 row == [incidents[i] EXCEPT !.session = session, !.repair = repair]
      <4>1. incidents' = [incidents EXCEPT ![i] = row]
        BY <1>1, <2>1 DEF SpawnReturns, IInv, WorldType, IncidentRow
      <4> HIDE DEF session, repair
      <4>2. row.state = incidents[i].state /\ row.sends = incidents[i].sends
        BY RowOf DEF IncidentRow
      <4> HIDE DEF row
      <4> QED BY <4>1, <4>2 DEF IInv, WorldType
    <3> QED BY <3>1 DEF QuietStep, Loud
  <2>2. CASE incidents[i].state # ClaimedState(i)
    BY <1>1, <2>2, MovedQuiet DEF SpawnReturns, Fails
  <2> QED BY <2>1, <2>2
<1>2. CASE SpawnFails(i) \/ WaitFails(i)
  BY <1>2, MovedQuiet DEF SpawnFails, WaitFails, Fails
<1>3. CASE Proceed(i)
  <2>1. CASE Reuses(i) /\ Busy(sessions[InSession(i)])
    <3>1. incidents' = Moved(incidents, i, ClaimedState(i), QueuedState(i))
      BY <1>3, <2>1 DEF Proceed
    <3> QED BY <3>1, MovedQuiet
  <2>2. CASE ~(Reuses(i) /\ Busy(sessions[InSession(i)]))
    <3>1. Refused(i) \/ UNCHANGED incidents \/ SendOrFail(i)
      BY <1>3, <2>2 DEF Proceed
    <3>2. CASE UNCHANGED incidents
      BY <3>2 DEF QuietStep, Loud
    <3> QED BY <3>1, <3>2, MovedQuiet, SendQuiet DEF Refused, Fails
  <2> QED BY <2>1, <2>2
<1>4. CASE ConfigReturns(i)
  BY <1>4, SendQuiet DEF ConfigReturns
<1> QED BY <1>1, <1>2, <1>3, <1>4 DEF Dispatch

LEMMA RestartQuiet ==
    ASSUME IInv, HubRestarts \/ \E i \in Incident : HubRestartsAfterSend(i)
    PROVE  QuietStep
<1>1. CASE HubRestarts
  <2>1. \A k \in Incident :
           incidents'[k] \in {incidents[k], [incidents[k] EXCEPT !.state = "needs_attention"]}
    BY <1>1 DEF HubRestarts, Restart, Recovered
  <2> QED BY <2>1, Unheard DEF QuietStep
<1>2. ASSUME NEW i \in Incident, HubRestartsAfterSend(i)
      PROVE  QuietStep
  <2> SUFFICES ASSUME NEW k \in Incident, k # i
               PROVE  ~Loud(k)
    BY <1>2 DEF HubRestartsAfterSend, QuietStep
  <2>1. Counted(i)[k] = incidents[k]
    BY CountedRow DEF IInv, WorldType
  <2>2. incidents'[k] \in {incidents[k], [incidents[k] EXCEPT !.state = "needs_attention"]}
    BY <1>2, <2>1 DEF HubRestartsAfterSend, Restart, Recovered
  <2> QED BY <2>2, Unheard
<1> QED BY <1>1, <1>2

LEMMA OwnerQuiet ==
    ASSUME IInv, Owner
    PROVE  QuietStep
<1>1. ASSUME NEW r \in Rule, Trigger(r)
      PROVE  QuietStep
  BY <1>1, OpenedQuiet DEF Trigger
<1>2. ASSUME NEW r \in Rule, BecomesDue(r) \/ Toggle(r) \/ Edit(r)
      PROVE  QuietStep
  BY <1>2 DEF BecomesDue, Toggle, Edit, QuietStep, Loud
<1>3. ASSUME NEW r \in Rule, Delete(r)
      PROVE  QuietStep
  <2>1. \A k \in Incident : incidents'[k] \in {incidents[k], [incidents[k] EXCEPT !.state = "deleted"]}
    BY <1>3 DEF Delete
  <2> QED BY <2>1, Unheard DEF QuietStep
<1>4. ASSUME NEW i \in Incident, Approve(i)
      PROVE  QuietStep
  <2> SUFFICES ASSUME NEW k \in Incident
               PROVE  ~Loud(k)
    BY DEF QuietStep
  <2>1. CASE k = i
    <3>1. incidents'[i] = [incidents[i] EXCEPT !.state = "repair_queued", !.approved = incidents[i].plan]
      BY <1>4 DEF Approve, IInv, WorldType, IncidentRow
    <3>2. incidents'[i].sends = incidents[i].sends
      BY <3>1, RowOf DEF IncidentRow
    <3> QED BY <1>4, <2>1, <3>2 DEF Approve, Loud
  <2>2. CASE k # i
    <3>1. incidents'[k] = incidents[k]
      BY <1>4, <2>2 DEF Approve, IInv, WorldType
    <3> QED BY <3>1 DEF Loud
  <2> QED BY <2>1, <2>2
<1>5. ASSUME NEW i \in Incident, Close(i)
      PROVE  QuietStep
  <2>1. \A k \in Incident : incidents'[k] \in {incidents[k], [incidents[k] EXCEPT !.state = "closed"]}
    BY <1>5 DEF Close, IInv, WorldType
  <2> QED BY <2>1, Unheard DEF QuietStep
<1> QED BY <1>1, <1>2, <1>3, <1>4, <1>5 DEF Owner

LEMMA AgentQuiet ==
    ASSUME IInv, NEW s \in Session, Agent(s)
    PROVE  QuietStep
<1>1. CASE HearsReady(s)
  <2> SUFFICES ASSUME NEW k \in Incident
               PROVE  ~Loud(k)
    BY DEF QuietStep
  <2>1. CASE Bound(k, s)
    <3>1. Running(k) /\ incidents'[k] = Reconciled(k, {})
      BY <1>1, <2>1 DEF HearsReady, Bound
    <3>2. incidents'[k].sends = incidents[k].sends
      BY <3>1, ReadingLawful
    <3> QED BY <3>1, <3>2 DEF Loud, Running
  <2>2. CASE ~Bound(k, s)
    BY <1>1, <2>2 DEF HearsReady, Loud
  <2> QED BY <2>1, <2>2
<1>2. CASE Stops(s)
  <2>1. \A k \in Incident :
           incidents'[k] \in {incidents[k], [incidents[k] EXCEPT !.state = "needs_attention"]}
    BY <1>2 DEF Stops
  <2> QED BY <2>1, Unheard DEF QuietStep
<1>3. CASE UNCHANGED incidents
  BY <1>3 DEF QuietStep, Loud
<1>4. Agent(s) => HearsReady(s) \/ Stops(s) \/ UNCHANGED incidents
  BY DEF Agent, OwnerPrompts, Works, Rests, Connects, Expires, Removed, Asks, Settles, Answers,
         Hears, Loses, Becomes, table
<1> QED BY <1>1, <1>2, <1>3, <1>4

LEMMA TickDispatchQuiet ==
    ASSUME IInv, TickDispatch
    PROVE  QuietStep
<1>1. PICK read \in [Incident -> IncidentRow], chosen \in SUBSET Incident :
             /\ \A k \in Incident :
                  /\ Lawful(k, read[k], jobs[k], ModeOf(k))
                  /\ read[k].sends = incidents[k].sends
                  /\ read[k].state \in {incidents[k].state, "needs_attention", "completed", "review"}
                  /\ read[k].state = "review" => incidents[k].state \in Engaged
             /\ \A k \in chosen : MayStart(read, k, chosen)
             /\ incidents' \in [Incident -> IncidentRow] /\ jobs' \in [Incident -> Job]
             /\ \A k \in Incident :
                  IF k \in chosen
                  THEN /\ incidents'[k] = ClaimedRow(k, read[k], ModeOf(k))
                       /\ jobs'[k] = ClaimedJob(read[k], ModeOf(k))
                  ELSE incidents'[k] = read[k] /\ jobs'[k] = jobs[k]
  BY DispatchRead
<1> SUFFICES ASSUME NEW k \in Incident
             PROVE  ~Loud(k)
  BY DEF QuietStep
<1>2. CASE k \in chosen
  <2>1. read[k].state \in {"queued", "repair_queued"} /\ ModeOf(k) \in Mode
    BY <1>1, <1>2, PromptTypes DEF MayStart, ModeOf, IInv, WorldType, RuleRow
  <2>2. incidents'[k].sends = incidents[k].sends /\ incidents'[k].state \in {"starting", "repair_starting"}
    BY <1>1, <1>2, <2>1, ClaimStarts
  <2> QED BY <2>2 DEF Loud
<1>3. CASE k \notin chosen
  BY <1>1, <1>3 DEF Loud
<1> QED BY <1>2, <1>3

LEMMA StepsAreQuiet == IInv /\ [Next]_vars => QuietStep \/ UNCHANGED vars
<1> SUFFICES ASSUME IInv, Next
             PROVE  QuietStep
  OBVIOUS
<1>1. CASE TickStart
  <2>1. \E R \in SUBSET Rule : incidents' = Opened(R) /\ \A r \in Rule : r \in R => Enabled(r)
    BY <1>1 DEF TickStart
  <2> QED BY <2>1, OpenedQuiet
<1>2. CASE TickEnds
  BY <1>2 DEF TickEnds, QuietStep, Loud, table
<1>3. ASSUME NEW r \in Rule, NEW ok \in BOOLEAN, ProbeReturns(r, ok)
      PROVE  QuietStep
  <2>1. CASE UNCHANGED incidents
    BY <2>1 DEF QuietStep, Loud
  <2>2. CASE incidents' # incidents
    <3>1. incidents' = Opened({r}) /\ Enabled(r)
      BY <1>3, <2>2 DEF ProbeReturns, table
    <3> QED BY <3>1, OpenedQuiet
  <2> QED BY <2>1, <2>2
<1> QED
  BY <1>1, <1>2, <1>3, TickDispatchQuiet, DispatchQuiet, RestartQuiet, OwnerQuiet, AgentQuiet
  DEF Next, Cycle

\* No message is sent and no incident opened for a rule that is paused or deleted
\* at that moment: the action property of run incidents.
THEOREM PausedRulesAreQuiet == Spec => PausedStaysQuiet
<1>1. IInv /\ [Next]_vars =>
        [\A i \in Incident :
           (incidents'[i].sends # incidents[i].sends \/ (incidents[i].state = "unused" /\ incidents'[i].state = "queued"))
             => Enabled(RuleOf(i))]_vars
  BY StepsAreQuiet DEF QuietStep, Loud
<1> QED BY <1>1, DispatchesAreLawful, PTL DEF Spec, PausedStaysQuiet

=============================================================================
