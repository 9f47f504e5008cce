----------------------------- MODULE Monitoring -----------------------------
(***************************************************************************)
(* The monitoring scheduler of the hub (monitoring/service.ts over          *)
(* store/monitors.ts).  A rule that fires opens an incident; the scheduler  *)
(* has a session investigate it, shows its owner the plan the session ends  *)
(* with, and once the owner approves has the plan carried out.             *)
(*                                                                         *)
(* A "fresh" rule works in a session of its own for each phase, a "direct" *)
(* rule in the session it is bound to, an "isolated" rule is bound to a    *)
(* session but investigates and repairs in one session of its own.         *)
(*                                                                         *)
(* A session is what the scheduler can see of it: whether it is active,    *)
(* the thinking flag, whether its agent asks for a permission, the last    *)
(* user prompt of its history and the output after that prompt.  Agents     *)
(* and owners use the sessions as they please.                             *)
(* JavaScript runs each action without a break: the actions are the        *)
(* stretches between the awaits that wait for something outside the hub.   *)
(* Native Codex targets, whose sessions the hub does not hold, are left out. *)
(***************************************************************************)
EXTENDS Naturals, FiniteSets

CONSTANTS
    Rule,
    Setup,          \* the rules to begin with: which exist, their kind and mode
    Source,         \* managed sessions that rules are bound to
    Target,         \* [Rule -> Source], read only for bound rules
    NoSession,
    MaxActive,      \* incidents in an agent's hands, 4 (per namespace: 2)
    MaxPerTick,     \* dispatches of a cycle, 2
    MaxIncidents,   \* bound: incidents of a rule
    MaxDisturbances, \* bound: owners' prompts, changes to the rules, requests for
                     \*        a permission and lost sessions, together
    MaxRestarts      \* bound: crashes of the hub

Kind == {"webhook", "scheduled", "http"}
Mode == {"fresh", "isolated", "direct"}
Phase == {"investigate", "repair"}
Incident == Rule \X (1..MaxIncidents)
RuleOf(i) == i[1]
Spawned == Phase \X Incident        \* the session a phase of an incident spawns
Session == Source \cup Spawned

ASSUME MonitoringAssumption ==
    /\ Setup \subseteq [Rule -> [present : BOOLEAN, kind : Kind, mode : Mode]]
    /\ Target \in [Rule -> Source]
    /\ Source \cap Spawned = {} /\ NoSession \notin Session
    /\ {MaxActive, MaxPerTick, MaxIncidents, MaxDisturbances, MaxRestarts} \subseteq Nat

VARIABLES
    rules,      \* the monitors table, and which checks are due
    incidents,  \* the monitor_incidents table
    tick,       \* the cycle under way
    probes,     \* HTTP checks in flight: the edition of the rule they began with
    jobs,       \* dispatches in flight
    sessions,   \* the sessions as the hub sees them
    disturbances, restarts  \* how many so far

table == <<rules, incidents>>
cycle == <<tick, probes, jobs>>
counts == <<disturbances, restarts>>
vars == <<table, cycle, sessions, counts>>

State == {"unused", "queued", "starting", "investigating", "review", "repair_queued",
          "repair_starting", "repairing", "completed", "needs_attention", "closed", "deleted"}
InHand == {"starting", "investigating", "repair_starting", "repairing"}
Engaged == InHand \cup {"review", "repair_queued"}

\* User prompts by who sent them, and what the agent's output after one amounts
\* to (extractMonitorPlan): "failed" is an outcome without a text to review,
\* "revised" another final text than the first.
Prompt == {<<"nobody">>, <<"owner">>} \cup (Phase \X Incident)
Output == {"none", "plan", "revised", "failed"}
Reviewable == {"plan", "revised"}
View == [last : Prompt, out : Output]
NoPlan == [last |-> <<"nobody">>, out |-> "none"]

RuleRow == [present : BOOLEAN, kind : Kind, mode : Mode, enabled : BOOLEAN,
            edition : 0..MaxDisturbances, due : BOOLEAN, failures : 0..2]

\* `plan`, `approved` and `found` are the plan that was shown, the one the owner
\* confirmed and what ended the session's history when the repair was sent; the
\* last two and the counts of spawns and messages record history only.
IncidentRow == [state : State, session : Session \cup {NoSession}, repair : Session \cup {NoSession},
                plan : View, approved : View, found : View,
                spawns : [Phase -> 0..2], sends : [Phase -> 0..2]]
Unused == [state |-> "unused", session |-> NoSession, repair |-> NoSession,
           plan |-> NoPlan, approved |-> NoPlan, found |-> NoPlan,
           spawns |-> [p \in Phase |-> 0], sends |-> [p \in Phase |-> 0]]

\* `asks`: agentState.requests is not empty.
SessionRow == [link : {"absent", "down", "up"}, thinking : BOOLEAN, asks : BOOLEAN,
               last : Prompt, out : Output]
Absent == [link |-> "absent", thinking |-> FALSE, asks |-> FALSE,
           last |-> <<"nobody">>, out |-> "none"]
Busy(row) == row.thinking \/ row.asks

Step == {"none", "spawning", "waiting", "configuring"}
Job == [step : Step, phase : Phase]
NoJob == [step |-> "none", phase |-> "investigate"]

NoProbe == MaxDisturbances + 1  \* no edition

\* Types, and what a state of an incident says about its other columns: the
\* scheduler reads the session of a running incident, and approves and repairs
\* by the plan.
TypeOK ==
    /\ rules \in [Rule -> RuleRow]
    /\ incidents \in [Incident -> IncidentRow]
    /\ tick \in {"idle", "probing", "dispatching"}
    /\ probes \in [Rule -> 0..NoProbe]
    /\ jobs \in [Incident -> Job]
    /\ sessions \in [Session -> SessionRow]
    /\ disturbances \in 0..MaxDisturbances /\ restarts \in 0..MaxRestarts
    /\ \A i \in Incident :
         /\ incidents[i].state = "investigating" => incidents[i].session \in Session
         /\ incidents[i].state = "repairing" => incidents[i].repair \in Session
         /\ incidents[i].state \in {"review", "repair_queued", "repair_starting", "repairing"} =>
              incidents[i].plan.out \in Reviewable

Init ==
    /\ \E setup \in Setup :
          rules = [r \in Rule |-> [present |-> setup[r].present, kind |-> setup[r].kind,
                                   mode |-> setup[r].mode, enabled |-> TRUE,
                                   edition |-> 0, due |-> TRUE, failures |-> 0]]
    /\ incidents = [i \in Incident |-> Unused]
    /\ tick = "idle"
    /\ probes = [r \in Rule |-> NoProbe]
    /\ jobs = [i \in Incident |-> NoJob]
    /\ sessions = [s \in Session |-> IF s \in Source THEN [Absent EXCEPT !.link = "up"] ELSE Absent]
    /\ disturbances = 0 /\ restarts = 0

-----------------------------------------------------------------------------
(* The tables. *)

ModeOf(i) == rules[RuleOf(i)].mode
Enabled(r) == rules[r].present /\ rules[r].enabled

\* openForMonitor: a completed incident holds the gate until it is closed.
IsOpen(i) == incidents[i].state \notin {"unused", "closed", "deleted"}
Gate(r) == {i \in Incident : RuleOf(i) = r /\ IsOpen(i)}

\* The row that the next incident of a rule is stored in.
IsNext(i) == /\ incidents[i].state = "unused"
             /\ \A n \in 1..(i[2] - 1) : incidents[<<RuleOf(i), n>>].state # "unused"

\* openIncident for each of the rules in R; past the bound nothing opens.
Opened(R) == [i \in Incident |->
                IF RuleOf(i) \in R /\ Gate(RuleOf(i)) = {} /\ IsNext(i)
                THEN [incidents[i] EXCEPT !.state = "queued"] ELSE incidents[i]]

\* transition: compare and set.
Moved(table_, i, from, to) ==
    IF table_[i].state = from THEN [table_ EXCEPT ![i].state = to] ELSE table_

\* Mutant: what was cut off is put back into the queue.
RecoveredToQueue(table_) == [i \in Incident |->
    IF table_[i].state = "starting" THEN [table_[i] EXCEPT !.state = "queued"]
    ELSE IF table_[i].state = "repair_starting" THEN [table_[i] EXCEPT !.state = "repair_queued"]
    ELSE table_[i]]

\* recoverInterrupted: a dispatch that was cut off is never replayed.
Recovered(table_) == [i \in Incident |->
                        IF table_[i].state \in {"starting", "repair_starting"}
                        THEN [table_[i] EXCEPT !.state = "needs_attention"] ELSE table_[i]]

-----------------------------------------------------------------------------
(* Reading the result of a session (reconcile, finishReconcile). *)

Repairing(i) == incidents[i].state = "repairing"
Running(i) == incidents[i].state \in {"investigating", "repairing"}
Marker(i) == IF Repairing(i) THEN <<"repair", i>> ELSE <<"investigate", i>>
WorksIn(i) == IF Repairing(i) THEN incidents[i].repair ELSE incidents[i].session
Seen(i) == sessions[WorksIn(i)]
Sees(s) == [last |-> sessions[s].last, out |-> sessions[s].out]

Observable(i) == Seen(i).link # "absent" /\ ~Busy(Seen(i))
OwnTurn(i) == ModeOf(i) = "fresh" \/ Seen(i).last = Marker(i)
Finished(i) == Observable(i) /\ OwnTurn(i) /\ Seen(i).out \in Reviewable
Broken(i) == /\ Observable(i)
             /\ \/ ~OwnTurn(i)
                \/ Seen(i).out = "failed"
                \/ Seen(i).out = "none" /\ Seen(i).link = "down"

\* `overdue`: the incidents whose session has been missing for five minutes.
Reconciled(i, overdue) ==
    IF Broken(i) \/ (Seen(i).link = "absent" /\ i \in overdue)
    THEN [incidents[i] EXCEPT !.state = "needs_attention"]
    ELSE IF Finished(i) /\ Repairing(i)
    THEN [incidents[i] EXCEPT !.state = "completed"]
    ELSE IF Finished(i)
    THEN [incidents[i] EXCEPT !.state = "review", !.plan = Sees(WorksIn(i))]
    ELSE incidents[i]

\* Mutant: the cycle reads investigations only.
OnlyInvestigationsReconciled(overdue) == [i \in Incident |->
    IF incidents[i].state = "investigating" THEN Reconciled(i, overdue) ELSE incidents[i]]

AllReconciled(overdue) == [i \in Incident |-> IF Running(i) THEN Reconciled(i, overdue) ELSE incidents[i]]

-----------------------------------------------------------------------------
(* A cycle of the scheduler (runTick). *)

\* Claims what is due: scheduled rules open their incident at once, HTTP
\* checks begin and are not due again before their interval has passed.
TickStart ==
    LET dueNow == {r \in Rule : Enabled(r) /\ rules[r].due}
        scheduled == {r \in dueNow : rules[r].kind = "scheduled"}
        checks == {r \in dueNow : rules[r].kind = "http"}
    IN  /\ tick = "idle"
        /\ tick' = "probing"
        /\ rules' = [r \in Rule |-> IF r \in scheduled \cup checks
                                    THEN [rules[r] EXCEPT !.due = FALSE] ELSE rules[r]]
        /\ probes' = [r \in Rule |-> IF r \in checks THEN rules[r].edition ELSE probes[r]]
        /\ incidents' = Opened(scheduled)
        /\ UNCHANGED <<jobs, sessions, counts>>

\* A result counts only for the configuration it was asked for.
ProbeReturns(r, ok) ==
    /\ probes[r] # NoProbe
    /\ probes' = [probes EXCEPT ![r] = NoProbe]
    /\ IF ~Enabled(r) \/ rules[r].edition # probes[r]
       THEN UNCHANGED table
       ELSE LET failures == IF ok THEN 0 ELSE IF rules[r].failures = 0 THEN 1 ELSE 2
            IN  /\ rules' = [rules EXCEPT ![r].failures = failures]
                /\ incidents' = IF failures = 2 THEN Opened({r}) ELSE incidents
    /\ UNCHANGED <<tick, jobs, sessions, counts>>

\* Capacity and the source sessions are claimed for the chosen incidents
\* before any of them is dispatched.
Claimed(table_, chosen) == [i \in Incident |->
    IF i \notin chosen THEN table_[i]
    ELSE LET row == table_[i]
             mode == ModeOf(i)
         IN  IF row.state = "repair_queued"
             THEN [row EXCEPT !.state = "repair_starting",
                     !.repair = IF mode = "fresh" THEN @
                                ELSE IF mode = "direct" THEN Target[RuleOf(i)] ELSE row.session,
                     !.spawns["repair"] = IF mode = "fresh" THEN @ + 1 ELSE @]
             ELSE [row EXCEPT !.state = "starting",
                     !.session = IF mode = "direct" THEN Target[RuleOf(i)] ELSE @,
                     !.spawns["investigate"] = IF mode = "direct" THEN @ ELSE @ + 1]]

SameSource(i, j) == ModeOf(j) # "fresh" /\ Target[RuleOf(i)] = Target[RuleOf(j)]

\* Mutant: only the incidents chosen in this cycle keep a source from others.
MayStartUnlessChosen(table_, i, chosen) ==
    /\ table_[i].state \in {"queued", "repair_queued"}
    /\ Enabled(RuleOf(i))
    /\ ModeOf(i) = "direct" =>
         /\ ~Busy(sessions[Target[RuleOf(i)]])
         /\ \A j \in chosen \ {i} : ModeOf(j) = "direct" => ~SameSource(i, j)

\* Whether i may be dispatched beside the incidents chosen so far.
MayStart(table_, i, chosen) ==
    /\ table_[i].state \in {"queued", "repair_queued"}
    /\ Enabled(RuleOf(i))
    /\ ModeOf(i) = "direct" =>
         /\ ~Busy(sessions[Target[RuleOf(i)]])
         /\ \A j \in Incident \ {i} :
               SameSource(i, j) => table_[j].state \notin Engaged
         /\ \A j \in chosen \ {i} : ModeOf(j) = "direct" => ~SameSource(i, j)

\* Which machines are online, and so how many of the eligible incidents are
\* taken, is left open.
TickDispatch ==
    /\ tick = "probing"
    /\ \A r \in Rule : probes[r] = NoProbe
    /\ tick' = "dispatching"
    /\ \E overdue \in {{}, {i \in Incident : Running(i) /\ Seen(i).link = "absent"}}, chosen \in SUBSET Incident :
         LET read == AllReconciled(overdue) IN
         /\ \A i \in chosen : MayStart(read, i, chosen)
         /\ Cardinality(chosen) <= MaxPerTick
         /\ chosen # {} =>
              Cardinality({i \in Incident : read[i].state \in InHand}) + Cardinality(chosen) <= MaxActive
         /\ incidents' = Claimed(read, chosen)
         /\ jobs' = [i \in Incident |->
                       IF i \notin chosen THEN jobs[i]
                       ELSE LET phase == IF read[i].state = "queued" THEN "investigate" ELSE "repair"
                            IN  [step |-> IF incidents'[i].spawns[phase] > read[i].spawns[phase]
                                          THEN "spawning" ELSE "waiting",
                                 phase |-> phase]]
    /\ UNCHANGED <<rules, probes, sessions, counts>>

TickEnds ==
    /\ tick = "dispatching"
    /\ \A i \in Incident : jobs[i].step = "none"
    /\ tick' = "idle"
    /\ UNCHANGED <<table, probes, jobs, sessions, counts>>

-----------------------------------------------------------------------------
(* Dispatching one incident (dispatch). *)

PhaseOf(i) == jobs[i].phase
ClaimedState(i) == IF PhaseOf(i) = "repair" THEN "repair_starting" ELSE "starting"
QueuedState(i) == IF PhaseOf(i) = "repair" THEN "repair_queued" ELSE "queued"
RunningState(i) == IF PhaseOf(i) = "repair" THEN "repairing" ELSE "investigating"
InSession(i) == IF PhaseOf(i) = "repair" THEN incidents[i].repair ELSE incidents[i].session
Reuses(i) == ModeOf(i) = "direct" \/ (ModeOf(i) = "isolated" /\ PhaseOf(i) = "repair")
Done(i) == jobs' = [jobs EXCEPT ![i] = NoJob]

\* The catch block.
Fails(i) ==
    /\ incidents' = Moved(incidents, i, ClaimedState(i), "needs_attention")
    /\ Done(i)

\* The session's identity is saved before anything is sent to it.
SpawnReturns(i) ==
    LET s == <<PhaseOf(i), i>> IN
    /\ jobs[i].step = "spawning"
    /\ sessions' = [sessions EXCEPT ![s] = [Absent EXCEPT !.link = "down"]]
    /\ IF incidents[i].state = ClaimedState(i)
       THEN /\ incidents' = [incidents EXCEPT
                  ![i].session = IF PhaseOf(i) = "investigate" THEN s ELSE @,
                  ![i].repair  = IF PhaseOf(i) = "repair" THEN s ELSE @]
            /\ jobs' = [jobs EXCEPT ![i].step = "waiting"]
       ELSE Fails(i)
    /\ UNCHANGED <<rules, tick, probes, counts>>

SpawnFails(i) ==
    /\ jobs[i].step = "spawning"
    /\ Fails(i)
    /\ UNCHANGED <<rules, tick, probes, sessions, counts>>

\* waitForSessionActive gives up, or the session is not where the rule says.
WaitFails(i) ==
    /\ jobs[i].step = "waiting"
    /\ Fails(i)
    /\ UNCHANGED <<rules, tick, probes, sessions, counts>>

\* engine.sendMessage and the two transitions after it.  A session that is
\* being released, or that another program controls, refuses the message.
Prompted(s, prompt) == [sessions EXCEPT ![s].last = prompt, ![s].out = "none",
                                        ![s].thinking = @ \/ sessions[s].link = "up"]
Counted(i) == [incidents EXCEPT
    ![i].sends[PhaseOf(i)] = @ + 1,
    ![i].found = IF PhaseOf(i) = "repair" THEN Sees(InSession(i)) ELSE @]

\* Mutant: the rule is not looked up again after the awaits.
SendAnyway(i) ==
    /\ sessions[InSession(i)].link # "absent"
    /\ sessions' = Prompted(InSession(i), <<PhaseOf(i), i>>)
    /\ incidents' = Moved(Counted(i), i, ClaimedState(i), RunningState(i))
    /\ Done(i)

Send(i) ==
    /\ Enabled(RuleOf(i))
    /\ sessions[InSession(i)].link # "absent"
    /\ sessions' = Prompted(InSession(i), <<PhaseOf(i), i>>)
    /\ incidents' = Moved(Counted(i), i, ClaimedState(i), RunningState(i))
    /\ Done(i)
Refused(i) == Fails(i) /\ UNCHANGED sessions
SendOrFail(i) == Send(i) \/ Refused(i)

\* Mutant: only the last prompt is compared, not the final text.
UnchangedPrompt(i) == sessions[InSession(i)].last = <<"investigate", i>>

\* assertUnchangedBoundPlan
Unchanged(i) == /\ sessions[InSession(i)].last = <<"investigate", i>>
                /\ Sees(InSession(i)) = incidents[i].plan
MustBeUnchanged(i) == ModeOf(i) # "fresh" /\ PhaseOf(i) = "repair"

\* The session is active.  A busy one is left alone and the incident waits
\* for another cycle; an isolated session first gets the mode of the repair.
Proceed(i) ==
    /\ jobs[i].step = "waiting"
    /\ sessions[InSession(i)].link = "up"
    /\ IF Reuses(i) /\ Busy(sessions[InSession(i)])
       THEN /\ incidents' = Moved(incidents, i, ClaimedState(i), QueuedState(i))
            /\ Done(i)
            /\ UNCHANGED sessions
       ELSE IF MustBeUnchanged(i) /\ ~Unchanged(i)
       THEN Refused(i)
       ELSE IF Reuses(i) /\ ModeOf(i) = "isolated"
       THEN /\ jobs' = [jobs EXCEPT ![i].step = "configuring"]
            /\ UNCHANGED <<incidents, sessions>>
       ELSE SendOrFail(i)
    /\ UNCHANGED <<rules, tick, probes, counts>>

ConfigReturns(i) ==
    /\ jobs[i].step = "configuring"
    /\ SendOrFail(i)
    /\ UNCHANGED <<rules, tick, probes, counts>>

-----------------------------------------------------------------------------
(* The hub dies and starts again: recoverInterrupted, then the first cycle. *)

Disturbed ==
    /\ disturbances < MaxDisturbances
    /\ disturbances' = disturbances + 1
    /\ UNCHANGED restarts

Restart(rows) ==
    /\ restarts < MaxRestarts
    /\ restarts' = restarts + 1
    /\ incidents' = Recovered(rows)
    /\ tick' = "idle"
    /\ probes' = [r \in Rule |-> NoProbe]
    /\ jobs' = [i \in Incident |-> NoJob]
    /\ UNCHANGED <<rules, disturbances>>

\* The cache forgets who was thinking.
Quiet(view) == [s \in Session |-> [view[s] EXCEPT !.thinking = FALSE]]

HubRestarts == Restart(incidents) /\ sessions' = Quiet(sessions)

\* It dies after a message was stored and before that was recorded.
HubRestartsAfterSend(i) ==
    /\ \/ jobs[i].step = "configuring"
       \/ /\ jobs[i].step = "waiting" /\ sessions[InSession(i)].link = "up"
          /\ ~(Reuses(i) /\ Busy(sessions[InSession(i)]))
          /\ MustBeUnchanged(i) => ModeOf(i) = "direct" /\ Unchanged(i)
    /\ Enabled(RuleOf(i))
    /\ sessions[InSession(i)].link # "absent"
    /\ Restart(Counted(i))
    /\ sessions' = Quiet(Prompted(InSession(i), <<PhaseOf(i), i>>))

-----------------------------------------------------------------------------
(* What owners and other systems do. *)

\* A webhook or a manual test, which is a check for an HTTP rule; or an event
\* triggered again that was deferred because an incident was open.
Trigger(r) ==
    /\ Enabled(r)
    /\ rules[r].kind = "http" =>
         \E i \in Incident : RuleOf(i) = r /\ incidents[i].state # "unused"
    /\ incidents' = Opened({r})
    /\ UNCHANGED <<rules, cycle, sessions, counts>>

\* The interval or the schedule comes round, or a manual check is asked for.
BecomesDue(r) ==
    /\ rules[r].kind # "webhook" /\ ~rules[r].due
    /\ rules' = [rules EXCEPT ![r].due = TRUE]
    /\ UNCHANGED <<incidents, cycle, sessions, counts>>

\* The owner confirms the plan on the screen: its hash is compared.  The rule
\* was read before the body of the request, and may have been paused since.
Approve(i) ==
    /\ incidents[i].state = "review"
    /\ incidents' = [incidents EXCEPT ![i].state = "repair_queued", ![i].approved = incidents[i].plan]
    /\ UNCHANGED <<rules, cycle, sessions, counts>>

Close(i) ==
    /\ IsOpen(i)
    /\ incidents' = [incidents EXCEPT ![i].state = "closed"]
    /\ UNCHANGED <<rules, cycle, sessions, counts>>

Edited == Disturbed /\ UNCHANGED <<cycle, sessions>>

\* Pausing and resuming leave the rest of the configuration alone; every
\* change makes the rule due.
Toggle(r) ==
    /\ Edited /\ rules[r].present
    /\ rules' = [rules EXCEPT ![r].enabled = ~@, ![r].due = TRUE]
    /\ UNCHANGED incidents

Edit(r) ==
    /\ Edited /\ rules[r].present
    /\ rules' = [rules EXCEPT ![r].edition = disturbances', ![r].due = TRUE]
    /\ UNCHANGED incidents

\* Deleting a rule deletes its incidents (ON DELETE CASCADE).
Delete(r) ==
    /\ Edited /\ rules[r].present
    /\ rules' = [rules EXCEPT ![r].present = FALSE]
    /\ incidents' = [i \in Incident |->
                       IF RuleOf(i) = r THEN [incidents[i] EXCEPT !.state = "deleted"] ELSE incidents[i]]

-----------------------------------------------------------------------------
(* The sessions. *)

Becomes(s, row) == sessions' = [sessions EXCEPT ![s] = row] /\ UNCHANGED <<table, cycle>>
Hears(row, s) == Becomes(s, row) /\ UNCHANGED counts
Loses(row, s) == Becomes(s, row) /\ Disturbed

OwnerPrompts(s) ==
    /\ sessions[s].link = "up"
    /\ sessions' = Prompted(s, <<"owner">>)
    /\ Disturbed /\ UNCHANGED <<table, cycle>>

\* Keep-alives report whether the process works on a turn.
Works(s) ==
    /\ sessions[s].link = "up" /\ sessions[s].last # <<"nobody">> /\ sessions[s].out = "none"
    /\ Hears([sessions[s] EXCEPT !.thinking = TRUE], s)
Rests(s) ==
    /\ sessions[s].link = "up" /\ sessions[s].thinking
    /\ Hears([sessions[s] EXCEPT !.thinking = FALSE], s)

\* A tool waits for a permission, which outlives the turn, the process and the
\* hub, until somebody answers or the process gives the request up.
Asks(s) ==
    /\ sessions[s].link = "up" /\ sessions[s].last # <<"nobody">> /\ sessions[s].out = "none"
    /\ ~sessions[s].asks
    /\ Loses([sessions[s] EXCEPT !.asks = TRUE], s)
Settles(s) ==
    /\ sessions[s].link = "up" /\ sessions[s].asks
    /\ Hears([sessions[s] EXCEPT !.asks = FALSE], s)

\* A turn ends, or the agent adds another final text without being asked.
Answers(s, out) ==
    /\ sessions[s].link = "up" /\ sessions[s].last # <<"nobody">>
    /\ sessions[s].out = IF out = "revised" THEN "plan" ELSE "none"
    /\ out # "none"
    /\ Hears([sessions[s] EXCEPT !.out = out], s)

Connects(s) == sessions[s].link = "down" /\ Hears([sessions[s] EXCEPT !.link = "up"], s)
Expires(s) ==
    sessions[s].link = "up" /\ Loses([sessions[s] EXCEPT !.link = "down", !.thinking = FALSE], s)
Removed(s) ==
    sessions[s].link = "down" /\ Loses(Absent, s)

\* onSyncEvent: a ready event, a provider's turn outcome or a completed
\* session has the incidents of the session read at once.
Bound(i, s) == Running(i) /\ s \in {incidents[i].session, incidents[i].repair}
HearsReady(s) ==
    /\ sessions[s].link = "up"
    /\ incidents' = [i \in Incident |-> IF Bound(i, s) THEN Reconciled(i, {}) ELSE incidents[i]]
    /\ UNCHANGED <<rules, cycle, sessions, counts>>

\* A session that was stopped, or failed, ends its incidents.
Stops(s) ==
    /\ sessions[s].link = "up"
    /\ sessions' = [sessions EXCEPT ![s].link = "down", ![s].thinking = FALSE]
    /\ incidents' = [i \in Incident |->
                       IF Bound(i, s) THEN [incidents[i] EXCEPT !.state = "needs_attention"] ELSE incidents[i]]
    /\ Disturbed /\ UNCHANGED <<rules, cycle>>

-----------------------------------------------------------------------------
Cycle == TickStart \/ TickDispatch \/ TickEnds \/ \E r \in Rule, ok \in BOOLEAN : ProbeReturns(r, ok)
Dispatch(i) == SpawnReturns(i) \/ SpawnFails(i) \/ WaitFails(i) \/ Proceed(i) \/ ConfigReturns(i)
Owner == \/ \E r \in Rule : Trigger(r) \/ BecomesDue(r) \/ Toggle(r) \/ Edit(r) \/ Delete(r)
         \/ \E i \in Incident : Approve(i) \/ Close(i)
Agent(s) == \/ OwnerPrompts(s) \/ Works(s) \/ Rests(s) \/ HearsReady(s)
            \/ Asks(s) \/ Settles(s)
            \/ Connects(s) \/ Expires(s) \/ Removed(s) \/ Stops(s)
            \/ \E out \in Output : Answers(s, out)

Next ==
    \/ Cycle
    \/ \E i \in Incident : Dispatch(i) \/ HubRestartsAfterSend(i)
    \/ HubRestarts
    \/ Owner
    \/ \E s \in Session : Agent(s)

Spec == Init /\ [][Next]_vars

\* The cycle runs on a timer and each of its steps has a time limit: checks and
\* spawns time out, the wait for a session takes 15 s, a configuration request
\* 30 s.  A process that has ended its turn says so in its keep-alives.
AnyRestsAfterTurn == \E s \in Session : sessions[s].out # "none" /\ Rests(s)
Fairness ==
    /\ WF_vars(Cycle)
    /\ \A i \in Incident : WF_vars(Dispatch(i))
    /\ WF_vars(AnyRestsAfterTurn)
FairSpec == Spec /\ Fairness

-----------------------------------------------------------------------------
(* Properties. *)

\* Work is never repeated: whatever crashes, is closed, paused or put back into
\* the queue, each phase of an incident spawns at most one session and sends
\* at most one message (the comments "Never blindly replay it" in monitors.ts
\* and "no duplicate work is launched" in service.ts).
OneAttempt == \A i \in Incident, p \in Phase :
    incidents[i].spawns[p] <= 1 /\ incidents[i].sends[p] <= 1

\* Two rules bound to one session do not work in it at the same time, from the
\* claim of the investigation to the end of the repair, the owner's review
\* between them included.
SourceExclusive == \A i, j \in Incident :
    (/\ i # j /\ ModeOf(i) = "direct" /\ ModeOf(j) = "direct"
     /\ Target[RuleOf(i)] = Target[RuleOf(j)]
     /\ incidents[i].state \in Engaged)
    => incidents[j].state \notin Engaged

\* A repair carries a plan that its owner approved, and in a bound session it
\* directly follows the answer it was approved from: nobody has prompted the
\* session since, nor has the agent changed its mind.
RepairsFollowPlans == \A i \in Incident :
    LET row == incidents[i] IN
    /\ row.spawns["repair"] + row.sends["repair"] > 0 =>
         row.approved = row.plan /\ row.plan.out \in Reviewable
    /\ (row.sends["repair"] > 0 /\ ModeOf(i) = "direct") =>
         row.found = row.plan /\ row.plan.last = <<"investigate", i>>

\* No message is sent and no incident opened for a rule that is paused or has
\* been deleted, although both may happen during a check or a dispatch.
PausedStaysQuiet == [][\A i \in Incident :
    (incidents'[i].sends # incidents[i].sends \/ (incidents[i].state = "unused" /\ incidents'[i].state = "queued"))
    => Enabled(RuleOf(i))]_vars

\* Nothing hangs in the hub's hands: a dispatch comes to an end, also when the
\* hub dies in the middle of it, and an incident does not keep running once its
\* session shows the final answer to its prompt, unless a request for a
\* permission stays open in that session.
Starting(i) == incidents[i].state \in {"starting", "repair_starting"}
Answered(i) == Running(i) /\ Seen(i).last = Marker(i) /\ Seen(i).out \in Reviewable
UnderWay(i) == Starting(i) \/ Answered(i)
HeldOpen(i) == Answered(i) /\ Seen(i).asks
WorkMovesOn == \A i \in Incident :
    (UnderWay(i) ~> ~UnderWay(i)) \/ <>[]HeldOpen(i)

=============================================================================
