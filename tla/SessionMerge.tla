---------------------------- MODULE SessionMerge ----------------------------
(***************************************************************************)
(* Session records that stand for the same agent thread, and how the hub   *)
(* merges them (sessionCache.ts, deduplicateByAgentSessionId; messages.ts, *)
(* mergeSessionMessages).  A resumed or restarted agent gets a new record, *)
(* learns its thread id later, and then shares it with the older record.   *)
(* While more than one of them is active nothing is merged; otherwise the  *)
(* history of the others moves in front of the history of the one that is  *)
(* active or else was updated last, and their records are deleted.  A      *)
(* request to resume an inactive session spawns a process with a record of *)
(* its own and merges the old record into it when that has become active   *)
(* (syncEngine.ts, resumeSession).                                         *)
(*                                                                         *)
(* Each record has at most one CLI process, which knows the record by id   *)
(* and its messages by id and seq, and is not told of a merge.  Packets    *)
(* and pages are in detail in TurnDelivery; here a turn is read at once    *)
(* when the link is up and by the backfill otherwise, and only acks are    *)
(* under way.  All turns are immediate.                                    *)
(***************************************************************************)
EXTENDS MessageStore

CONSTANTS
    Session,        \* ids of session records, in one namespace
    Nobody,         \* no session
    MaxPosts,       \* bound: POSTs, retries included
    MaxOutput,      \* bound: rows of the agents' output
    MaxDrops        \* bound: lost transports

ASSUME MergeAssumption ==
    /\ Nobody \notin Session /\ IsFiniteSet(Session)
    /\ {MaxPosts, MaxOutput, MaxDrops} \subseteq Nat

VARIABLES
    records,    \* hub: the sessions table
    thread,     \* hub: records whose metadata hold the id of the thread
    active,     \* hub: records with session.active
    newer,      \* hub: <<s, u>> when s has the greater updatedAt
    pass,       \* hub: the merges that the running deduplication has left
    resumes,    \* hub: <<u, s>> while u is being resumed as s
    posts,      \* hub: <<s, t>> while the POST of turn t to s is being prepared
    rows, home, \* hub: the messages table, and the session_id of each row
    proc,       \* CLI: "none", "running", "gone"
    link,       \* CLI: "up", "down"
    owed,       \* CLI: processes with needsBackfill
    cursor, seen,   \* CLI: IncomingMessageFilter
    inbox,      \* CLI: MessageQueue2
    ran,        \* history: rows each process has handed to its agent
    acks,       \* messages-consumed under way or in the send buffer
    spent       \* how much of each bound is used up

hubVars == <<records, thread, active, newer, pass, resumes, posts, rows, home>>
cliVars == <<proc, link, owed, cursor, seen, inbox, ran, acks>>
vars == <<hubVars, cliVars, spent>>

Idle == [target |-> Nobody, rest |-> {}, by |-> "dedup"]
HubIdle == pass = Idle

Spend(b, max) == spent[b] < max /\ spent' = [spent EXCEPT ![b] = @ + 1]

Init ==
    /\ records = {} /\ thread = {} /\ active = {} /\ newer = {}
    /\ pass = Idle /\ resumes = {} /\ posts = {}
    /\ rows = EmptyTable /\ home = [i \in Id |-> Nobody]
    /\ proc = [s \in Session |-> "none"] /\ link = [s \in Session |-> "down"]
    /\ owed = {}
    /\ cursor = [s \in Session |-> 0] /\ seen = [s \in Session |-> {}]
    /\ inbox = [s \in Session |-> {}] /\ ran = [s \in Session |-> {}]
    /\ acks = [s \in Session |-> {}]
    /\ spent = [b \in {"posts", "output", "drops"} |-> 0]

-----------------------------------------------------------------------------
(* The hub's tables.                                                       *)

RowsOf(s) == {i \in Id : home[i] = s}
Table(s) == [i \in Id |-> IF home[i] = s THEN rows[i] ELSE EmptyTable[i]]

\* recordSessionActivity, and the updates that touch updated_at.
Touched(s) == {p \in newer : p[2] # s} \cup ({s} \X (Session \ {s}))

\* addMessage for a row that is not there yet.
InsertRow(s, i, t, role) ==
    /\ IsFresh(rows, i)
    /\ \E n \in {1} \cup {rows[j].seq + 1 : j \in Id} :
           /\ IsNextSeq(Table(s), n)
           /\ rows' = Inserted(rows, i, t, role, n)
    /\ home' = [home EXCEPT ![i] = s]

-----------------------------------------------------------------------------
(* Deduplication.                                                          *)

Youngest(s, S) == s \in S /\ \A u \in S \ {s} : <<s, u>> \in newer

\* Mutants: two live records are merged as well; not even one may be live.
MayMergeLive(S, act) == Cardinality(S) > 1
MayMergeDead(S, act) == Cardinality(S) > 1 /\ Cardinality(S \cap act) < 1

MayMerge(S, act) == Cardinality(S) > 1 /\ Cardinality(S \cap act) <= 1

\* The record that the side bar shows: active, then most recently updated.
Kept(s, S, act) == s \in S /\ (IF S \cap act = {} THEN Youngest(s, S) ELSE s \in act)

\* deduplicateByAgentSessionId, called for the records in S, up to its list of
\* candidates.  Until the list is worked off no other handler of the hub runs.
StartPass(S, act, candidates) ==
    \/ /\ S \cap candidates # {} /\ MayMerge(candidates, act)
       /\ \E s \in candidates : /\ Kept(s, candidates, act)
                                /\ pass' = [target |-> s, rest |-> candidates \ {s}, by |-> "dedup"]
    \/ /\ S \cap candidates = {} \/ ~MayMerge(candidates, act)
       /\ pass' = Idle

\* MAX(seq) of a session, 0 without rows.
IsMaxSeq(s, m) ==
    /\ \A i \in RowsOf(s) : rows[i].seq <= m
    /\ IF RowsOf(s) = {} THEN m = 0 ELSE \E i \in RowsOf(s) : rows[i].seq = m

Collided(from, to) ==
    {t \in Turn : /\ \E i \in RowsOf(from) : rows[i].local = t
                  /\ \E i \in RowsOf(to) : rows[i].local = t}

\* Mutant: the target's rows keep their seqs.
Unshifted(from, to, m) ==
    [i \in Id |-> IF i \in RowsOf(from) /\ rows[i].local \in Collided(from, to)
                  THEN [rows[i] EXCEPT !.local = NoTurn, !.st = "invoked"] ELSE rows[i]]

\* The target's rows move up by the greatest seq of the source; a row of the
\* source whose localId the target has as well loses it and counts as invoked.
Merged(from, to, m) ==
    [i \in Id |-> IF i \in RowsOf(to) THEN [rows[i] EXCEPT !.seq = @ + m]
                  ELSE IF i \in RowsOf(from) /\ rows[i].local \in Collided(from, to)
                  THEN [rows[i] EXCEPT !.local = NoTurn, !.st = "invoked"] ELSE rows[i]]

\* Mutant: an empty target is thought to need nothing.
MovedIfAny(from, to) ==
    [i \in Id |-> IF home[i] = from THEN IF RowsOf(to) = {} THEN Nobody ELSE to ELSE home[i]]
Moved(from, to) == [i \in Id |-> IF home[i] = from THEN to ELSE home[i]]

\* mergeSessionData: the messages move, then the record is deleted; what the
\* record keeps besides its messages is left out.
MergeNext ==
    /\ \E u \in pass.rest :
        /\ Youngest(u, pass.rest)
        /\ \E m \in {0} \cup {rows[i].seq : i \in Id} :
            /\ IsMaxSeq(u, m)
            /\ rows' = Merged(u, pass.target, m)
        /\ home' = Moved(u, pass.target)
        /\ records' = records \ {u} /\ thread' = thread \ {u} /\ active' = active \ {u}
        /\ pass' = IF pass.rest = {u} THEN Idle ELSE [pass EXCEPT !.rest = @ \ {u}]
    /\ UNCHANGED <<newer, resumes, posts, cliVars, spent>>

-----------------------------------------------------------------------------
(* Messages.                                                               *)

Joined(s) == proc[s] = "running" /\ link[s] = "up"

\* handleIncomingMessage: what the filter accepts, if it is a user's turn, is
\* queued for the agent.
Read(s, I) ==
    /\ seen' = [seen EXCEPT ![s] = @ \cup I]
    /\ inbox' = [inbox EXCEPT ![s] = @ \cup {i \in I \ seen[s] : rows'[i].role = "user"}]
    /\ \E c \in {cursor[s]} \cup {rows'[i].seq : i \in I} :
        /\ c >= cursor[s] /\ \A i \in I \ seen[s] : rows'[i].seq <= c
        /\ c # cursor[s] => \E i \in I \ seen[s] : rows'[i].seq = c
        /\ cursor' = [cursor EXCEPT ![s] = c]

\* POST /messages, repeated by the web with the same localId, maybe for another
\* record of the thread.  The route checks that the session is active, then
\* awaits the preparation of skills.
AcceptPost(s, t) ==
    /\ HubIdle /\ s \in active /\ <<s, t>> \notin posts
    /\ Spend("posts", MaxPosts)
    /\ posts' = posts \cup {<<s, t>>}
    /\ UNCHANGED <<records, thread, active, newer, pass, resumes, rows, home, cliVars>>

\* sendMessage; a session that was deleted meanwhile fails the foreign key.
PostTurn(s, t) ==
    /\ HubIdle /\ <<s, t>> \in posts /\ s \in records
    /\ posts' = posts \ {<<s, t>>}
    /\ \E i \in Id :
        /\ \/ /\ i \in Existing(Table(s), t)
              /\ UNCHANGED <<rows, home>>
           \/ /\ Existing(Table(s), t) = {}
              /\ InsertRow(s, i, t, "user")
        /\ \/ Joined(s) /\ Read(s, {i})
           \/ ~Joined(s) /\ UNCHANGED <<seen, inbox, cursor>>
    /\ newer' = Touched(s)
    /\ UNCHANGED <<records, thread, active, pass, resumes, proc, link, owed, ran, acks, spent>>
PostFails(s, t) ==
    /\ HubIdle /\ <<s, t>> \in posts /\ s \notin records
    /\ posts' = posts \ {<<s, t>>}
    /\ UNCHANGED <<records, thread, active, newer, pass, resumes, rows, home, cliVars, spent>>

\* The hub's 'message' handler, for the agent's output; only some of it counts
\* as activity.  The sender does not get its own message back.
PostOutput(s) ==
    /\ HubIdle /\ s \in records /\ Joined(s)
    /\ Spend("output", MaxOutput)
    /\ \E i \in Id : InsertRow(s, i, NoTurn, "agent")
    /\ newer' \in {newer, Touched(s)}
    /\ UNCHANGED <<records, thread, active, pass, resumes, posts, cliVars>>

\* The hub's 'messages-consumed' handler; it refuses a session it does not have.
ReceiveAck(s, t) ==
    /\ HubIdle /\ link[s] = "up" /\ t \in acks[s]
    /\ acks' = [acks EXCEPT ![s] = @ \ {t}]
    /\ IF s \in records
       THEN /\ rows' = [i \in Id |-> IF home[i] = s THEN MarkedInvoked(rows, t)[i] ELSE rows[i]]
            /\ newer' = Touched(s)
       ELSE UNCHANGED <<rows, newer>>
    /\ UNCHANGED <<records, thread, active, pass, resumes, posts, home, proc, link, owed, cursor, seen,
                   inbox, ran, spent>>

-----------------------------------------------------------------------------
(* Sessions.                                                               *)

\* getOrCreateSession for a new process, which then connects.
Starts(s) ==
    /\ HubIdle /\ proc[s] = "none"
    /\ proc' = [proc EXCEPT ![s] = "running"] /\ link' = [link EXCEPT ![s] = "up"]
    /\ records' = records \cup {s}
    /\ newer' = Touched(s)
    /\ UNCHANGED <<thread, active, pass, posts, rows, home, owed, cursor, seen, inbox, ran, acks,
                   spent>>
StartProcess(s) == Starts(s) /\ UNCHANGED resumes

\* resumeSession up to its await: a session with a thread, not active, is
\* spawned again; the process gets a record of its own.
Resume(u, s) ==
    /\ u \in thread \ active
    /\ Starts(s)
    /\ resumes' = resumes \cup {<<u, s>>}

\* Once the new session is active the old record, if it is still there, is
\* merged into it; or the wait of 15 s ends without a merge.
ResumeMerges(u, s) ==
    /\ HubIdle /\ <<u, s>> \in resumes
    /\ resumes' = resumes \ {<<u, s>>}
    /\ \/ /\ s \in active /\ u \in records
          /\ pass' = [target |-> s, rest |-> {u}, by |-> "resume"]
       \/ /\ s \notin active \/ u \notin records
          /\ UNCHANGED pass
    /\ UNCHANGED <<records, thread, active, newer, posts, rows, home, cliVars, spent>>

\* The process writes its thread id into the metadata; as the id is new to the
\* record, handleRealtimeEvent deduplicates.
FindThread(s) ==
    /\ HubIdle /\ Joined(s) /\ s \in records \ thread
    /\ thread' = thread \cup {s}
    /\ newer' = Touched(s)
    /\ StartPass({s}, active, thread')
    /\ UNCHANGED <<records, active, resumes, posts, rows, home, cliVars, spent>>

\* session-alive, every 2 s; each one also triggers a deduplication.
KeepAlive(s) ==
    /\ HubIdle /\ Joined(s) /\ s \in records
    /\ active' = active \cup {s}
    /\ StartPass({s}, active', thread)
    /\ UNCHANGED <<records, thread, newer, resumes, posts, rows, home, cliVars, spent>>

\* Cleanup of a process that reaches the hub: its acks, then session-end.
Quit(s) ==
    /\ HubIdle /\ Joined(s) /\ acks[s] = {}
    /\ proc' = [proc EXCEPT ![s] = "gone"] /\ link' = [link EXCEPT ![s] = "down"]
    /\ IF s \in records
       THEN active' = active \ {s} /\ StartPass({s}, active', thread)
       ELSE UNCHANGED <<active, pass>>
    /\ UNCHANGED <<records, thread, newer, resumes, posts, rows, home, owed, cursor, seen, inbox, ran, acks,
                   spent>>

\* expireInactive: records without a keep-alive for 30 s, in one sweep.
Expire(D) ==
    /\ HubIdle /\ D # {} /\ D \subseteq {s \in active : ~Joined(s)}
    /\ active' = active \ D
    /\ StartPass(D, active', thread)
    /\ UNCHANGED <<records, thread, newer, resumes, posts, rows, home, cliVars, spent>>

-----------------------------------------------------------------------------
(* The CLI processes and their links.                                      *)

\* The launcher takes a turn and acknowledges it by its localId, if it has one.
\* (A row loses its localId only when its record is deleted, which then refuses
\* the ack of the process that read it before.)
TakeTurn(s, i) ==
    /\ proc[s] = "running" /\ i \in inbox[s]
    /\ inbox' = [inbox EXCEPT ![s] = @ \ {i}]
    /\ ran' = [ran EXCEPT ![s] = @ \cup {i}]
    /\ acks' = [acks EXCEPT ![s] = @ \cup ({rows[i].local} \ {NoTurn})]
    /\ UNCHANGED <<hubVars, proc, link, owed, cursor, seen, spent>>

\* A transport is lost; acks under way are lost with it or still in the buffer.
Drop(s) ==
    /\ Joined(s)
    /\ Spend("drops", MaxDrops)
    /\ link' = [link EXCEPT ![s] = "down"]
    /\ UNCHANGED <<hubVars, proc, owed, cursor, seen, inbox, ran, acks>>
Crash(s) ==
    /\ proc[s] = "running"
    /\ proc' = [proc EXCEPT ![s] = "gone"] /\ link' = [link EXCEPT ![s] = "down"]
    /\ acks' = [acks EXCEPT ![s] = {}]
    /\ UNCHANGED <<hubVars, owed, cursor, seen, inbox, ran, spent>>

\* The 'connect' handler, and the backfill that it starts; without a cursor, or
\* without the session, the backfill brings nothing.
Reconnect(s) ==
    /\ proc[s] = "running" /\ link[s] = "down"
    /\ link' = [link EXCEPT ![s] = "up"]
    /\ owed' = owed \cup {s}
    /\ UNCHANGED <<hubVars, proc, cursor, seen, inbox, ran, acks, spent>>
Backfill(s) ==
    /\ HubIdle /\ Joined(s) /\ s \in owed
    /\ owed' = owed \ {s}
    /\ UNCHANGED <<rows, home>>
    /\ IF s \in records /\ cursor[s] > 0
       THEN Read(s, DeliverableAfter(Table(s), Scheduled, cursor[s]))
       ELSE UNCHANGED <<cursor, seen, inbox>>
    /\ UNCHANGED <<records, thread, active, newer, pass, resumes, posts, proc, link, ran, acks, spent>>

-----------------------------------------------------------------------------
Next ==
    \/ MergeNext
    \/ \E s \in Session :
        \/ StartProcess(s) \/ FindThread(s) \/ KeepAlive(s) \/ Quit(s) \/ Crash(s)
        \/ PostOutput(s) \/ Drop(s) \/ Reconnect(s) \/ Backfill(s)
        \/ \E t \in Turn : AcceptPost(s, t) \/ PostTurn(s, t) \/ PostFails(s, t) \/ ReceiveAck(s, t)
        \/ \E i \in Id : TakeTurn(s, i)
        \/ \E u \in Session : Resume(u, s) \/ ResumeMerges(u, s)
    \/ \E D \in SUBSET active : Expire(D)

Spec == Init /\ [][Next]_vars

\* The event loops run, keep-alives are sent, and the sweep runs.
Fairness ==
    /\ WF_vars(MergeNext)
    /\ \A s \in Session : WF_vars(KeepAlive(s)) /\ WF_vars(Expire({s}))

FairSpec == Spec /\ Fairness

-----------------------------------------------------------------------------
(* Properties.                                                             *)

PassType ==
    \/ pass = Idle
    \/ /\ pass = [target |-> pass.target, rest |-> pass.rest, by |-> pass.by]
       /\ pass.target \in records \ pass.rest
       /\ pass.rest \in SUBSET records /\ pass.rest # {}
       /\ pass.by \in {"dedup", "resume"}
RecordType ==
    /\ records \in SUBSET Session /\ thread \in SUBSET records /\ active \in SUBSET records
    /\ newer \in SUBSET (Session \X Session)
    /\ resumes \in SUBSET (Session \X Session) /\ posts \in SUBSET (Session \X Turn)
    /\ PassType
TableType ==
    /\ rows \in [Id -> [st : {"unused", "queued", "invoked"}, seq : Nat,
                        local : Turn \cup {NoTurn}, role : {"user", "agent"}]]
    /\ home \in [Id -> Session \cup {Nobody}]
CliType ==
    /\ proc \in [Session -> {"none", "running", "gone"}]
    /\ link \in [Session -> {"up", "down"}] /\ owed \in SUBSET Session
    /\ cursor \in [Session -> Nat]
    /\ seen \in [Session -> SUBSET Id] /\ inbox \in [Session -> SUBSET Id]
    /\ ran \in [Session -> SUBSET Id] /\ acks \in [Session -> SUBSET Turn]
    /\ spent \in [{"posts", "output", "drops"} -> Nat]

\* Every variable keeps its type; what is left of a pass still has its records.
TypeOK == RecordType /\ TableType /\ CliType

\* No history is lost: a merge leaves no message behind in the record that it
\* deletes, where the foreign key would delete it as well.
EveryRowHasRecord == \A i \in Id : rows[i].st # "unused" => home[i] \in records

\* Two messages of a record never have the same seq, however often histories
\* were joined: pages and cursors by seq see each message once.
SeqsDistinct ==
    \A i, j \in Id : /\ rows[i].st # "unused" /\ rows[j].st # "unused"
                     /\ home[i] = home[j] /\ rows[i].seq = rows[j].seq
                     => i = j

\* A localId is used once per record, or the unique index would abort a merge
\* and leave the duplicates for good.
LocalIdsDistinct ==
    \A i, j \in Id : /\ rows[i].local = rows[j].local /\ rows[i].local # NoTurn
                     /\ home[i] = home[j]
                     => i = j

\* What identifies a message within its record stays unique.
KeysDistinct == SeqsDistinct /\ LocalIdsDistinct

\* A queued message can be acknowledged: it has the localId that acks name.
QueuedCanBeAcked == \A i \in Id : rows[i].st = "queued" => rows[i].local \in Turn

\* "Do not move history between two live session ids": no step takes a message
\* or the record from a session that is active.  The merge of a resume does, so
\* no run checks LiveHistoryStays (see the README).
LiveStays == \A s \in active : s \in records' /\ RowsOf(s) \subseteq RowsOf(s)'
LiveHistoryStays == [][LiveStays]_vars

\* The deduplication keeps to that, whatever comes between its triggers.
DedupSparesLive == [][pass.by = "dedup" => LiveStays]_vars

\* Duplicates do not stay: once every process but one has gone and that one is
\* connected to its record of the thread, the other records are merged into it.
DuplicatesMerge ==
    \A s \in Session :
        <>[](/\ Joined(s) /\ s \in thread
             /\ \A u \in Session \ {s} : ~Joined(u)) => <>[](thread = {s})

\* "Move its already persisted history into the visible dedup target": it moves
\* to be shown, and no backfill hands a turn of it to an agent once more.  The
\* code breaks this as well, since a merge does not tell the target's process.
HistoryIsOnlyShown ==
    [][\A s \in owed \ owed' : \A u \in Session \ {s} :
           (inbox'[s] \ inbox[s]) \cap ran[u] = {}]_vars

=============================================================================
