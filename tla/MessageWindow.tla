---------------------------- MODULE MessageWindow ----------------------------
(***************************************************************************)
(* What a browser shows of one session's messages (web, message-window-    *)
(* store.ts) and how it is kept in step with the hub's table:              *)
(*                                                                         *)
(*   hub table --event streams (sseManager.ts)--> frame queue --> window   *)
(*   hub table --HTTP pages (messageService.ts)----------------> window    *)
(*                                                                         *)
(* The app (App.tsx) asks for a latest page whenever a stream connects and *)
(* when it sees a gap in the sequence numbers; a person scrolls, pages,    *)
(* sends and cancels.  JavaScript runs every callback to completion: an    *)
(* action is one callback of the browser or one handler of the hub.        *)
(*                                                                         *)
(* A position is a stamp: invoked_at once a turn is invoked, created_at    *)
(* before; no two stamps are equal.  A browser that shows another session  *)
(* keeps this window in memory.  Left out: scheduled turns, attachments,   *)
(* rows that are traces of child agents, sessionStorage.                   *)
(***************************************************************************)
EXTENDS Integers, Sequences, FiniteSets

CONSTANTS
    Stream,         \* the open event streams: "session", and "global" for all sessions
    PageSize,       \* rows of a page, 50
    WindowSize,     \* rows kept in the thread, 600
    PendingSize,    \* rows kept while the person reads older ones, 200
    RingSize,       \* events kept for replay, 512
    Close,          \* all stamps are within 10 s of each other
    OldRows,        \* rows of the table when the page is opened
    MaxTurns,       \* bound: user turns
    MaxOutput,      \* bound: rows of agent output, OldRows included
    Mishaps,        \* what may happen besides turns and output
    MaxMishaps      \* bound: how often, all together

ASSUME WindowAssumption ==
    /\ "session" \in Stream /\ Stream \subseteq {"session", "global"}
    /\ {PageSize, WindowSize, PendingSize, RingSize} \subseteq Nat \ {0}
    /\ Close \in BOOLEAN
    /\ {OldRows, MaxTurns, MaxOutput, MaxMishaps} \subseteq Nat /\ OldRows <= MaxOutput
    /\ Mishaps \subseteq {"break", "restart", "failure", "leave", "scroll", "merge"}

VARIABLES
    table, clock,       \* hub: the session's rows, the last stamp given
    log, epoch,         \* hub process: events broadcast since it started, its streamEpoch
    stream,             \* the event streams as the browser uses them
    frame,              \* pendingIncomingMessagesBySession
    w,                  \* the InternalState of the session
    read, strays,       \* the latest-page read in flight; reads a wipe made void
    forced,             \* pendingForcedLatestRefreshes holds a refresh
    reconciling,        \* sessionReconcileInFlightRef has the session, and the reads
                        \* whose end takes it out
    page,               \* the older or newer page in flight
    tasks,              \* pendingBackgroundWork
    selected,           \* this session is on the screen
    posts, cancels,     \* useSendMessage and useCancelQueuedMessage, by turn
    owed,               \* history: the last refresh asked for came to nothing
    used                \* how many mishaps there have been

hubVars == <<table, clock, log, epoch>>
readVars == <<read, strays, forced, reconciling, owed>>
userVars == <<selected, posts, cancels>>
vars == <<hubVars, stream, frame, w, readVars, page, tasks, userVars, used>>

\* bound: at most MaxMishaps things of the kinds in Mishaps happen.
Mishap(kind) == kind \in Mishaps /\ used < MaxMishaps /\ used' = used + 1

None == -1
Turn == 1..MaxTurns

\* A turn's row has the turn for id, its optimistic copy the negated turn; agent
\* rows follow, and the row a merge brings in is the last.  A row has its seq (0
\* if the hub has not stored it), whether it is invoked, its stamp, and whether the
\* browser knows the turn as sent.
NewRow(id, seq, inv, at) == [id |-> id, seq |-> seq, inv |-> inv, at |-> at, sent |-> FALSE]
NoRow == NewRow(MaxTurns + MaxOutput + 1, 0, FALSE, 0)

Local(r) == IF r.id < 0 THEN -r.id ELSE IF r.id \in Turn THEN r.id ELSE 0
IsOptimistic(r) == r.id < 0
IsUser(r) == Local(r) # 0
IsQueued(r) == IsUser(r) /\ ~r.inv
Ids(R) == {r.id : r \in R}
Seqs(R) == {r.seq : r \in R} \ {0}
Stamps(R) == {r.at : r \in {q \in R : q.seq # 0}}
Lowest(S) == IF S = {} THEN None ELSE CHOOSE n \in S : \A m \in S : n <= m
Highest(S) == IF S = {} THEN None ELSE CHOOSE n \in S : \A m \in S : n >= m

\* The display order, and the ends of a set of rows in it.
After(q, r) == q.at > r.at \/ (q.at = r.at /\ q.id > r.id)
Newest(R, n) == {r \in R : Cardinality({q \in R : After(q, r)}) < n}
Oldest(R, n) == {r \in R : Cardinality({q \in R : After(r, q)}) < n}

\* The thread, the rows kept back, whether rows were kept back beyond these,
\* whether there are older and newer rows to page, the stamps to page from,
\* and the last seq up to which none is missing.
FreshWindow == [msgs |-> {}, pending |-> {}, spilled |-> FALSE, hasMore |-> FALSE,
                hasNewer |-> FALSE, oldest |-> None, newest |-> None,
                atBottom |-> TRUE, frontier |-> None]

NoRead == [phase |-> "idle", snap |-> {}, more |-> FALSE, eligible |-> {}]
NoStrays == [waited |-> 0, other |-> 0]
NoPage == [kind |-> "none", served |-> FALSE, from |-> None, snap |-> {}, more |-> FALSE]
ClosedStream == [up |-> FALSE, done |-> 0, cursor |-> None, epoch |-> None]

-----------------------------------------------------------------------------
(* Merging rows (lib/messages.ts). *)

\* Mutant: the copy that arrives last counts.
LastCopy(old, new) == new

\* A copy that is still queued does not undo an invocation already seen.
Newer(old, new) == IF old.inv /\ ~new.inv THEN [new EXCEPT !.inv = TRUE, !.at = old.at] ELSE new
ById(E, I) == {e \in E : e.id \notin Ids(I)}
              \cup {LET same == {e \in E : e.id = i.id} IN
                    IF same = {} THEN i ELSE Newer(CHOOSE e \in same : TRUE, i) : i \in I}

\* Stored rows replace the optimistic copy of their turn and take over what it
\* knew; a copy whose POST was answered also goes when the thread has any
\* stored turn close to it in time.
Adopt(r, o) == LET s == [r EXCEPT !.sent = r.sent \/ o.sent] IN
               IF o.inv /\ ~r.inv THEN [s EXCEPT !.inv = TRUE, !.at = o.at] ELSE s
Settle(R, stored) ==
    LET gone == {r \in R : IsOptimistic(r) /\ Local(r) \in stored}
        kept == {IF \E o \in gone : Local(o) = Local(r)
                 THEN Adopt(r, CHOOSE o \in gone : Local(o) = Local(r))
                 ELSE r : r \in R \ gone}
    IN {r \in kept : IsOptimistic(r) /\ r.sent /\ Close =>
                        ~\E q \in kept : IsUser(q) /\ ~IsOptimistic(q)}
StoredLocals(I) == {Local(i) : i \in {r \in I : IsUser(r) /\ ~IsOptimistic(r)}}

\* Mutant: rows are matched by id only.
MergeById(E, I) == ById(E, I)
MergeRows(E, I) == IF I = {} THEN E ELSE Settle(ById(E, I), StoredLocals(I))

(* The window (message-window-store.ts). *)

\* advanceSequenceFrontier, which buildState calls with the window's rows.
Advance(f, R) ==
    LET start == IF f = None THEN Lowest(Seqs(R)) ELSE f IN
    IF start = None THEN None
    ELSE Highest({n \in start..(start + Cardinality(R)) : (start + 1)..n \subseteq Seqs(R)})
Build(v) == [v EXCEPT !.frontier = Advance(v.frontier, v.msgs \cup v.pending)]

\* trimVisible with cursorUpdatesAfterAppendTrim: the thread reaches the newest
\* row again, and gives up old ones.
AppendTrim(v, merged) ==
    LET kept == Newest(merged, WindowSize)
        dropped == merged # kept
    IN [v EXCEPT !.msgs = kept,
                 !.hasNewer = FALSE, !.newest = Highest(Stamps(kept)),
                 !.hasMore = v.hasMore \/ dropped,
                 !.oldest = IF dropped /\ Stamps(kept) # {} THEN Lowest(Stamps(kept)) ELSE v.oldest]
Append2(v, rows) ==
    LET u == AppendTrim(v, MergeRows(v.msgs, rows)) IN
    Build([u EXCEPT !.pending = {r \in v.pending : r.id \notin Ids(u.msgs)}])

IntoPending(v, rows) ==
    IF rows = {} THEN v
    ELSE LET all == {r \in MergeRows(v.pending, rows) : r.id \notin Ids(v.msgs)}
             kept == Newest(all, PendingSize)
         IN Build([v EXCEPT !.pending = kept, !.spilled = v.spilled \/ all # kept])

\* ingestIncomingMessagesNow.
Ingest(v, rows) ==
    LET shown == {r \in rows : \/ r.id \in Ids(v.msgs)
                               \/ IsUser(r) /\ Local(r) \in {Local(m) : m \in v.msgs}}
        turns == {r \in rows : IsUser(r)}
        output == rows \ turns
    IN IF v.hasNewer \/ (~v.atBottom /\ Cardinality(v.msgs) + Cardinality(rows \ shown) > WindowSize)
       THEN IntoPending(Build([v EXCEPT !.msgs = MergeRows(v.msgs, shown)]), rows \ shown)
       ELSE IF v.atBottom THEN Append2(v, rows)
       ELSE IntoPending(IF output = {} THEN v ELSE Append2(v, output), turns)

\* Of several copies in the frame queue the last one counts.
FrameRows == {frame[i] : i \in {j \in 1..Len(frame) : \A k \in (j + 1)..Len(frame) : frame[k].id # frame[j].id}}
Flushed == IF frame = <<>> THEN w ELSE Ingest(w, FrameRows)

\* markMessagesConsumed: a row that waited in pending joins the thread.
Consumed(v, k, at) ==
    LET acked(r) == Local(r) = k
        upd(R) == {IF acked(r) THEN [r EXCEPT !.sent = TRUE, !.inv = TRUE, !.at = IF r.inv THEN r.at ELSE at]
                   ELSE r : r \in R}
        moved == {r \in upd(v.pending) : acked(r) /\ r.at = at}
    IN IF \A r \in v.msgs \cup v.pending : acked(r) => r.inv /\ r.sent THEN v
       ELSE Build(AppendTrim([v EXCEPT !.pending = MergeRows({}, upd(v.pending) \ moved)],
                             MergeRows(upd(v.msgs), moved)))

Without(v, ids) == Build([v EXCEPT !.msgs = {r \in v.msgs : r.id \notin ids},
                                   !.pending = {r \in v.pending : r.id \notin ids}])
\* appendOptimisticMessage.
AppendOptimistic(v, r) ==
    [(IF v.hasNewer THEN IntoPending(v, {r}) ELSE Append2(v, {r})) EXCEPT !.atBottom = TRUE]

\* flushPendingMessages, and whether it asks for a refresh.
FlushPending(v) ==
    IF v.hasNewer \/ (v.pending = {} /\ ~v.spilled) THEN v
    ELSE Build([AppendTrim(v, MergeRows(v.msgs, v.pending)) EXCEPT !.pending = {}, !.spilled = FALSE])
NeedsRefresh(v) == v.spilled \/ (v.hasNewer /\ v.pending # {})

-----------------------------------------------------------------------------
(* Latest pages. *)

\* fetchLatestMessages from a window v whose frame queue is flushed: any page
\* in flight is void from here on.
BeginRead(v) ==
    /\ read' = [NoRead EXCEPT !.phase = "asked",
                    !.eligible = Ids({r \in v.msgs \cup v.pending : IsQueued(r) /\ ~IsOptimistic(r)})]
    /\ page' = NoPage /\ owed' = FALSE

ReadUnlessReading(v) ==
    IF read.phase = "idle" THEN BeginRead(v) ELSE owed' = TRUE /\ UNCHANGED <<read, page>>

\* Its finally clause: a refresh queued in the meantime runs now.
EndRead(v, lost) ==
    /\ reconciling' = [on |-> reconciling.on /\ "read" \notin reconciling.by,
                       by |-> IF "forced" \in reconciling.by THEN {"read"} ELSE {}]
    /\ IF forced
       THEN /\ w' = (IF frame = <<>> THEN v ELSE Ingest(v, FrameRows)) /\ frame' = <<>>
            /\ BeginRead(w') /\ forced' = FALSE
       ELSE /\ w' = v /\ read' = NoRead /\ owed' = (owed \/ lost)
            /\ UNCHANGED <<frame, forced, page>>

\* getMessagesPage without a cursor pins every queued turn to the page.
ServeRead ==
    /\ read.phase = "asked"
    /\ LET rows == Newest(table, PageSize) IN
       read' = [read EXCEPT !.phase = "served",
                            !.snap = rows \cup {r \in table : IsQueued(r)},
                            !.more = table # rows]
    /\ UNCHANGED <<hubVars, stream, frame, w, strays, forced, reconciling, owed, page, tasks,
                   userVars, used>>

\* reconcileQueuedAgainstLatest.
DropGhosts(R, snap, eligible) ==
    {r \in R : IsQueued(r) /\ ~IsOptimistic(r) /\ r.id \in eligible => r.id \in Ids(snap)}

ApplyLatest(v) ==
    LET base == IF v.hasNewer THEN {} ELSE v.msgs
        incoming == v.pending \cup read.snap
        merged == IF incoming = {} THEN base
                  ELSE Settle(ById(ById(base, v.pending), read.snap), StoredLocals(incoming))
        kept == Newest(DropGhosts(merged, read.snap, read.eligible), WindowSize)
        top == Highest(Seqs(read.snap))
        based == [v EXCEPT !.frontier = IF top = None THEN v.frontier ELSE top]
    IN IF v.atBottom
       THEN Build([based EXCEPT !.msgs = kept, !.pending = {}, !.spilled = FALSE,
                       !.hasMore = read.more, !.hasNewer = FALSE,
                       !.oldest = IF Stamps(kept) = {} THEN Lowest(Stamps(read.snap))
                                  ELSE Lowest(Stamps(kept)),
                       !.newest = Highest(Stamps(kept))])
       ELSE Build([IntoPending(v, read.snap) EXCEPT !.frontier = based.frontier])

LandRead ==
    /\ read.phase = "served"
    /\ EndRead(ApplyLatest(w), FALSE)
    /\ UNCHANGED <<hubVars, stream, strays, tasks, userVars, used>>

\* Nobody asks again for a read that failed.
FailRead ==
    /\ \/ read.phase = "lost" /\ UNCHANGED used
       \/ /\ read.phase \in {"asked", "served"} /\ Mishap("failure")
    /\ EndRead(w, TRUE)
    /\ UNCHANGED <<hubVars, stream, strays, tasks, userVars>>

\* The answer to a read that a wipe made void: only its finally clause acts, and
\* it finds a refresh that was queued behind a newer read and loses it.
StrayLands ==
    /\ \E kind \in {"waited", "other"} :
          /\ strays[kind] > 0 /\ strays' = [strays EXCEPT ![kind] = @ - 1]
          /\ reconciling' = [on |-> /\ reconciling.on /\ kind # "waited"
                                   /\ ~(forced /\ "forced" \in reconciling.by),
                             by |-> reconciling.by \ {"forced"}]
    /\ IF forced THEN forced' = FALSE /\ owed' = TRUE /\ w' = Flushed /\ frame' = <<>>
       ELSE UNCHANGED <<forced, owed, w, frame>>
    /\ UNCHANGED <<hubVars, stream, read, page, tasks, userVars, used>>

-----------------------------------------------------------------------------
(* The app's background work. *)

\* Refreshes that run one after the other in one flush are one refresh.
AddRefresh(q) == IF q # <<>> /\ q[Len(q)] = "refresh" THEN q ELSE Append(q, "refresh")

\* reconcileSelectedSessionMessages.
Refresh ==
    /\ Head(tasks) = "refresh"
    /\ IF reconciling.on
       THEN /\ owed' = (owed \/ "forced" \notin reconciling.by)
            /\ UNCHANGED <<frame, w, read, forced, reconciling, page>>
       ELSE /\ w' = Flushed /\ frame' = <<>>
            /\ IF read.phase # "idle"
               THEN /\ forced' = TRUE
                    /\ reconciling' = [on |-> TRUE, by |-> reconciling.by \cup {"forced"}]
                    /\ UNCHANGED <<read, page, owed>>
               ELSE /\ BeginRead(w') /\ reconciling' = [on |-> TRUE, by |-> {"read"}]
                    /\ UNCHANGED forced
    /\ UNCHANGED strays

\* messages-invalidated: clearMessageWindow, then a refresh of its own, which is
\* not made while an earlier one has not come back.
Wipe ==
    /\ Head(tasks) = "wipe"
    /\ w' = FreshWindow /\ frame' = <<>> /\ forced' = FALSE
    /\ LET kind == IF "read" \in reconciling.by THEN "waited" ELSE "other" IN
       strays' = IF read.phase = "idle" THEN strays ELSE [strays EXCEPT ![kind] = @ + 1]
    /\ IF reconciling.on
       THEN /\ read' = NoRead /\ page' = NoPage /\ owed' = TRUE
            /\ reconciling' = [on |-> "forced" \notin reconciling.by, by |-> {}]
       ELSE BeginRead(w') /\ reconciling' = [on |-> TRUE, by |-> {"read"}]

RunTask ==
    /\ tasks # <<>> /\ tasks' = Tail(tasks)
    /\ Refresh \/ Wipe
    /\ UNCHANGED <<hubVars, stream, userVars, used>>

\* While the stream of the session is down, the newest sequence number is polled.
Probe ==
    /\ selected /\ ~stream["session"].up /\ read.phase = "idle"
    /\ LET latest == Highest(Seqs(Newest(table, 1) \cup {r \in table : IsQueued(r)}))
           known == Advance(w.frontier, w.msgs \cup w.pending \cup FrameRows)
       IN latest # None /\ latest > known
    /\ tasks' = AddRefresh(tasks) /\ tasks' # tasks
    /\ UNCHANGED <<hubVars, stream, frame, w, readVars, page, userVars, used>>

-----------------------------------------------------------------------------
(* The event streams. *)

\* Mutant: the app relies on the replay.
NoRefresh == tasks

\* handleSseConnect and handleSessionSseConnect: the app refreshes.
RefreshOnConnect == IF selected THEN AddRefresh(tasks) ELSE tasks

\* subscribe and replay: what the ring still holds after the browser's cursor,
\* all of it when the cursor is of another hub process, nothing without one.
Connect(s) ==
    LET st == stream[s]
        other == st.epoch # epoch
        held == IF Len(log) > RingSize THEN Len(log) - RingSize ELSE 0
        from == IF st.cursor = None THEN Len(log)
                ELSE Highest({held, IF other THEN 0 ELSE st.cursor})
    IN /\ ~st.up /\ (s = "session" => selected)
       /\ stream' = [stream EXCEPT ![s] =
             [up |-> TRUE, done |-> from, epoch |-> epoch,
              cursor |-> IF other /\ st.epoch # None THEN 0 ELSE st.cursor]]
       /\ tasks' = RefreshOnConnect
       /\ UNCHANGED <<hubVars, frame, w, readVars, page, userVars, used>>

\* Events the browser has received are handled before it reconnects, so events
\* not yet handled are those still under way: they are lost with the stream.
Break(s) ==
    /\ stream[s].up /\ Mishap("break")
    /\ stream' = [stream EXCEPT ![s].up = FALSE, ![s].done = 0]
    /\ UNCHANGED <<hubVars, frame, w, readVars, page, tasks, userVars>>

\* A row goes to the frame queue, and to a refresh if its number is not the next
\* (reconcileOnMessageGap).
Receive(r) ==
    LET queue == Append(frame, r)
        known == Advance(w.frontier, w.msgs \cup w.pending \cup FrameRows \cup {r})
    IN /\ frame' = queue /\ w' = w
       /\ tasks' = IF selected /\ known # None /\ r.seq > known + 1 THEN AddRefresh(tasks) ELSE tasks

\* The session's own stream feeds the window; the global one stands in for it
\* while it is down, and reports what became of turns at any time.
Handle(s) ==
    LET st == stream[s]
        e == log[st.done + 1]
    IN /\ st.up /\ st.done < Len(log)
       /\ stream' = [stream EXCEPT ![s].done = @ + 1, ![s].cursor = st.done + 1]
       /\ CASE e.type = "received" ->
                 IF s = "session" \/ (selected /\ ~stream["session"].up) THEN Receive(e.row)
                 ELSE UNCHANGED <<frame, w, tasks>>
            [] e.type = "consumed" ->
                 w' = Consumed(Flushed, Local(e.row), e.row.at) /\ frame' = <<>> /\ UNCHANGED tasks
            [] e.type = "cancelled" ->
                 w' = Without(Flushed, {e.row.id}) /\ frame' = <<>> /\ UNCHANGED tasks
            [] e.type = "invalidated" ->
                 /\ tasks' = IF selected THEN Append(tasks, "wipe") ELSE tasks
                 /\ UNCHANGED <<frame, w>>
       /\ UNCHANGED <<hubVars, readVars, page, userVars, used>>

FlushFrame ==
    /\ frame # <<>> /\ w' = Flushed /\ frame' = <<>>
    /\ UNCHANGED <<hubVars, stream, readVars, page, tasks, userVars, used>>

-----------------------------------------------------------------------------
(* Older and newer pages. *)

AskPage(kind) ==
    LET v == Flushed
        from == IF kind = "older" THEN v.oldest ELSE v.newest
    IN /\ selected /\ read.phase = "idle" /\ page.kind = "none" /\ from # None
       /\ kind = "older" => v.hasMore
       /\ kind = "newer" => v.hasNewer
       /\ w' = v /\ frame' = <<>>
       /\ page' = [NoPage EXCEPT !.kind = kind, !.from = from]
       /\ UNCHANGED <<hubVars, stream, readVars, tasks, userVars, used>>

ServePage ==
    /\ page.kind # "none" /\ ~page.served
    /\ LET beyond == {r \in table : IF page.kind = "older" THEN r.at < page.from ELSE r.at > page.from}
           rows == IF page.kind = "older" THEN Newest(beyond, PageSize) ELSE Oldest(beyond, PageSize)
       IN page' = [page EXCEPT !.served = TRUE, !.snap = rows, !.more = beyond # rows]
    /\ UNCHANGED <<hubVars, stream, frame, w, readVars, tasks, userVars, used>>

\* Mutant: the thread does not notice that it gave up its newest rows.
OlderLandedUnaware(v) ==
    LET merged == MergeRows(page.snap, v.msgs)
        kept == Oldest(merged, WindowSize)
    IN Build([v EXCEPT !.msgs = kept, !.hasMore = page.more, !.oldest = Lowest(Stamps(page.snap)),
                       !.newest = IF Stamps(kept) = {} THEN v.newest ELSE Highest(Stamps(kept))])

\* A full thread gives up its newest rows for older ones; queued turns among
\* them are meant to move to pending.
OlderLanded(v) ==
    LET merged == MergeRows(page.snap, v.msgs)
        kept == Oldest(merged, WindowSize)
        dropped == merged \ kept
        u == IntoPending(v, {r \in dropped : IsQueued(r)})
    IN Build([u EXCEPT !.msgs = kept, !.hasMore = page.more, !.oldest = Lowest(Stamps(page.snap)),
                       !.hasNewer = v.hasNewer \/ dropped # {},
                       !.newest = IF Stamps(kept) = {} THEN v.newest ELSE Highest(Stamps(kept)),
                       !.atBottom = v.atBottom /\ dropped = {}])

NewerLanded(v) ==
    LET kept == Newest(MergeRows(v.msgs, page.snap), WindowSize)
        last == Highest(Stamps(IF page.snap = {} THEN kept ELSE page.snap))
    IN Build([v EXCEPT !.msgs = kept, !.hasMore = v.hasMore \/ kept # MergeRows(v.msgs, page.snap),
                       !.oldest = IF Stamps(kept) = {} THEN v.oldest ELSE Lowest(Stamps(kept)),
                       !.hasNewer = page.more,
                       !.newest = IF last = None THEN v.newest ELSE last])

LandPage ==
    /\ page.served /\ page' = NoPage
    /\ w' = IF page.kind = "older" THEN OlderLanded(w) ELSE NewerLanded(w)
    /\ UNCHANGED <<hubVars, stream, frame, readVars, tasks, userVars, used>>

FailPage ==
    /\ page.kind # "none" /\ Mishap("failure")
    /\ page' = NoPage
    /\ UNCHANGED <<hubVars, stream, frame, w, readVars, tasks, userVars>>

-----------------------------------------------------------------------------
(* The person. *)

ScrollAway ==
    /\ selected /\ w.atBottom /\ w.msgs # {} /\ Mishap("scroll")
    /\ w' = [Flushed EXCEPT !.atBottom = FALSE] /\ frame' = <<>>
    /\ UNCHANGED <<hubVars, stream, readVars, page, tasks, userVars>>

\* scrollToBottom: the rows kept back join the thread, and what was kept back
\* beyond that is read again, unless a read is in flight.
ToBottom ==
    LET v == [Flushed EXCEPT !.atBottom = TRUE] IN
    /\ selected
    /\ ~w.atBottom \/ w.pending # {} \/ w.spilled
    /\ w' = FlushPending(v) /\ frame' = <<>>
    /\ IF NeedsRefresh(v) THEN ReadUnlessReading(w') ELSE UNCHANGED <<read, page, owed>>
    /\ UNCHANGED <<hubVars, stream, strays, forced, reconciling, tasks, userVars, used>>

\* useSendMessage: one POST at a time.
Send(k) ==
    /\ selected /\ posts[k] = "unused" /\ \A j \in Turn : posts[j] \in {"unused", "done"}
    /\ clock' = clock + 1
    /\ w' = AppendOptimistic(Flushed, NewRow(-k, 0, FALSE, clock + 1)) /\ frame' = <<>>
    /\ posts' = [posts EXCEPT ![k] = "posting"]
    /\ UNCHANGED <<table, log, epoch, stream, readVars, page, tasks, selected, cancels, used>>

\* onSuccess: sent, or queued when the agent was thinking at the time.
Answer(k) ==
    /\ posts[k] = "stored"
    /\ \E sent \in BOOLEAN :
          LET mark(R) == {IF Local(r) = k THEN [r EXCEPT !.sent = sent] ELSE r : r \in R} IN
          w' = Build([Flushed EXCEPT !.msgs = mark(@), !.pending = mark(@)])
    /\ frame' = <<>>
    /\ posts' = [posts EXCEPT ![k] = "done"]
    /\ UNCHANGED <<hubVars, stream, readVars, page, tasks, selected, cancels, used>>

\* onError takes the turn out of the thread, its stored copy too.
FailPost(k) ==
    /\ \/ posts[k] = "lost" /\ UNCHANGED used
       \/ /\ posts[k] \in {"posting", "stored"} /\ Mishap("failure")
    /\ posts' = [posts EXCEPT ![k] = "done"]
    /\ w' = Without(Flushed, {k, -k}) /\ frame' = <<>>
    /\ owed' = (owed \/ k \in Ids(table))
    /\ UNCHANGED <<hubVars, stream, read, strays, forced, reconciling, page, tasks, selected, cancels>>

\* useCancelQueuedMessage: a turn the hub has confirmed leaves the thread at once.
CancelClick(k) ==
    /\ selected /\ cancels[k].phase = "none"
    /\ \E r \in w.msgs \cup w.pending :
          /\ r.id = k /\ IsQueued(r)
          /\ cancels' = [cancels EXCEPT ![k] = [phase |-> "asked", row |-> r]]
    /\ w' = Without(Flushed, {k, -k}) /\ frame' = <<>>
    /\ UNCHANGED <<hubVars, stream, readVars, page, tasks, selected, posts, used>>

Over == [phase |-> "done", row |-> NoRow]

\* The hub's answer, with the row if the turn was invoked after all.
CancelAnswer(k) ==
    /\ cancels[k].phase \in {"cancelled", "invoked"}
    /\ cancels' = [cancels EXCEPT ![k] = Over]
    /\ IF cancels[k].phase = "invoked"
       THEN w' = AppendOptimistic(Flushed, [cancels[k].row EXCEPT !.sent = TRUE]) /\ frame' = <<>>
       ELSE UNCHANGED <<w, frame>>
    /\ UNCHANGED <<hubVars, stream, readVars, page, tasks, selected, posts, used>>

\* No answer: the row comes back as it was when the person clicked.
CancelFails(k) ==
    /\ \/ cancels[k].phase = "lost" /\ UNCHANGED used
       \/ /\ cancels[k].phase = "asked" /\ Mishap("failure")
    /\ cancels' = [cancels EXCEPT ![k] = Over]
    /\ w' = AppendOptimistic(Flushed, cancels[k].row) /\ frame' = <<>>
    /\ UNCHANGED <<hubVars, stream, readVars, page, tasks, selected, posts>>

Leave ==
    /\ selected /\ selected' = FALSE /\ Mishap("leave")
    /\ stream' = [stream EXCEPT !["session"] = ClosedStream]
    /\ UNCHANGED <<hubVars, frame, w, readVars, page, tasks, posts, cancels>>

\* HappyThread starts at the end, useMessages reads a latest page unless one is
\* in flight, App forgets that a refresh is.
Return ==
    /\ ~selected /\ selected' = TRUE
    /\ w' = [Flushed EXCEPT !.atBottom = TRUE] /\ frame' = <<>>
    /\ reconciling' = [reconciling EXCEPT !.on = FALSE]
    /\ ReadUnlessReading(w')
    /\ UNCHANGED <<hubVars, stream, strays, forced, tasks, posts, cancels, used>>

-----------------------------------------------------------------------------
(* The hub. *)

LastSeq == Highest({0} \cup {r.seq : r \in table})
Tell(type, r) == log' = Append(log, [type |-> type, row |-> r])

\* sendMessage and the socket's message handler: the row, then the event.
Insert(id, inv) ==
    LET r == NewRow(id, LastSeq + 1, inv, clock + 1) IN
    /\ table' = table \cup {r} /\ clock' = clock + 1 /\ Tell("received", r)
    /\ UNCHANGED <<epoch, stream, frame, w, readVars, page, tasks, selected, cancels, used>>

Store(k) ==
    /\ posts[k] = "posting" /\ posts' = [posts EXCEPT ![k] = "stored"]
    /\ Insert(k, FALSE)

\* A turn sent from somewhere else.
StoreElsewhere(k) ==
    /\ posts[k] = "unused" /\ posts' = [posts EXCEPT ![k] = "done"]
    /\ Insert(k, FALSE)

Output ==
    LET n == MaxTurns + Cardinality(Ids(table) \cap (MaxTurns + 1)..(MaxTurns + MaxOutput)) + 1 IN
    /\ n <= MaxTurns + MaxOutput
    /\ Insert(n, TRUE) /\ UNCHANGED posts

\* messages-consumed, when the CLI takes a turn.
Invoke(k, r) ==
    LET invoked == [r EXCEPT !.inv = TRUE, !.at = clock + 1] IN
    /\ table' = (table \ {r}) \cup {invoked} /\ clock' = clock + 1
    /\ Tell("consumed", invoked)

Consume(k) ==
    /\ \E r \in table : r.id = k /\ IsQueued(r) /\ Invoke(k, r)
    /\ UNCHANGED <<epoch, stream, frame, w, readVars, page, tasks, userVars, used>>

\* cancelQueuedMessage: the row goes if the CLI gives the turn up or is away; a
\* turn the CLI no longer holds counts as invoked; without an answer it stays.
\* This browser alone cancels, each turn once, so the row is there.
CancelServed(k) ==
    LET settle(phase, row) == cancels' = [cancels EXCEPT ![k] = [phase |-> phase, row |-> row]] IN
    /\ cancels[k].phase = "asked"
    /\ \E r \in {q \in table : q.id = k} :
          \/ /\ r.inv /\ settle("invoked", r)
             /\ UNCHANGED hubVars
          \/ /\ ~r.inv /\ settle("cancelled", cancels[k].row)
             /\ table' = table \ {r} /\ Tell("cancelled", r)
             /\ UNCHANGED <<clock, epoch>>
          \/ /\ ~r.inv /\ settle("invoked", [r EXCEPT !.inv = TRUE, !.at = clock + 1])
             /\ Invoke(k, r)
             /\ UNCHANGED epoch
    /\ UNCHANGED <<stream, frame, w, readVars, page, tasks, selected, posts, used>>

\* mergeSessionMessages: the rows of another session come first.
MoveIn ==
    LET old == [NoRow EXCEPT !.seq = 1, !.inv = TRUE] IN
    /\ Mishap("merge") /\ NoRow.id \notin Ids(table)
    /\ table' = {[r EXCEPT !.seq = @ + 1] : r \in table} \cup {old}
    /\ Tell("invalidated", old)
    /\ UNCHANGED <<clock, epoch, stream, frame, w, readVars, page, tasks, userVars>>

\* The table survives; streams, events and requests in flight do not.
HubRestart ==
    /\ Mishap("restart")
    /\ epoch' = epoch + 1 /\ log' = <<>>
    /\ stream' = [s \in Stream |-> [stream[s] EXCEPT !.up = FALSE, !.done = 0]]
    /\ read' = IF read.phase = "idle" THEN read ELSE [read EXCEPT !.phase = "lost"]
    /\ page' = NoPage
    /\ posts' = [k \in Turn |-> IF posts[k] \in {"posting", "stored"} THEN "lost" ELSE posts[k]]
    /\ cancels' = [k \in Turn |-> IF cancels[k].phase \in {"none", "done"} THEN cancels[k]
                                  ELSE [cancels[k] EXCEPT !.phase = "lost"]]
    /\ UNCHANGED <<table, clock, frame, w, strays, forced, reconciling, owed, tasks, selected>>

-----------------------------------------------------------------------------
\* A page is opened on a session that has some rows.
Init ==
    /\ table = {NewRow(MaxTurns + n, n, TRUE, n) : n \in 1..OldRows}
    /\ clock = OldRows /\ log = <<>> /\ epoch = 0
    /\ stream = [s \in Stream |-> ClosedStream]
    /\ frame = <<>> /\ w = FreshWindow
    /\ read = [NoRead EXCEPT !.phase = "asked"] /\ strays = NoStrays
    /\ forced = FALSE /\ reconciling = [on |-> FALSE, by |-> {}]
    /\ page = NoPage /\ tasks = <<>> /\ selected = TRUE /\ owed = FALSE
    /\ posts = [k \in Turn |-> "unused"]
    /\ cancels = [k \in Turn |-> [phase |-> "none", row |-> NoRow]]
    /\ used = 0

Next ==
    \/ ServeRead \/ LandRead \/ FailRead \/ StrayLands
    \/ RunTask \/ Probe \/ FlushFrame
    \/ \E s \in Stream : Connect(s) \/ Break(s) \/ Handle(s)
    \/ \E kind \in {"older", "newer"} : AskPage(kind)
    \/ ServePage \/ LandPage \/ FailPage
    \/ ScrollAway \/ ToBottom \/ Leave \/ Return
    \/ \E k \in Turn : Send(k) \/ Answer(k) \/ FailPost(k)
                       \/ CancelClick(k) \/ CancelAnswer(k) \/ CancelFails(k)
    \/ \E k \in Turn : Store(k) \/ StoreElsewhere(k) \/ Consume(k) \/ CancelServed(k)
    \/ Output \/ MoveIn \/ HubRestart

Spec == Init /\ [][Next]_vars

-----------------------------------------------------------------------------
\* Both streams are up, and nothing is in flight.
Quiet ==
    /\ selected /\ \A s \in Stream : stream[s].up /\ stream[s].done = Len(log)
    /\ frame = <<>> /\ tasks = <<>> /\ read.phase = "idle" /\ strays = NoStrays
    /\ page.kind = "none"
    /\ \A k \in Turn : posts[k] \in {"unused", "done"} /\ cancels[k].phase \in {"none", "done"}

\* A row is on the screen, kept back, or past an end of the thread that pages.
Reachable(r) ==
    \/ r.id \in Ids(w.msgs \cup w.pending) \/ w.spilled
    \/ w.hasMore /\ r.at < w.oldest
    \/ w.hasNewer /\ r.at > w.newest

\* Whatever was lost, replayed, late or merged on the streams, a browser at rest
\* can show every row of the hub, unless the last refresh the app asked for
\* failed or was skipped because an earlier one was still under way (the skip
\* of reconcileSelectedSessionMessages).
WholeUnlessOwed == Quiet /\ ~owed => \A r \in table : Reachable(r)

\* While the window is too small for the table, and rows are given up at either
\* end for pages and for live rows, the newest row of the hub is never lost:
\* whoever gives up new rows remembers that there are newer ones to fetch.
LatestInReach == Quiet /\ ~owed => \A r \in Newest(table, 1) : Reachable(r)

\* The turns that a thread shows as invoked, or as queued.
ThreadTurns(v, inv) == {Local(r) : r \in {q \in v.msgs : IsUser(q) /\ q.inv = inv}}
TakenBack == ThreadTurns(w, TRUE) \cap ThreadTurns(w', FALSE)

\* The fallback of the merge has no look at localIds: it drops the optimistic
\* copy of turn k, with what it knew, for the row of another turn that was sent
\* within ten seconds of it.
Mistaken(k) ==
    Close /\ -k \in Ids(w.msgs) /\ \E other \in Turn \ {k} : other \in Ids(w'.msgs)

\* A turn that the thread shows as invoked is never shown there as queued in the
\* next step, although late events, stale pages and the answers of the POST and
\* of the cancel all carry older copies of the row: but for an optimistic copy
\* that the fallback of mergeMessages takes for the copy of another turn's row.
ConsumedStays == [][\A k \in TakenBack : Mistaken(k)]_vars

\* What the comment of mergeMessages promises, with no such exception: the row
\* that replaces an optimistic copy keeps the invocation the copy has seen.
InvocationsStay == [][TakenBack = {}]_vars

\* The thread never shows two rows for one turn, although its optimistic copy,
\* its event on two streams, the pages and the answers of the POST and of the
\* cancel reach the window in any order.
TurnShownOnce ==
    \A q, r \in w.msgs : IsUser(q) /\ Local(q) = Local(r) => q = r
=============================================================================
