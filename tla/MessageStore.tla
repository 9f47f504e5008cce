---------------------------- MODULE MessageStore ----------------------------
(***************************************************************************)
(* The messages table of one session (hub/src/store/messages.ts), as the   *)
(* operators the hub runs on it.  A table is a function from row ids to    *)
(* rows: an id is used once, as randomUUID() is, and a row that was        *)
(* deleted keeps its last contents under st = "deleted", so that a         *)
(* property can still speak of it.  The SQL only sees Present(rows).       *)
(*                                                                         *)
(* A row with a localId is a turn sent from the web: invoked_at is NULL    *)
(* ("queued") until the CLI acknowledges it.  A row without one was posted *)
(* by the CLI itself, the agent's output or a prompt typed at its terminal *)
(* (role "user"), and is stamped invoked at insertion.  Timestamps are     *)
(* abstracted to whether invoked_at is set and scheduled_at is reached.    *)
(***************************************************************************)
EXTENDS Naturals, FiniteSets

CONSTANTS
    MaxRows,        \* bound: rows ever inserted; ids and seqs are 1..MaxRows
    Turn,           \* the localIds of user turns
    Scheduled,      \* the turns sent with a scheduledAt in the future
    NoTurn,         \* local_id IS NULL
    PageLimit       \* rows per backfill page (200 in the code)

ASSUME StoreAssumption ==
    /\ MaxRows \in Nat
    /\ Scheduled \subseteq Turn
    /\ NoTurn \notin Turn
    /\ PageLimit \in Nat \ {0}

Id == 1..MaxRows

Row == [st : {"unused", "queued", "invoked", "deleted"},
        seq : 0..MaxRows,
        local : Turn \cup {NoTurn},
        role : {"user", "agent"}]

EmptyTable == [i \in Id |-> [st |-> "unused", seq |-> 0, local |-> NoTurn,
                          role |-> "agent"]]

Present(rows) == {i \in Id : rows[i].st \in {"queued", "invoked"}}

\* The row addMessage finds for a localId that was already inserted.
Existing(rows, t) == {i \in Present(rows) : rows[i].local = t}

\* The id of the next insertion; ids are handed out in order only to keep
\* the number of states down.
IsFresh(rows, i) ==
    /\ rows[i].st = "unused"
    /\ \A j \in Id : rows[j].st = "unused" => i <= j

\* n = COALESCE(MAX(seq), 0) + 1 over the rows now in the table.
IsNextSeq(rows, n) ==
    /\ \A i \in Present(rows) : rows[i].seq < n
    /\ n = 1 \/ \E i \in Present(rows) : rows[i].seq + 1 = n

Inserted(rows, i, t, role, n) ==
    [rows EXCEPT ![i] = [st    |-> IF t = NoTurn THEN "invoked" ELSE "queued",
                         seq   |-> n, local |-> t, role  |-> role]]

\* due is the set of scheduled turns whose scheduled_at is <= now.
Future(rows, due, i) == rows[i].local \in Scheduled \ due

\* Mutants: the backfill query without its scheduled_at filter, and with an
\* off-by-one in the seq comparison.
AllRowsAfter(rows, due, after) == {i \in Present(rows) : rows[i].seq > after}
RowsWellAfter(rows, due, after) ==
    {i \in Present(rows) : rows[i].seq > after + 1 /\ ~Future(rows, due, i)}

\* getDeliverableMessagesAfter before its LIMIT; invoked rows are included.
DeliverableAfter(rows, due, after) ==
    {i \in Present(rows) : rows[i].seq > after /\ ~Future(rows, due, i)}

\* ORDER BY seq ASC LIMIT PageLimit.
Page(rows, due, after) ==
    LET all == DeliverableAfter(rows, due, after)
    IN  {i \in all : Cardinality({j \in all : rows[j].seq < rows[i].seq}) < PageLimit}

\* getMatureScheduledMessages: what the hub's tick re-emits.
Mature(rows, due) ==
    {i \in Id : rows[i].st = "queued" /\ rows[i].local \in Scheduled \cap due}

\* UPDATE ... WHERE local_id = t AND invoked_at IS NULL.
MarkedInvoked(rows, t) ==
    [i \in Id |-> IF rows[i].st = "queued" /\ rows[i].local = t
                  THEN [rows[i] EXCEPT !.st = "invoked"] ELSE rows[i]]

\* Mutant: the DELETE without its invoked_at IS NULL guard.
DeletedAnyway(rows, i) == [rows EXCEPT ![i].st = "deleted"]

\* DELETE ... WHERE id = i AND invoked_at IS NULL.
DeletedIfQueued(rows, i) ==
    IF rows[i].st = "queued" THEN [rows EXCEPT ![i].st = "deleted"] ELSE rows

=============================================================================
