------------------------- MODULE SessionMergeProofs -------------------------
(***************************************************************************)
(* What TLAPS proves of SessionMerge for every number of records, turns    *)
(* and rows: no message is lost when histories are joined, seqs and        *)
(* localIds stay unique in each record, what is queued can be              *)
(* acknowledged, and the deduplication spares live records.                *)
(***************************************************************************)
EXTENDS SessionMerge, FiniteSetTheorems, TLAPS

USE MergeAssumption, StoreAssumption DEF MergeAssumption, StoreAssumption

-----------------------------------------------------------------------------
(* The tables.                                                             *)

\* A row that is not used yet is nobody's; one that is used has a seq above 0.
Tidy ==
    \A i \in Id :
        /\ rows[i].st = "unused" => home[i] = Nobody /\ rows[i].local = NoTurn
        /\ rows[i].st # "unused" => rows[i].seq > 0

MRow == [st : {"unused", "queued", "invoked"}, seq : Nat,
         local : Turn \cup {NoTurn}, role : {"user", "agent"}]

Tables == /\ TableType /\ Tidy /\ EveryRowHasRecord /\ SeqsDistinct /\ LocalIdsDistinct
          /\ QueuedCanBeAcked

\* The fields of a row, in a state whose table is well typed.
LEMMA RowFields ==
    ASSUME TableType, NEW i \in Id
    PROVE  /\ rows[i].st \in {"unused", "queued", "invoked"} /\ rows[i].seq \in Nat
           /\ rows[i].local \in Turn \cup {NoTurn} /\ rows[i].role \in {"user", "agent"}
           /\ home[i] \in Session \cup {Nobody}
BY DEF TableType

\* What two statements change in a row, and what they leave.
LEMMA SeqRaised ==
    ASSUME NEW r \in MRow, NEW m \in Nat
    PROVE  /\ [r EXCEPT !.seq = @ + m] \in MRow
           /\ [r EXCEPT !.seq = @ + m].seq = r.seq + m
           /\ [r EXCEPT !.seq = @ + m].st = r.st
           /\ [r EXCEPT !.seq = @ + m].local = r.local
BY DEF MRow

LEMMA Invoked ==
    ASSUME NEW r \in MRow
    PROVE  /\ [r EXCEPT !.st = "invoked"] \in MRow
           /\ [r EXCEPT !.st = "invoked"].seq = r.seq
           /\ [r EXCEPT !.st = "invoked"].st = "invoked"
           /\ [r EXCEPT !.st = "invoked"].local = r.local
BY DEF MRow

\* Without a change of the tables nothing but a lost record could hurt.
LEMMA TablesKept ==
    ASSUME Tables, UNCHANGED <<rows, home>>, records \subseteq records'
    PROVE  Tables'
BY DEF Tables, TableType, Tidy, EveryRowHasRecord, SeqsDistinct, LocalIdsDistinct,
       QueuedCanBeAcked

\* addMessage: a fresh id, a seq above all of the session, a localId that the
\* session does not have.
LEMMA InsertKeepsTables ==
    ASSUME Tables, NEW s \in Session, NEW i \in Id, NEW t \in Turn \cup {NoTurn},
           NEW role \in {"user", "agent"}, s \in records, records' = records,
           t # NoTurn => Existing(Table(s), t) = {},
           InsertRow(s, i, t, role)
    PROVE  Tables'
<1>1. PICK n \in {1} \cup {rows[j].seq + 1 : j \in Id} :
          IsNextSeq(Table(s), n) /\ rows' = Inserted(rows, i, t, role, n)
  BY DEF InsertRow
<1>2. /\ rows[i].st = "unused" /\ home' = [home EXCEPT ![i] = s]
      /\ rows \in [Id -> [st : {"unused", "queued", "invoked"}, seq : Nat,
                          local : Turn \cup {NoTurn}, role : {"user", "agent"}]]
      /\ home \in [Id -> Session \cup {Nobody}]
  BY DEF InsertRow, IsFresh, Tables, TableType
<1>3. n \in Nat /\ n > 0
  BY <1>1, RowFields DEF Tables
<1> DEFINE new == [st |-> IF t = NoTurn THEN "invoked" ELSE "queued",
                   seq |-> n, local |-> t, role |-> role]
<1>4. /\ new.st = (IF t = NoTurn THEN "invoked" ELSE "queued")
      /\ new.seq = n /\ new.local = t
      /\ new \in [st : {"unused", "queued", "invoked"}, seq : Nat,
                  local : Turn \cup {NoTurn}, role : {"user", "agent"}]
  BY <1>3
<1>5. rows' = [rows EXCEPT ![i] = new]
  BY <1>1 DEF Inserted
<1> HIDE DEF new
<1>6. /\ rows'[i] = new /\ home'[i] = s
      /\ \A j \in Id \ {i} : rows'[j] = rows[j] /\ home'[j] = home[j]
  BY <1>2, <1>5
<1>7. TableType'
  BY <1>2, <1>4, <1>5 DEF TableType
<1>8. \A j \in Id \ {i} : home[j] = s => rows[j].seq < n
  <2> TAKE j \in Id \ {i}
  <2> HAVE home[j] = s
  <2>1. rows[j].st \in {"queued", "invoked"}
    BY RowFields DEF Tables, Tidy
  <2>2. Table(s)[j] = rows[j]
    BY DEF Table
  <2>3. j \in Present(Table(s))
    BY <2>1, <2>2 DEF Present
  <2> QED BY <1>1, <2>2, <2>3 DEF IsNextSeq
<1>9. \A j \in Id \ {i} : home[j] = s /\ t # NoTurn => rows[j].local # t
  <2> TAKE j \in Id \ {i}
  <2> HAVE home[j] = s /\ t # NoTurn
  <2>1. rows[j].st \in {"queued", "invoked"}
    BY RowFields DEF Tables, Tidy
  <2>2. Table(s)[j] = rows[j]
    BY DEF Table
  <2> QED BY <2>1, <2>2 DEF Existing, Present
<1>10. Tidy' /\ QueuedCanBeAcked' /\ EveryRowHasRecord'
  BY <1>3, <1>4, <1>6 DEF Tables, Tidy, QueuedCanBeAcked, EveryRowHasRecord
<1>11. SeqsDistinct'
  <2> SUFFICES ASSUME NEW j \in Id, NEW k \in Id,
                      rows'[j].st # "unused", rows'[k].st # "unused",
                      home'[j] = home'[k], rows'[j].seq = rows'[k].seq, j # k
               PROVE  FALSE
    BY DEF SeqsDistinct
  <2>1. CASE j # i /\ k # i
    BY <2>1, <1>6 DEF Tables, SeqsDistinct
  <2>2. CASE j = i \/ k = i
    BY <2>2, <1>3, <1>4, <1>6, <1>8, RowFields DEF Tables
  <2> QED BY <2>1, <2>2
<1>12. LocalIdsDistinct'
  <2> SUFFICES ASSUME NEW j \in Id, NEW k \in Id,
                      rows'[j].local = rows'[k].local, rows'[j].local # NoTurn,
                      home'[j] = home'[k], j # k
               PROVE  FALSE
    BY DEF LocalIdsDistinct
  <2>1. CASE j # i /\ k # i
    BY <2>1, <1>6 DEF Tables, LocalIdsDistinct
  <2>2. CASE j = i \/ k = i
    BY <2>2, <1>4, <1>6, <1>9
  <2> QED BY <2>1, <2>2
<1> QED BY <1>7, <1>10, <1>11, <1>12 DEF Tables

\* messages-consumed: nothing but the state of queued rows changes.
LEMMA AckKeepsTables ==
    ASSUME Tables, NEW s, NEW t \in Turn, UNCHANGED <<home, records>>,
           rows' = [i \in Id |-> IF home[i] = s THEN MarkedInvoked(rows, t)[i] ELSE rows[i]]
    PROVE  Tables'
<1>1. ASSUME NEW i \in Id
      PROVE  /\ rows'[i] \in MRow
             /\ rows'[i].seq = rows[i].seq /\ rows'[i].local = rows[i].local
             /\ rows'[i].st = "unused" <=> rows[i].st = "unused"
             /\ rows'[i].st = "queued" => rows[i].st = "queued"
  <2>1. rows[i] \in MRow
    BY DEF Tables, TableType, MRow
  <2>2. CASE rows'[i] = rows[i]
    BY <2>1, <2>2
  <2>3. CASE rows'[i] # rows[i]
    <3>1. rows[i].st = "queued" /\ rows'[i] = [rows[i] EXCEPT !.st = "invoked"]
      BY <2>3, Zenon DEF MarkedInvoked
    <3> QED BY <2>1, <3>1, Invoked
  <2> QED BY <2>2, <2>3
<1>2. TableType'
  <2>1. rows' \in [Id -> MRow]
    BY <1>1
  <2> QED BY <2>1 DEF Tables, TableType, MRow
<1> QED BY <1>1, <1>2 DEF Tables, Tidy, EveryRowHasRecord, SeqsDistinct, LocalIdsDistinct,
                          QueuedCanBeAcked

\* mergeSessionMessages: the target's rows move beyond those that come in, and
\* of two rows with one localId the one that comes in gives it up.
LEMMA MergeKeepsTables ==
    ASSUME Tables, NEW u \in Session, NEW s \in records, s \in Session, u # s, NEW m \in Nat,
           IsMaxSeq(u, m), rows' = Merged(u, s, m), home' = Moved(u, s),
           records' = records \ {u}
    PROVE  Tables'
<1>1. ASSUME NEW i \in Id
      PROVE  /\ rows[i] \in MRow /\ home[i] \in Session \cup {Nobody}
             /\ rows[i].st # "unused" => rows[i].seq > 0 /\ home[i] \in records
             /\ rows[i].st = "unused" => home[i] = Nobody /\ rows[i].local = NoTurn
             /\ \A x : i \in RowsOf(x) <=> home[i] = x
             /\ home'[i] = IF home[i] = u THEN s ELSE home[i]
             /\ home[i] = u => rows[i].seq <= m
  BY DEF Tables, TableType, Tidy, EveryRowHasRecord, MRow, RowsOf, Moved, IsMaxSeq
<1>2. ASSUME NEW i \in Id
      PROVE  /\ rows'[i] \in MRow
             /\ rows'[i].st = "unused" <=> rows[i].st = "unused"
             /\ rows'[i].st = "queued" => rows[i].st = "queued" /\ rows'[i].local = rows[i].local
             /\ rows'[i].local \in {rows[i].local, NoTurn}
             /\ rows'[i].seq = IF home[i] = s THEN rows[i].seq + m ELSE rows[i].seq
             /\ home[i] = u /\ rows'[i].local # NoTurn => rows[i].local \notin Collided(u, s)
  <2>1. CASE home[i] = s
    <3>1. rows'[i] = [rows[i] EXCEPT !.seq = @ + m]
      BY <1>1, <2>1 DEF Merged
    <3>2. rows[i].st # "unused"
      BY <1>1, <2>1
    <3> QED BY <1>1, <2>1, <3>1, <3>2, SeqRaised
  <2>2. CASE home[i] = u /\ rows[i].local \in Collided(u, s)
    <3> DEFINE q == [rows[i] EXCEPT !.local = NoTurn, !.st = "invoked"]
    <3>1. rows'[i] = q
      BY <1>1, <2>2 DEF Merged
    <3>2. rows[i].st # "unused" /\ rows[i] \in MRow
      BY <1>1, <2>2
    <3>3. q \in MRow /\ q.st = "invoked" /\ q.local = NoTurn /\ q.seq = rows[i].seq
      BY <3>2 DEF MRow
    <3> HIDE DEF q
    <3> QED BY <2>2, <3>1, <3>2, <3>3
  <2>3. CASE home[i] # s /\ ~(home[i] = u /\ rows[i].local \in Collided(u, s))
    <3>1. rows'[i] = rows[i]
      BY <1>1, <2>3 DEF Merged
    <3> QED BY <1>1, <2>3, <3>1
  <2> QED BY <2>1, <2>2, <2>3
<1>3. \A i \in Id : /\ rows[i].seq \in Nat /\ rows'[i].seq \in Nat
                     /\ rows[i].local \in Turn \cup {NoTurn}
  BY <1>1, <1>2 DEF MRow
<1>4. TableType'
  <2>1. rows' \in [Id -> MRow]
    BY <1>2 DEF Merged
  <2>2. home' \in [Id -> Session \cup {Nobody}]
    BY <1>1 DEF Moved
  <2> QED BY <2>1, <2>2 DEF TableType, MRow
<1>5. Tidy' /\ EveryRowHasRecord'
  BY <1>1, <1>2, <1>3 DEF Tidy, EveryRowHasRecord
<1>6. QueuedCanBeAcked'
  BY <1>2 DEF Tables, QueuedCanBeAcked
<1>7. SeqsDistinct'
  <2> SUFFICES ASSUME NEW j \in Id, NEW k \in Id,
                      rows'[j].st # "unused", rows'[k].st # "unused",
                      home'[j] = home'[k], rows'[j].seq = rows'[k].seq, j # k
               PROVE  FALSE
    BY DEF SeqsDistinct
  <2>1. /\ rows[j].st # "unused" /\ rows[k].st # "unused"
        /\ rows[j].seq > 0 /\ rows[k].seq > 0
        /\ home[j] = home[k] => rows[j].seq # rows[k].seq
    BY <1>1, <1>2 DEF Tables, SeqsDistinct
  <2>2. \/ home[j] = home[k]
        \/ home[j] = u /\ home[k] = s
        \/ home[j] = s /\ home[k] = u
    BY <1>1
  <2> QED BY <1>1, <1>2, <1>3, <2>1, <2>2
<1>8. LocalIdsDistinct'
  <2> SUFFICES ASSUME NEW j \in Id, NEW k \in Id,
                      rows'[j].local = rows'[k].local, rows'[j].local # NoTurn,
                      home'[j] = home'[k], j # k
               PROVE  FALSE
    BY DEF LocalIdsDistinct
  <2>1. rows[j].local = rows[k].local /\ rows[j].local \in Turn
    BY <1>2, <1>3
  <2>2. \/ home[j] = u /\ home[k] = s
        \/ home[j] = s /\ home[k] = u
    BY <1>1, <2>1 DEF Tables, LocalIdsDistinct
  <2>3. rows[j].local \in Collided(u, s)
    BY <1>1, <2>1, <2>2 DEF Collided
  <2> QED BY <1>2, <2>1, <2>2, <2>3
<1> QED BY <1>4, <1>5, <1>6, <1>7, <1>8 DEF Tables

-----------------------------------------------------------------------------
(* Types.                                                                  *)

LEMMA Frames ==
    /\ RecordType /\ UNCHANGED <<records, thread, active, newer, pass, resumes, posts>>
         => RecordType'
    /\ PassType /\ UNCHANGED <<records, pass>> => PassType'
    /\ CliType /\ UNCHANGED <<cliVars, spent>> => CliType'
<1>1. PassType /\ UNCHANGED <<records, pass>> => PassType'
  BY DEF PassType, Idle
<1>2. RecordType /\ UNCHANGED <<records, thread, active, newer, pass, resumes, posts>>
        => RecordType'
  BY <1>1 DEF RecordType
<1>3. CliType /\ UNCHANGED <<cliVars, spent>> => CliType'
  BY DEF CliType, cliVars
<1> QED BY <1>1, <1>2, <1>3

LEMMA IdlePass == pass' = Idle => PassType'
  BY DEF PassType

LEMMA TouchedType ==
    ASSUME RecordType, NEW s \in Session
    PROVE  Touched(s) \in SUBSET (Session \X Session)
BY DEF RecordType, Touched

LEMMA SpendType ==
    ASSUME CliType, NEW b \in {"posts", "output", "drops"}, NEW max, Spend(b, max)
    PROVE  spent' \in [{"posts", "output", "drops"} -> Nat]
BY DEF CliType, Spend

LEMMA ReadType ==
    ASSUME CliType, TableType', NEW s \in Session, NEW I \in SUBSET Id, Read(s, I)
    PROVE  /\ cursor' \in [Session -> Nat] /\ seen' \in [Session -> SUBSET Id]
           /\ inbox' \in [Session -> SUBSET Id]
<1>1. seen' \in [Session -> SUBSET Id] /\ inbox' \in [Session -> SUBSET Id]
  BY DEF CliType, Read
<1>2. PICK c \in {cursor[s]} \cup {rows'[i].seq : i \in I} : cursor' = [cursor EXCEPT ![s] = c]
  BY DEF Read
<1>3. c \in Nat
  BY <1>2 DEF CliType, TableType
<1> QED BY <1>1, <1>2, <1>3 DEF CliType

\* A finite set with at most one element has no other.
LEMMA AtMostOne ==
    ASSUME NEW S, IsFiniteSet(S), Cardinality(S) <= 1, NEW s \in S
    PROVE  S \ {s} = {}
<1>1. Cardinality(S) \in Nat /\ IsFiniteSet(S \ {s}) /\ Cardinality(S \ {s}) = Cardinality(S) - 1
  BY FS_CardinalityType, FS_RemoveElement
<1>2. Cardinality(S \ {s}) \in Nat
  BY <1>1, FS_CardinalityType
<1>3. Cardinality(S \ {s}) = 0
  BY <1>1, <1>2
<1> QED BY <1>1, <1>3, FS_EmptySet

\* The deduplication starts with live records left out of its list.
Spared == pass.by = "dedup" => pass.rest \cap active = {}

LEMMA StartPassType ==
    ASSUME records' \subseteq Session, NEW S, NEW act, active' = act,
           NEW candidates, candidates \subseteq records', StartPass(S, act, candidates)
    PROVE  PassType' /\ Spared'
<1>1. CASE pass' = Idle
  BY <1>1 DEF PassType, Spared, Idle
<1>2. CASE MayMerge(candidates, act) /\ pass' # Idle
  <2>1. PICK s \in candidates :
            /\ Kept(s, candidates, act)
            /\ pass' = [target |-> s, rest |-> candidates \ {s}, by |-> "dedup"]
    BY <1>2 DEF StartPass
  <2>2. IsFiniteSet(candidates) /\ IsFiniteSet(candidates \cap act)
    BY FS_Subset
  <2>3. Cardinality(candidates) > 1 /\ Cardinality(candidates \cap act) <= 1
    BY <1>2 DEF MayMerge
  <2>4. candidates \ {s} # {}
    <3>1. SUFFICES ASSUME candidates = {s} PROVE FALSE
      BY <2>1
    <3>2. Cardinality({s}) = 1
      BY FS_Singleton, Zenon
    <3>3. Cardinality(candidates) = 1
      BY <3>1, <3>2, Zenon
    <3> QED BY <3>3, <2>3
  <2>5. (candidates \ {s}) \cap act = {}
    <3>1. CASE candidates \cap act = {}
      BY <3>1
    <3>2. CASE candidates \cap act # {}
      <4>1. s \in candidates \cap act
        BY <2>1, <3>2 DEF Kept
      <4>2. (candidates \cap act) \ {s} = {}
        BY <2>2, <2>3, <4>1, AtMostOne
      <4> QED BY <4>2
    <3> QED BY <3>1, <3>2
  <2>6. pass'.target = s /\ pass'.rest = candidates \ {s} /\ pass'.by = "dedup"
    BY <2>1
  <2> QED BY <2>1, <2>4, <2>5, <2>6 DEF PassType, Spared
<1> QED BY <1>1, <1>2 DEF StartPass

-----------------------------------------------------------------------------
(* The invariant, action by action.                                        *)

IInv == RecordType /\ CliType /\ Tables /\ Spared

\* What actions that leave tables, pass and live records alone keep.
LEMMA Quiet ==
    ASSUME IInv, UNCHANGED <<rows, home, pass>>, records \subseteq records',
           \/ HubIdle
           \/ active' \subseteq active
    PROVE  Tables' /\ Spared'
<1>1. Tables'
  BY TablesKept DEF IInv
<1>2. Spared'
  BY DEF IInv, Spared, HubIdle, Idle
<1> QED BY <1>1, <1>2

LEMMA InitHolds == Init => IInv
<1> SUFFICES ASSUME Init PROVE IInv
  OBVIOUS
<1>1. RecordType
  BY DEF Init, RecordType, PassType
<1>2. CliType
  BY DEF Init, CliType
<1>3. \A i \in Id : /\ rows[i] = [st |-> "unused", seq |-> 0, local |-> NoTurn, role |-> "agent"]
                     /\ home[i] = Nobody
  BY DEF Init, EmptyTable
<1>4. TableType
  BY DEF Init, EmptyTable, TableType
<1>5. Tables
  BY <1>3, <1>4 DEF Tables, Tidy, EveryRowHasRecord, SeqsDistinct, LocalIdsDistinct,
                    QueuedCanBeAcked
<1>6. Spared
  BY DEF Init, Idle, Spared
<1> QED BY <1>1, <1>2, <1>5, <1>6 DEF IInv

LEMMA MergeStep == IInv /\ MergeNext => IInv'
<1> SUFFICES ASSUME IInv, MergeNext PROVE IInv'
  OBVIOUS
<1>1. PICK u \in pass.rest :
        /\ \E m \in {0} \cup {rows[i].seq : i \in Id} :
             IsMaxSeq(u, m) /\ rows' = Merged(u, pass.target, m)
        /\ home' = Moved(u, pass.target)
        /\ records' = records \ {u} /\ thread' = thread \ {u} /\ active' = active \ {u}
        /\ pass' = IF pass.rest = {u} THEN Idle ELSE [pass EXCEPT !.rest = @ \ {u}]
  BY DEF MergeNext
<1>2. PICK m \in {0} \cup {rows[i].seq : i \in Id} :
        IsMaxSeq(u, m) /\ rows' = Merged(u, pass.target, m)
  BY <1>1
<1>3. /\ pass = [target |-> pass.target, rest |-> pass.rest, by |-> pass.by]
      /\ pass.target \in records \ pass.rest /\ pass.rest \in SUBSET records
      /\ pass.by \in {"dedup", "resume"}
  BY DEF IInv, RecordType, PassType, Idle
<1>4. m \in Nat /\ u \in Session /\ pass.target \in Session /\ u # pass.target
  BY <1>3, RowFields DEF IInv, Tables, RecordType
<1>5. Tables'
  BY <1>1, <1>2, <1>3, <1>4, MergeKeepsTables DEF IInv
<1>6. \/ pass' = Idle
      \/ /\ pass' = [target |-> pass.target, rest |-> pass.rest \ {u}, by |-> pass.by]
         /\ pass.rest \ {u} # {}
  BY <1>1, <1>3
<1>7. PassType' /\ Spared'
  <2>1. CASE pass' = Idle
    BY <2>1 DEF PassType, Spared, Idle
  <2>2. CASE pass' # Idle
    <3>1. /\ pass' = [target |-> pass.target, rest |-> pass.rest \ {u}, by |-> pass.by]
          /\ pass'.target = pass.target /\ pass'.rest = pass.rest \ {u} /\ pass'.by = pass.by
      BY <1>6, <2>2
    <3> QED BY <1>1, <1>3, <1>6, <2>2, <3>1 DEF PassType, Spared, IInv
  <2> QED BY <2>1, <2>2
<1>8. RecordType'
  BY <1>1, <1>7 DEF IInv, RecordType, MergeNext
<1>9. CliType'
  BY Frames DEF IInv, MergeNext
<1> QED BY <1>5, <1>7, <1>8, <1>9 DEF IInv

LEMMA PostTurnStep == ASSUME IInv, NEW s \in Session, NEW t \in Turn, PostTurn(s, t) PROVE IInv'
<1>1. PICK i \in Id :
        /\ \/ UNCHANGED <<rows, home>>
           \/ Existing(Table(s), t) = {} /\ InsertRow(s, i, t, "user")
        /\ Read(s, {i}) \/ UNCHANGED <<seen, inbox, cursor>>
  BY DEF PostTurn
<1>2. HubIdle /\ s \in records /\ UNCHANGED <<records, active, pass>>
  BY DEF PostTurn
<1>3. Tables'
  <2>1. CASE UNCHANGED <<rows, home>>
    BY <1>2, <2>1, TablesKept DEF IInv
  <2>2. CASE Existing(Table(s), t) = {} /\ InsertRow(s, i, t, "user")
    BY <1>2, <2>2, InsertKeepsTables DEF IInv
  <2> QED BY <1>1, <2>1, <2>2
<1>4. /\ cursor' \in [Session -> Nat] /\ seen' \in [Session -> SUBSET Id]
      /\ inbox' \in [Session -> SUBSET Id]
  <2>1. CASE UNCHANGED <<seen, inbox, cursor>>
    BY <2>1 DEF IInv, CliType
  <2>2. CASE Read(s, {i})
    BY <2>2, <1>3, ReadType DEF IInv, Tables
  <2> QED BY <1>1, <2>1, <2>2
<1>5. CliType'
  BY <1>4 DEF PostTurn, IInv, CliType
<1>6. newer' \in SUBSET (Session \X Session)
  BY TouchedType DEF PostTurn, IInv
<1>7. RecordType'
  BY <1>6, Frames DEF PostTurn, IInv, RecordType
<1>8. Spared'
  BY <1>2 DEF IInv, Spared
<1> QED BY <1>3, <1>5, <1>7, <1>8 DEF IInv

LEMMA PostOutputStep == ASSUME IInv, NEW s \in Session, PostOutput(s) PROVE IInv'
<1>1. PICK i \in Id : InsertRow(s, i, NoTurn, "agent")
  BY DEF PostOutput
<1>2. HubIdle /\ s \in records /\ UNCHANGED <<records, active, pass>>
  BY DEF PostOutput
<1>3. Tables'
  BY <1>1, <1>2, InsertKeepsTables DEF IInv
<1>4. CliType'
  <2>1. spent' \in [{"posts", "output", "drops"} -> Nat]
    BY SpendType DEF PostOutput, IInv
  <2> QED BY <2>1 DEF PostOutput, cliVars, IInv, CliType
<1>5. newer' \in SUBSET (Session \X Session)
  BY TouchedType DEF PostOutput, IInv, RecordType
<1>6. RecordType'
  BY <1>5, Frames DEF PostOutput, IInv, RecordType
<1>7. Spared'
  BY <1>2 DEF IInv, Spared
<1> QED BY <1>3, <1>4, <1>6, <1>7 DEF IInv

LEMMA ReceiveAckStep == ASSUME IInv, NEW s \in Session, NEW t \in Turn, ReceiveAck(s, t) PROVE IInv'
<1>1. UNCHANGED <<records, active, pass, home>>
  BY DEF ReceiveAck
<1>2. Tables'
  <2>1. CASE s \in records
    BY <1>1, <2>1, AckKeepsTables DEF IInv, ReceiveAck
  <2>2. CASE s \notin records
    BY <1>1, <2>2, TablesKept DEF IInv, ReceiveAck
  <2> QED BY <2>1, <2>2
<1>3. CliType'
  BY DEF ReceiveAck, IInv, CliType
<1>4. newer' \in SUBSET (Session \X Session)
  BY TouchedType DEF ReceiveAck, IInv, RecordType
<1>5. RecordType'
  BY <1>4, Frames DEF ReceiveAck, IInv, RecordType
<1>6. Spared'
  BY <1>1 DEF IInv, Spared
<1> QED BY <1>2, <1>3, <1>5, <1>6 DEF IInv

LEMMA StartsStep ==
    ASSUME IInv, NEW s \in Session, Starts(s), resumes' \in SUBSET (Session \X Session)
    PROVE  IInv'
<1>1. Tables' /\ Spared'
  BY Quiet DEF Starts
<1>2. CliType'
  BY DEF Starts, IInv, CliType
<1>3. newer' \in SUBSET (Session \X Session)
  BY TouchedType DEF Starts, IInv
<1>4. PassType'
  BY IdlePass DEF Starts, HubIdle, Idle
<1>5. RecordType'
  BY <1>3, <1>4 DEF Starts, IInv, RecordType
<1> QED BY <1>1, <1>2, <1>5 DEF IInv

LEMMA ResumeMergesStep ==
    ASSUME IInv, NEW u \in Session, NEW s \in Session, u # s, ResumeMerges(u, s)
    PROVE  IInv'
<1>1. Tables'
  BY TablesKept DEF ResumeMerges, IInv
<1>2. CliType'
  BY Frames DEF ResumeMerges, IInv
<1>3. PassType' /\ Spared'
  <2>1. CASE s \in active /\ u \in records
    <3>1. pass' = [target |-> s, rest |-> {u}, by |-> "resume"] /\ UNCHANGED records
      BY <2>1 DEF ResumeMerges
    <3>2. pass'.target = s /\ pass'.rest = {u} /\ pass'.by = "resume"
      BY <3>1
    <3> QED BY <2>1, <3>1, <3>2 DEF PassType, Spared, IInv, RecordType
  <2>2. CASE ~(s \in active /\ u \in records)
    BY <2>2, IdlePass DEF ResumeMerges, HubIdle, Idle, IInv, Spared
  <2> QED BY <2>1, <2>2
<1>4. RecordType'
  BY <1>3 DEF ResumeMerges, IInv, RecordType
<1> QED BY <1>1, <1>2, <1>3, <1>4 DEF IInv

\* The four triggers of the deduplication change active and start a pass.
LEMMA TriggerStep ==
    ASSUME IInv, UNCHANGED <<records, resumes, posts, rows, home>>, CliType', NEW S,
           newer' \in SUBSET (Session \X Session),
           thread' \in SUBSET records, active' \in SUBSET records,
           StartPass(S, active', thread')
    PROVE  IInv'
<1>1. Tables'
  BY TablesKept DEF IInv
<1>2. PassType' /\ Spared'
  BY StartPassType DEF IInv, RecordType
<1>3. RecordType'
  BY <1>2 DEF IInv, RecordType
<1> QED BY <1>1, <1>2, <1>3 DEF IInv

LEMMA FindThreadStep == ASSUME IInv, NEW s \in Session, FindThread(s) PROVE IInv'
<1>1. CliType'
  BY Frames DEF FindThread, IInv
<1>2. newer' \in SUBSET (Session \X Session)
  BY TouchedType DEF FindThread, IInv
<1>3. /\ thread' \in SUBSET records /\ active' \in SUBSET records
      /\ UNCHANGED <<records, resumes, posts, rows, home>>
      /\ StartPass({s}, active', thread')
  BY DEF FindThread, IInv, RecordType
<1> QED BY <1>1, <1>2, <1>3, TriggerStep

LEMMA KeepAliveStep == ASSUME IInv, NEW s \in Session, KeepAlive(s) PROVE IInv'
<1>1. CliType'
  BY Frames DEF KeepAlive, IInv
<1>2. /\ thread' \in SUBSET records /\ active' \in SUBSET records
      /\ newer' \in SUBSET (Session \X Session)
      /\ UNCHANGED <<records, resumes, posts, rows, home>>
      /\ StartPass({s}, active', thread')
  BY DEF KeepAlive, IInv, RecordType
<1> QED BY <1>1, <1>2, TriggerStep

LEMMA ExpireStep == ASSUME IInv, NEW D \in SUBSET active, Expire(D) PROVE IInv'
<1>1. CliType'
  BY Frames DEF Expire, IInv
<1>2. /\ thread' \in SUBSET records /\ active' \in SUBSET records
      /\ newer' \in SUBSET (Session \X Session)
      /\ UNCHANGED <<records, resumes, posts, rows, home>>
      /\ StartPass(D, active', thread')
  BY DEF Expire, IInv, RecordType
<1> QED BY <1>1, <1>2, TriggerStep

LEMMA QuitStep == ASSUME IInv, NEW s \in Session, Quit(s) PROVE IInv'
<1>1. CliType'
  BY DEF Quit, IInv, CliType
<1>2. CASE s \in records
  <2>1. /\ thread' \in SUBSET records /\ active' \in SUBSET records
        /\ newer' \in SUBSET (Session \X Session)
        /\ UNCHANGED <<records, resumes, posts, rows, home>>
        /\ StartPass({s}, active', thread')
    BY <1>2 DEF Quit, IInv, RecordType
  <2> QED BY <1>1, <2>1, TriggerStep
<1>3. CASE s \notin records
  <2>1. RecordType'
    BY <1>3, Frames DEF Quit, IInv
  <2>2. Tables' /\ Spared'
    BY <1>3, Quiet DEF Quit
  <2> QED BY <1>1, <2>1, <2>2 DEF IInv
<1> QED BY <1>2, <1>3

LEMMA PostStep ==
    ASSUME IInv, NEW s \in Session, NEW t \in Turn, AcceptPost(s, t) \/ PostFails(s, t)
    PROVE  IInv'
<1>1. Tables' /\ Spared'
  BY Quiet DEF AcceptPost, PostFails
<1>2. PassType'
  BY Frames DEF AcceptPost, PostFails, IInv, RecordType
<1>3. RecordType'
  BY <1>2 DEF AcceptPost, PostFails, IInv, RecordType
<1>4. CASE PostFails(s, t)
  BY <1>1, <1>3, <1>4, Frames DEF PostFails, IInv
<1>5. CASE AcceptPost(s, t)
  <2>1. spent' \in [{"posts", "output", "drops"} -> Nat]
    BY <1>5, SpendType DEF AcceptPost, IInv
  <2>2. CliType'
    BY <1>5, <2>1 DEF AcceptPost, cliVars, IInv, CliType
  <2> QED BY <1>1, <1>3, <2>2 DEF IInv
<1> QED BY <1>4, <1>5

LEMMA CliStep ==
    ASSUME IInv, NEW s \in Session,
           \/ \E i \in Id : TakeTurn(s, i)
           \/ Drop(s) \/ Crash(s) \/ Reconnect(s) \/ Backfill(s)
    PROVE  IInv'
<1>1. UNCHANGED hubVars
  BY DEF TakeTurn, Drop, Crash, Reconnect, Backfill, hubVars
<1>2. RecordType' /\ Tables' /\ Spared'
  BY <1>1, Frames, Quiet DEF hubVars, IInv
<1>3. ASSUME NEW i \in Id, TakeTurn(s, i) PROVE CliType'
  <2>1. rows[i].local \in Turn \cup {NoTurn}
    BY RowFields DEF IInv, Tables
  <2> QED BY <1>3, <2>1 DEF TakeTurn, IInv, CliType
<1>4. ASSUME Drop(s) PROVE CliType'
  <2>1. spent' \in [{"posts", "output", "drops"} -> Nat]
    BY <1>4, SpendType DEF Drop, IInv
  <2>2. link' \in [Session -> {"up", "down"}]
    BY <1>4 DEF Drop, IInv, CliType
  <2>3. UNCHANGED <<proc, owed, cursor, seen, inbox, ran, acks>>
    BY <1>4 DEF Drop
  <2> QED BY <2>1, <2>2, <2>3 DEF IInv, CliType
<1>5. ASSUME Crash(s) \/ Reconnect(s) PROVE CliType'
  <2>1. UNCHANGED <<cursor, seen, inbox, ran, spent>>
    BY <1>5 DEF Crash, Reconnect
  <2>2. /\ proc' \in [Session -> {"none", "running", "gone"}]
        /\ link' \in [Session -> {"up", "down"}]
    BY <1>5 DEF Crash, Reconnect, IInv, CliType
  <2>3. owed' \in SUBSET Session /\ acks' \in [Session -> SUBSET Turn]
    BY <1>5 DEF Crash, Reconnect, IInv, CliType
  <2> QED BY <2>1, <2>2, <2>3 DEF IInv, CliType
<1>6. ASSUME Backfill(s) PROVE CliType'
  <2>1. /\ cursor' \in [Session -> Nat] /\ seen' \in [Session -> SUBSET Id]
        /\ inbox' \in [Session -> SUBSET Id]
    <3>1. CASE UNCHANGED <<cursor, seen, inbox>>
      BY <3>1 DEF IInv, CliType
    <3>2. CASE Read(s, DeliverableAfter(Table(s), Scheduled, cursor[s]))
      <4>1. DeliverableAfter(Table(s), Scheduled, cursor[s]) \in SUBSET Id
        BY DEF DeliverableAfter, Present
      <4>2. CliType /\ TableType'
        BY <1>2 DEF IInv, Tables
      <4> QED BY <3>2, <4>1, <4>2, ReadType
    <3> QED BY <1>6, <3>1, <3>2 DEF Backfill
  <2> QED BY <1>6, <2>1 DEF Backfill, IInv, CliType
<1> QED BY <1>2, <1>3, <1>4, <1>5, <1>6 DEF IInv

-----------------------------------------------------------------------------
(* The steps together, and the theorems.                                   *)

\* A request to resume never names its own new session: that one's process did
\* not run yet, while one has run for every record there is.
Apart ==
    /\ \A s \in records : proc[s] # "none"
    /\ \A u, s \in Session : <<u, s>> \in resumes => u # s

LEMMA ApartStep == IInv /\ Apart /\ [Next]_vars => Apart'
<1> SUFFICES ASSUME IInv, Apart, [Next]_vars PROVE Apart'
  OBVIOUS
<1>1. /\ proc \in [Session -> {"none", "running", "gone"}]
      /\ records \subseteq Session /\ thread \subseteq records
  BY DEF IInv, CliType, RecordType
<1>2. ASSUME records' \subseteq records, UNCHANGED proc, resumes' \subseteq resumes
      PROVE  Apart'
  BY <1>2 DEF Apart
<1>3. ASSUME NEW s \in Session, UNCHANGED <<records, resumes>>,
             proc' = [proc EXCEPT ![s] = "gone"]
      PROVE  Apart'
  BY <1>1, <1>3 DEF Apart
<1>4. ASSUME NEW s \in Session, StartProcess(s) \/ \E u \in Session : Resume(u, s)
      PROVE  Apart'
  <2>1. proc[s] = "none" /\ proc' = [proc EXCEPT ![s] = "running"] /\ records' = records \cup {s}
    BY <1>4 DEF StartProcess, Resume, Starts
  <2>2. s \notin thread
    BY <1>1, <2>1 DEF Apart
  <2>3. \A p \in resumes' : p \in resumes \/ \E u \in thread : p = <<u, s>>
    BY <1>4 DEF StartProcess, Resume
  <2> QED BY <1>1, <2>1, <2>2, <2>3 DEF Apart
<1>5. CASE UNCHANGED vars \/ MergeNext \/ \E D \in SUBSET active : Expire(D)
  BY <1>2, <1>5 DEF vars, hubVars, cliVars, MergeNext, Expire
<1>6. ASSUME NEW s \in Session,
             \/ FindThread(s) \/ KeepAlive(s) \/ PostOutput(s) \/ Drop(s) \/ Reconnect(s)
             \/ Backfill(s)
             \/ \E t \in Turn : AcceptPost(s, t) \/ PostTurn(s, t) \/ PostFails(s, t) \/ ReceiveAck(s, t)
             \/ \E i \in Id : TakeTurn(s, i)
             \/ \E u \in Session : ResumeMerges(u, s)
      PROVE  Apart'
  <2>1. records' = records /\ proc' = proc /\ resumes' \subseteq resumes
    BY <1>6 DEF hubVars, cliVars, FindThread, KeepAlive, PostOutput, Drop, Reconnect, Backfill,
       AcceptPost, PostTurn, PostFails, ReceiveAck, TakeTurn, ResumeMerges
  <2> QED BY <1>2, <2>1
<1>7. ASSUME NEW s \in Session, Quit(s) \/ Crash(s) PROVE Apart'
  BY <1>3, <1>7 DEF Quit, Crash, hubVars
<1> QED BY <1>4, <1>5, <1>6, <1>7 DEF Next

LEMMA NextHolds == IInv /\ Apart /\ [Next]_vars => IInv'
<1> SUFFICES ASSUME IInv, Apart, [Next]_vars PROVE IInv'
  OBVIOUS
<1>1. CASE UNCHANGED vars
  <2>1. UNCHANGED hubVars /\ UNCHANGED <<cliVars, spent>>
    BY <1>1 DEF vars
  <2> QED BY <2>1, Frames, Quiet DEF hubVars, IInv
<1>2. CASE MergeNext
  BY <1>2, MergeStep
<1>3. ASSUME NEW D \in SUBSET active, Expire(D) PROVE IInv'
  BY <1>3, ExpireStep
<1>4. ASSUME NEW s \in Session, StartProcess(s) PROVE IInv'
  BY <1>4, StartsStep DEF StartProcess, IInv, RecordType
<1>5. ASSUME NEW s \in Session, FindThread(s) \/ KeepAlive(s) \/ Quit(s) \/ PostOutput(s)
      PROVE  IInv'
  BY <1>5, FindThreadStep, KeepAliveStep, QuitStep, PostOutputStep
<1>6. ASSUME NEW s \in Session, NEW t \in Turn,
             AcceptPost(s, t) \/ PostTurn(s, t) \/ PostFails(s, t) \/ ReceiveAck(s, t)
      PROVE  IInv'
  BY <1>6, PostStep, PostTurnStep, ReceiveAckStep
<1>7. ASSUME NEW s \in Session, NEW u \in Session, Resume(u, s) PROVE IInv'
  <2>1. resumes' \in SUBSET (Session \X Session) /\ Starts(s)
    BY <1>7 DEF Resume, IInv, RecordType
  <2> QED BY <2>1, StartsStep
<1>8. ASSUME NEW s \in Session, NEW u \in Session, ResumeMerges(u, s) PROVE IInv'
  <2>1. u # s
    BY <1>8 DEF ResumeMerges, Apart
  <2> QED BY <1>8, <2>1, ResumeMergesStep
<1>9. ASSUME NEW s \in Session,
             \/ \E i \in Id : TakeTurn(s, i)
             \/ Drop(s) \/ Crash(s) \/ Reconnect(s) \/ Backfill(s)
      PROVE  IInv'
  BY <1>9, CliStep
<1> QED BY <1>1, <1>2, <1>3, <1>4, <1>5, <1>6, <1>7, <1>8, <1>9 DEF Next

LEMMA Inductive == Spec => [](IInv /\ Apart)
<1>1. Init => IInv /\ Apart
  <2>1. Init => Apart
    BY DEF Init, Apart
  <2> QED BY <2>1, InitHolds
<1>2. IInv /\ Apart /\ [Next]_vars => (IInv /\ Apart)'
  BY NextHolds, ApartStep
<1> QED BY <1>1, <1>2, PTL DEF Spec

\* Every variable keeps its type; what is left of a deduplication pass names
\* records that are still there (sessionCache.ts, deduplicateByAgentSessionId).
THEOREM WellTyped == Spec => []TypeOK
<1>1. IInv => TypeOK
  BY DEF IInv, Tables, TypeOK
<1> QED BY <1>1, Inductive, PTL

\* Joining histories never leaves a message in the record that the merge
\* deletes, where the foreign key would delete the message (messages.ts,
\* mergeSessionMessages; sessionCache.ts, mergeSessionData).
THEOREM HistoryIsKept == Spec => []EveryRowHasRecord
<1>1. IInv => EveryRowHasRecord
  BY DEF IInv, Tables
<1> QED BY <1>1, Inductive, PTL

\* However often histories are joined while messages arrive, the shift by the
\* source's greatest seq keeps seqs apart in each record, and no merge and no
\* insertion puts one localId into a record twice, so the unique index of the
\* table never aborts a merge (messages.ts, mergeSessionMessages, addMessage).
THEOREM KeysStayDistinct == Spec => []KeysDistinct
<1>1. IInv => KeysDistinct
  BY DEF IInv, Tables, KeysDistinct
<1> QED BY <1>1, Inductive, PTL

\* A row that loses its localId in a merge is not left queued, where no ack
\* could name it (messages.ts, mergeSessionMessages).
THEOREM QueuedStaysAckable == Spec => []QueuedCanBeAcked
<1>1. IInv => QueuedCanBeAcked
  BY DEF IInv, Tables
<1> QED BY <1>1, Inductive, PTL

\* While a deduplication pass runs no step takes a message or the record from
\* a live session, whatever came between the triggers (sessionCache.ts,
\* deduplicateByAgentSessionId).
THEOREM LiveRecordsSpared == Spec => DedupSparesLive
<1>1. IInv /\ [Next]_vars => [pass.by = "dedup" => LiveStays]_vars
  <2> SUFFICES ASSUME IInv, Next, pass.by = "dedup", NEW s \in active
               PROVE  s \in records' /\ RowsOf(s) \subseteq RowsOf(s)'
    BY DEF LiveStays
  <2>1. s \in records /\ s # Nobody
    BY DEF IInv, RecordType
  <2>2. CASE MergeNext
    <3>1. PICK u \in pass.rest :
              home' = Moved(u, pass.target) /\ records' = records \ {u}
      BY <2>2 DEF MergeNext
    <3>2. u # s
      BY DEF IInv, Spared
    <3> QED BY <2>1, <3>1, <3>2 DEF RowsOf, Moved
  <2>3. ASSUME NEW r \in Session, NEW i \in Id, NEW t, NEW role, InsertRow(r, i, t, role)
        PROVE  RowsOf(s) \subseteq RowsOf(s)'
    <3>1. rows[i].st = "unused" /\ home' = [home EXCEPT ![i] = r]
      BY <2>3 DEF InsertRow, IsFresh
    <3>2. home[i] # s /\ \A j \in Id \ {i} : home'[j] = home[j]
      BY <2>1, <3>1 DEF IInv, Tables, Tidy, TableType
    <3> QED BY <3>2 DEF RowsOf
  <2>4. CASE ~MergeNext
    <3>1. records \subseteq records'
      BY <2>4 DEF Next, hubVars, StartProcess, Resume, Starts, FindThread, KeepAlive, Quit, Crash,
         PostOutput, Drop, Reconnect, Backfill, AcceptPost, PostTurn, PostFails, ReceiveAck, TakeTurn,
         ResumeMerges, Expire
    <3>2. \/ UNCHANGED home
          \/ \E r \in Session : PostOutput(r) \/ \E t \in Turn : PostTurn(r, t)
      BY <2>4 DEF Next, hubVars, StartProcess, Resume, Starts, FindThread, KeepAlive, Quit, Crash,
         Drop, Reconnect, Backfill, AcceptPost, PostFails, ReceiveAck, TakeTurn, ResumeMerges,
         Expire
    <3>3. ASSUME NEW r \in Session, PostOutput(r) PROVE RowsOf(s) \subseteq RowsOf(s)'
      BY <2>3, <3>3 DEF PostOutput
    <3>4. ASSUME NEW r \in Session, NEW t \in Turn, PostTurn(r, t)
          PROVE  RowsOf(s) \subseteq RowsOf(s)'
      <4>1. CASE UNCHANGED home
        BY <4>1 DEF RowsOf
      <4>2. CASE \E i \in Id : InsertRow(r, i, t, "user")
        BY <2>3, <4>2
      <4> QED BY <3>4, <4>1, <4>2 DEF PostTurn
    <3>5. UNCHANGED home => RowsOf(s) \subseteq RowsOf(s)'
      BY DEF RowsOf
    <3> QED BY <2>1, <3>1, <3>2, <3>3, <3>4, <3>5
  <2> QED BY <2>2, <2>4
<1> QED BY <1>1, Inductive, PTL DEF Spec, DedupSparesLive

=============================================================================
