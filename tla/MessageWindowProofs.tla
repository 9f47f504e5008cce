------------------------- MODULE MessageWindowProofs -------------------------
(***************************************************************************)
(* What a browser shows of a turn, whatever order its optimistic copy, its *)
(* event on two streams, the pages and the answers of requests come in;    *)
(* where its newest row is, in a session only the agent writes in; and     *)
(* that a session that fits on a page is shown or on its way in full, and  *)
(* its invoked turns stay invoked.                                         *)
(***************************************************************************)
EXTENDS MessageWindow, FiniteSetTheorems, WellFoundedInduction, TLAPS

-----------------------------------------------------------------------------
(* Rows.                                                                   *)

IsRow(r) ==
    /\ r = [id |-> r.id, seq |-> r.seq, inv |-> r.inv, at |-> r.at, sent |-> r.sent]
    /\ r.id \in Int /\ r.inv \in BOOLEAN

\* The rows of R are rows, and the turns among them are turns of P.
RowsOf(R, P) == \A r \in R : IsRow(r) /\ (IsUser(r) => Local(r) \in P)
Stored(R) == \A r \in R : r.id > 0
Single(R) == \A q, r \in R : IsUser(q) /\ Local(q) = Local(r) => q = r
Distinct(R) == \A q, r \in R : IsUser(q) /\ q.id = r.id => q = r

LEMMA LocalIs ==
    ASSUME NEW r, r.id \in Int
    PROVE  /\ r.id > 0 => /\ IsUser(r) <=> r.id \in Turn
                          /\ IsUser(r) => Local(r) = r.id
                          /\ ~IsOptimistic(r)
           /\ r.id < 0 => IsUser(r) /\ Local(r) = -r.id /\ IsOptimistic(r)
           /\ r.id = 0 => ~IsUser(r)
           /\ IsUser(r) => Local(r) \in Nat \ {0}
BY WindowAssumption DEF Local, IsUser, IsOptimistic, Turn

\* A row keeps its turn when its other fields change.
LEMMA SameTurn ==
    ASSUME NEW q, NEW r, q.id = r.id
    PROVE  Local(q) = Local(r) /\ (IsUser(q) <=> IsUser(r)) /\ (IsOptimistic(q) <=> IsOptimistic(r))
BY DEF Local, IsUser, IsOptimistic

LEMMA Changed ==
    ASSUME NEW r, IsRow(r), NEW x, NEW s
    PROVE  /\ LET q == [r EXCEPT !.inv = TRUE, !.at = x] IN IsRow(q) /\ q.id = r.id /\ q.inv
           /\ LET q == [r EXCEPT !.sent = s] IN IsRow(q) /\ q.id = r.id /\ q.inv = r.inv
           /\ LET q == [r EXCEPT !.seq = x] IN IsRow(q) /\ q.id = r.id /\ q.inv = r.inv
           /\ LET q == [r EXCEPT !.sent = TRUE, !.inv = TRUE, !.at = x] IN
              IsRow(q) /\ q.id = r.id /\ q.inv
<1> DEFINE Row == [id : Int, seq : {r.seq, x}, inv : BOOLEAN, at : {r.at, x}, sent : {r.sent, s, TRUE}]
<1>1. r \in Row
  BY DEF IsRow
<1>2. \A q \in Row : IsRow(q)
  BY DEF IsRow
<1>3. LET q == [r EXCEPT !.inv = TRUE, !.at = x] IN q \in Row /\ q.id = r.id /\ q.inv
  BY <1>1
<1>4. LET q == [r EXCEPT !.sent = s] IN q \in Row /\ q.id = r.id /\ q.inv = r.inv
  BY <1>1
<1>5. LET q == [r EXCEPT !.seq = x] IN q \in Row /\ q.id = r.id /\ q.inv = r.inv
  BY <1>1
<1>6. LET q == [r EXCEPT !.sent = TRUE, !.inv = TRUE, !.at = x] IN q \in Row /\ q.id = r.id /\ q.inv
  BY <1>1
<1> QED BY <1>2, <1>3, <1>4, <1>5, <1>6

LEMMA NewRowIs ==
    ASSUME NEW i \in Int, NEW n, NEW b \in BOOLEAN, NEW x
    PROVE  LET r == NewRow(i, n, b, x) IN IsRow(r) /\ r.id = i /\ r.inv = b
BY DEF NewRow, IsRow

\* The same for a row of this browser and for a row that is already stored.
LEMMA OwnRowIs ==
    ASSUME NEW i \in Int, NEW n, NEW x
    PROVE  LET r == NewRow(i, n, FALSE, x) IN IsRow(r) /\ r.id = i
BY DEF NewRow, IsRow

LEMMA OldRowIs ==
    ASSUME NEW i \in Int, NEW n, NEW x
    PROVE  LET r == NewRow(i, n, TRUE, x) IN IsRow(r) /\ r.id = i
BY DEF NewRow, IsRow

LEMMA Fewer ==
    ASSUME NEW P, NEW R, NEW S \in SUBSET R, RowsOf(R, P)
    PROVE  /\ RowsOf(S, P)
           /\ Stored(R) => Stored(S)
           /\ Single(R) => Single(S)
BY DEF RowsOf, Stored, Single

LEMMA MoreTurns ==
    ASSUME NEW P, NEW Q, P \subseteq Q, NEW R, RowsOf(R, P)
    PROVE  RowsOf(R, Q)
BY DEF RowsOf

LEMMA StoredSingle ==
    ASSUME NEW P, NEW R, RowsOf(R, P), Stored(R)
    PROVE  Single(R) <=> Distinct(R)
<1>1. \A r \in R : IsUser(r) => Local(r) = r.id
  BY LocalIs DEF RowsOf, Stored, IsRow
<1>2. \A q, r \in R : IsUser(q) /\ Local(q) = Local(r) => IsUser(r)
  BY DEF IsUser
<1>3. \A q, r \in R : IsUser(q) => (q.id = r.id <=> Local(q) = Local(r))
  BY <1>1, <1>2, SameTurn
<1> QED BY <1>3 DEF Single, Distinct

LEMMA SingleDistinct ==
    ASSUME NEW R, Single(R)
    PROVE  Distinct(R)
BY SameTurn DEF Single, Distinct

-----------------------------------------------------------------------------
(* Merging.                                                                *)

LEMMA NewerIs ==
    ASSUME NEW old, NEW new, IsRow(new)
    PROVE  LET m == Newer(old, new) IN IsRow(m) /\ m.id = new.id /\ ((old.inv \/ new.inv) => m.inv)
BY Changed DEF Newer

LEMMA ByIdIs ==
    ASSUME NEW P, NEW E, NEW I, RowsOf(E, P), RowsOf(I, P), Distinct(E), Distinct(I)
    PROVE  /\ RowsOf(ById(E, I), P)
           /\ Distinct(ById(E, I))
           /\ \A b \in ById(E, I) : \/ b \in E /\ b.id \notin Ids(I)
                                    \/ b.id \in Ids(I)
<1> DEFINE F(i) == LET same == {e \in E : e.id = i.id} IN
                   IF same = {} THEN i ELSE Newer(CHOOSE e \in same : TRUE, i)
           B == ById(E, I)
<1>1. B = {e \in E : e.id \notin Ids(I)} \cup {F(i) : i \in I}
  BY DEF ById
<1>2. \A i \in I : IsRow(F(i)) /\ F(i).id = i.id
  BY NewerIs DEF RowsOf
<1> HIDE DEF F, B
<1>3. ASSUME NEW b \in B
      PROVE  \/ b \in E /\ b.id \notin Ids(I)
             \/ \E i \in I : b = F(i)
  BY <1>1
<1>4. \A b \in B : \/ b \in E /\ b.id \notin Ids(I)
                   \/ b.id \in Ids(I)
  BY <1>2, <1>3 DEF Ids
<1>5. RowsOf(B, P)
  <2> SUFFICES ASSUME NEW b \in B
               PROVE  IsRow(b) /\ (IsUser(b) => Local(b) \in P)
    BY DEF RowsOf
  <2>1. CASE b \in E
    BY <2>1 DEF RowsOf
  <2>2. ASSUME NEW i \in I, b = F(i)
        PROVE  IsRow(b) /\ (IsUser(b) => Local(b) \in P)
    <3>1. IsRow(b) /\ b.id = i.id
      BY <1>2, <2>2
    <3> QED BY <3>1, SameTurn DEF RowsOf
  <2> QED BY <1>3, <2>1, <2>2
<1>6. Distinct(B)
  <2> SUFFICES ASSUME NEW q \in B, NEW r \in B, IsUser(q), q.id = r.id
               PROVE  q = r
    BY DEF Distinct
  <2>1. CASE q.id \notin Ids(I)
    <3>1. q \in E /\ r \in E
      BY <1>4, <2>1
    <3> QED BY <3>1 DEF Distinct
  <2>2. CASE q.id \in Ids(I)
    <3>1. PICK i \in I : q = F(i)
      BY <1>3, <2>2
    <3>2. PICK j \in I : r = F(j)
      BY <1>3, <2>2
    <3>3. i.id = q.id /\ j.id = q.id
      BY <1>2, <3>1, <3>2
    <3>4. i = j
      BY <3>3, SameTurn DEF Distinct
    <3> QED BY <3>1, <3>2, <3>4
  <2> QED BY <2>1, <2>2
<1> QED BY <1>4, <1>5, <1>6 DEF B

\* A turn of which B has both copies is one of T.
PairsAreIn(B, T) == \A q, o \in B : q.id \in Turn /\ o.id = -q.id => q.id \in T

\* Settling leaves one row per turn if every turn that has both copies is among
\* those that were stored.
LEMMA SettleIs ==
    ASSUME NEW P, NEW B, NEW T, RowsOf(B, P), Distinct(B), PairsAreIn(B, T)
    PROVE  /\ RowsOf(Settle(B, T), P)
           /\ Single(Settle(B, T))
           /\ Ids(Settle(B, T)) \subseteq Ids(B)
<1> DEFINE gone == {r \in B : IsOptimistic(r) /\ Local(r) \in T}
           F(r) == IF \E o \in gone : Local(o) = Local(r)
                   THEN Adopt(r, CHOOSE o \in gone : Local(o) = Local(r))
                   ELSE r
           M == Settle(B, T)
<1>1. \A m \in M : \E r \in B \ gone : m = F(r)
  BY DEF Settle
<1>2. ASSUME NEW r \in B
      PROVE  IsRow(F(r)) /\ F(r).id = r.id
  <2>1. IsRow(r)
    BY DEF RowsOf
  <2>2. ASSUME NEW o
        PROVE  IsRow(Adopt(r, o)) /\ Adopt(r, o).id = r.id
    <3> DEFINE t == r.sent \/ o.sent
               s == [r EXCEPT !.sent = t]
    <3> HIDE DEF t
    <3>1. IsRow(s) /\ s.id = r.id
      BY <2>1, Changed
    <3> HIDE DEF s
    <3>2. IsRow([s EXCEPT !.inv = TRUE, !.at = o.at]) /\ [s EXCEPT !.inv = TRUE, !.at = o.at].id = s.id
      BY <3>1, Changed
    <3>3. Adopt(r, o) = IF o.inv /\ ~r.inv THEN [s EXCEPT !.inv = TRUE, !.at = o.at] ELSE s
      BY DEF Adopt, s, t
    <3> QED BY <3>1, <3>2, <3>3
  <2> QED BY <2>1, <2>2
<1> HIDE DEF F, M
<1>3. ASSUME NEW m \in M
      PROVE  IsRow(m) /\ (IsUser(m) => Local(m) \in P) /\ \E r \in B : m.id = r.id
  <2>1. PICK r \in B \ gone : m = F(r)
    BY <1>1
  <2>2. IsRow(m) /\ m.id = r.id
    BY <1>2, <2>1
  <2> QED BY <2>1, <2>2, SameTurn DEF RowsOf
<1>4. ASSUME NEW q \in B \ gone, NEW r \in B \ gone, IsUser(q), Local(q) = Local(r)
      PROVE  q = r
  <2>1. IsUser(r) /\ q.id \in Int /\ r.id \in Int
    BY <1>4 DEF RowsOf, IsRow, IsUser
  <2>2. CASE q.id = r.id
    BY <1>4, <2>2 DEF Distinct
  <2>3. ASSUME NEW a \in B, NEW o \in B \ gone, IsUser(a), Local(a) = Local(o), a.id > 0, o.id < 0,
               a.id \in Int, o.id \in Int
        PROVE  FALSE
    <3>1. a.id \in Turn /\ o.id = -a.id /\ IsOptimistic(o) /\ Local(o) = a.id
      BY <2>3, LocalIs
    <3>2. a.id \in T
      BY <2>3, <3>1 DEF PairsAreIn
    <3> QED BY <2>3, <3>1, <3>2
  <2>4. CASE q.id # r.id
    <3>1. (q.id > 0 /\ r.id < 0) \/ (q.id < 0 /\ r.id > 0)
      BY <1>4, <2>1, <2>4, LocalIs
    <3> QED BY <1>4, <2>1, <2>3, <3>1
  <2> QED BY <2>2, <2>4
<1>5. Single(M)
  <2> SUFFICES ASSUME NEW q \in M, NEW r \in M, IsUser(q), Local(q) = Local(r)
               PROVE  q = r
    BY DEF Single
  <2>1. PICK a \in B \ gone : q = F(a)
    BY <1>1
  <2>2. PICK b \in B \ gone : r = F(b)
    BY <1>1
  <2>3. q.id = a.id /\ r.id = b.id
    BY <1>2, <2>1, <2>2
  <2>4. IsUser(a) /\ Local(a) = Local(b)
    BY <2>3, SameTurn
  <2> QED BY <1>4, <2>1, <2>2, <2>4
<1>6. RowsOf(M, P) /\ Ids(M) \subseteq Ids(B)
  BY <1>3 DEF RowsOf, Ids
<1> QED BY <1>5, <1>6 DEF M

LEMMA StoredLocalsIs ==
    ASSUME NEW P, NEW I, RowsOf(I, P), NEW q, q.id \in Turn, q.id \in Ids(I)
    PROVE  q.id \in StoredLocals(I)
<1>1. PICK i \in I : i.id = q.id
  BY DEF Ids
<1>2. i.id \in Int /\ i.id > 0
  BY <1>1, WindowAssumption DEF RowsOf, IsRow, Turn
<1> QED BY <1>1, <1>2, LocalIs DEF StoredLocals

\* Rows of the hub joined with rows that show each turn once: who then has both
\* copies was among them.
LEMMA JoinedIs ==
    ASSUME NEW P, NEW E, NEW I, RowsOf(E, P), RowsOf(I, P), Single(E), Single(I), Stored(I)
    PROVE  /\ RowsOf(ById(E, I), P) /\ Distinct(ById(E, I))
           /\ \A b \in ById(E, I) : (b \in E /\ b.id \notin Ids(I)) \/ b.id \in Ids(I)
           /\ PairsAreIn(ById(E, I), StoredLocals(I))
<1> DEFINE B == ById(E, I)
           T == StoredLocals(I)
<1>1. Distinct(E) /\ Distinct(I)
  BY SingleDistinct
<1>2. RowsOf(B, P) /\ Distinct(B)
  BY <1>1, ByIdIs
<1>3. \A b \in B : (b \in E /\ b.id \notin Ids(I)) \/ b.id \in Ids(I)
  BY <1>1, ByIdIs
<1> HIDE DEF B, T
<1>4. ASSUME NEW q \in B, NEW o \in B, q.id \in Turn, o.id = -q.id
      PROVE  q.id \in T
  <2>1. q.id > 0 /\ o.id < 0 /\ q.id \in Int /\ o.id \in Int
    BY <1>4, WindowAssumption DEF Turn
  <2>2. o \in E
    BY <1>3, <2>1 DEF Stored, Ids
  <2>3. IsUser(q) /\ Local(q) = Local(o)
    BY <1>4, <2>1, LocalIs
  <2>4. q \notin E
    BY <2>1, <2>2, <2>3 DEF Single
  <2>5. q.id \in Ids(I)
    BY <1>3, <2>4
  <2> QED BY <1>4, <2>5, StoredLocalsIs DEF T
<1>5. PairsAreIn(B, T)
  BY <1>4 DEF PairsAreIn
<1> QED BY <1>2, <1>3, <1>5 DEF B, T

\* Rows of the hub merged into rows that show each turn once.
LEMMA MergeIs ==
    ASSUME NEW P, NEW E, NEW I, RowsOf(E, P), RowsOf(I, P), Single(E), Single(I), Stored(I)
    PROVE  /\ RowsOf(MergeRows(E, I), P)
           /\ Single(MergeRows(E, I))
           /\ Stored(E) => Stored(MergeRows(E, I))
<1>1. CASE I = {}
  BY <1>1 DEF MergeRows
<1>2. CASE I # {}
  <2> DEFINE B == ById(E, I)
             T == StoredLocals(I)
  <2>1. /\ RowsOf(B, P) /\ Distinct(B) /\ PairsAreIn(B, T)
        /\ \A b \in B : (b \in E /\ b.id \notin Ids(I)) \/ b.id \in Ids(I)
    BY JoinedIs
  <2>2. MergeRows(E, I) = Settle(B, T)
    BY <1>2 DEF MergeRows
  <2> HIDE DEF B, T
  <2>3. RowsOf(Settle(B, T), P) /\ Single(Settle(B, T)) /\ Ids(Settle(B, T)) \subseteq Ids(B)
    BY <2>1, SettleIs
  <2>4. Stored(E) => Stored(B)
    BY <2>1 DEF Stored, Ids
  <2> QED BY <2>2, <2>3, <2>4 DEF Stored, Ids
<1> QED BY <1>1, <1>2

\* An optimistic copy of a turn of which there is no row yet.
LEMMA MergeFresh ==
    ASSUME NEW P, NEW E, NEW r, RowsOf(E, P), Single(E), IsRow(r), r.id < 0, Local(r) \in P,
           \A e \in E : Local(e) # Local(r)
    PROVE  /\ RowsOf(MergeRows(E, {r}), P) /\ Single(MergeRows(E, {r}))
           /\ RowsOf(E \cup {r}, P) /\ Single(E \cup {r})
           /\ MergeRows(E, {r}) = Settle(E \cup {r}, {})
<1>1. RowsOf({r}, P) /\ Single({r}) /\ IsUser(r) /\ Local(r) = -r.id /\ r.id \in Int
  BY LocalIs DEF RowsOf, Single, IsRow
<1>2. RowsOf(E \cup {r}, P) /\ Single(E \cup {r})
  BY <1>1 DEF RowsOf, Single
<1>3. ById(E, {r}) = E \cup {r}
  <2>1. \A e \in E : e.id # r.id
    BY SameTurn
  <2> QED BY <2>1 DEF ById, Ids
<1>4. StoredLocals({r}) = {}
  BY <1>1, LocalIs DEF StoredLocals
<1>5. MergeRows(E, {r}) = Settle(E \cup {r}, {})
  BY <1>3, <1>4 DEF MergeRows
<1>6. Settle(E \cup {r}, {}) \subseteq E \cup {r}
  BY DEF Settle
<1> QED BY <1>2, <1>5, <1>6, Fewer

-----------------------------------------------------------------------------
(* Windows.                                                                *)

IsWindow(v) ==
    v = [msgs |-> v.msgs, pending |-> v.pending, spilled |-> v.spilled, hasMore |-> v.hasMore,
         hasNewer |-> v.hasNewer, oldest |-> v.oldest, newest |-> v.newest,
         atBottom |-> v.atBottom, frontier |-> v.frontier]

\* Rows kept back are rows of the hub; neither the thread nor what is kept back
\* has a turn twice; and the thread reaches the newest row.
WindowOf(v, P) ==
    /\ IsWindow(v)
    /\ RowsOf(v.msgs, P) /\ Single(v.msgs)
    /\ RowsOf(v.pending, P) /\ Single(v.pending) /\ Stored(v.pending)
    /\ ~v.hasNewer

\* What assignments to some fields leave.
LEMMA FrontierSet ==
    ASSUME NEW v, IsWindow(v), NEW x
    PROVE  LET u == [v EXCEPT !.frontier = x] IN
           IsWindow(u) /\ u.msgs = v.msgs /\ u.pending = v.pending /\ (u.hasNewer <=> v.hasNewer)
           /\ (u.hasMore <=> v.hasMore) /\ (u.spilled <=> v.spilled)
<1> DEFINE W == [msgs : {v.msgs}, pending : {v.pending}, spilled : {v.spilled},
                 hasMore : {v.hasMore}, hasNewer : {v.hasNewer}, oldest : {v.oldest},
                 newest : {v.newest}, atBottom : {v.atBottom}, frontier : {v.frontier, x}]
<1>1. v \in W
  BY DEF IsWindow
<1>2. LET u == [v EXCEPT !.frontier = x] IN
      u \in W /\ u.msgs = v.msgs /\ u.pending = v.pending /\ (u.hasNewer <=> v.hasNewer)
      /\ (u.hasMore <=> v.hasMore) /\ (u.spilled <=> v.spilled)
  BY <1>1
<1>3. \A u \in W : IsWindow(u)
  BY DEF IsWindow
<1> QED BY <1>2, <1>3

LEMMA PositionSet ==
    ASSUME NEW v, IsWindow(v), NEW x
    PROVE  LET u == [v EXCEPT !.atBottom = x] IN
           IsWindow(u) /\ u.msgs = v.msgs /\ u.pending = v.pending /\ (u.hasNewer <=> v.hasNewer)
           /\ (u.hasMore <=> v.hasMore) /\ (u.spilled <=> v.spilled)
<1> DEFINE W == [msgs : {v.msgs}, pending : {v.pending}, spilled : {v.spilled},
                 hasMore : {v.hasMore}, hasNewer : {v.hasNewer}, oldest : {v.oldest},
                 newest : {v.newest}, atBottom : {v.atBottom, x}, frontier : {v.frontier}]
<1>1. v \in W
  BY DEF IsWindow
<1>2. LET u == [v EXCEPT !.atBottom = x] IN
      u \in W /\ u.msgs = v.msgs /\ u.pending = v.pending /\ (u.hasNewer <=> v.hasNewer)
      /\ (u.hasMore <=> v.hasMore) /\ (u.spilled <=> v.spilled)
  BY <1>1
<1>3. \A u \in W : IsWindow(u)
  BY DEF IsWindow
<1> QED BY <1>2, <1>3

LEMMA ThreadSet ==
    ASSUME NEW v, IsWindow(v), NEW m
    PROVE  LET u == [v EXCEPT !.msgs = m] IN
           IsWindow(u) /\ u.msgs = m /\ u.pending = v.pending /\ (u.hasNewer <=> v.hasNewer)
           /\ (u.hasMore <=> v.hasMore) /\ (u.spilled <=> v.spilled)
<1> DEFINE W == [msgs : {v.msgs, m}, pending : {v.pending}, spilled : {v.spilled},
                 hasMore : {v.hasMore}, hasNewer : {v.hasNewer}, oldest : {v.oldest},
                 newest : {v.newest}, atBottom : {v.atBottom}, frontier : {v.frontier}]
<1>1. v \in W
  BY DEF IsWindow
<1>2. LET u == [v EXCEPT !.msgs = m] IN
      u \in W /\ u.msgs = m /\ u.pending = v.pending /\ (u.hasNewer <=> v.hasNewer)
      /\ (u.hasMore <=> v.hasMore) /\ (u.spilled <=> v.spilled)
  BY <1>1
<1>3. \A u \in W : IsWindow(u)
  BY DEF IsWindow
<1> QED BY <1>2, <1>3

LEMMA PendingSet ==
    ASSUME NEW v, IsWindow(v), NEW p
    PROVE  LET u == [v EXCEPT !.pending = p] IN
           IsWindow(u) /\ u.msgs = v.msgs /\ u.pending = p /\ (u.hasNewer <=> v.hasNewer)
           /\ (u.hasMore <=> v.hasMore) /\ (u.spilled <=> v.spilled)
<1> DEFINE W == [msgs : {v.msgs}, pending : {v.pending, p}, spilled : {v.spilled},
                 hasMore : {v.hasMore}, hasNewer : {v.hasNewer}, oldest : {v.oldest},
                 newest : {v.newest}, atBottom : {v.atBottom}, frontier : {v.frontier}]
<1>1. v \in W
  BY DEF IsWindow
<1>2. LET u == [v EXCEPT !.pending = p] IN
      u \in W /\ u.msgs = v.msgs /\ u.pending = p /\ (u.hasNewer <=> v.hasNewer)
      /\ (u.hasMore <=> v.hasMore) /\ (u.spilled <=> v.spilled)
  BY <1>1
<1>3. \A u \in W : IsWindow(u)
  BY DEF IsWindow
<1> QED BY <1>2, <1>3

LEMMA BothSet ==
    ASSUME NEW v, IsWindow(v), NEW m, NEW p
    PROVE  LET u == [v EXCEPT !.msgs = m, !.pending = p] IN
           IsWindow(u) /\ u.msgs = m /\ u.pending = p /\ (u.hasNewer <=> v.hasNewer)
           /\ (u.hasMore <=> v.hasMore) /\ (u.spilled <=> v.spilled)
<1> DEFINE W == [msgs : {v.msgs, m}, pending : {v.pending, p}, spilled : {v.spilled},
                 hasMore : {v.hasMore}, hasNewer : {v.hasNewer}, oldest : {v.oldest},
                 newest : {v.newest}, atBottom : {v.atBottom}, frontier : {v.frontier}]
<1>1. v \in W
  BY DEF IsWindow
<1>2. LET u == [v EXCEPT !.msgs = m, !.pending = p] IN
      u \in W /\ u.msgs = m /\ u.pending = p /\ (u.hasNewer <=> v.hasNewer)
      /\ (u.hasMore <=> v.hasMore) /\ (u.spilled <=> v.spilled)
  BY <1>1
<1>3. \A u \in W : IsWindow(u)
  BY DEF IsWindow
<1> QED BY <1>2, <1>3

LEMMA SpilledSet ==
    ASSUME NEW v, IsWindow(v), NEW p, NEW b
    PROVE  LET u == [v EXCEPT !.pending = p, !.spilled = b] IN
           IsWindow(u) /\ u.msgs = v.msgs /\ u.pending = p /\ (u.hasNewer <=> v.hasNewer)
           /\ (u.hasMore <=> v.hasMore) /\ u.spilled = b
<1> DEFINE W == [msgs : {v.msgs}, pending : {v.pending, p}, spilled : {v.spilled, b},
                 hasMore : {v.hasMore}, hasNewer : {v.hasNewer}, oldest : {v.oldest},
                 newest : {v.newest}, atBottom : {v.atBottom}, frontier : {v.frontier}]
<1>1. v \in W
  BY DEF IsWindow
<1>2. LET u == [v EXCEPT !.pending = p, !.spilled = b] IN
      u \in W /\ u.msgs = v.msgs /\ u.pending = p /\ (u.hasNewer <=> v.hasNewer)
      /\ (u.hasMore <=> v.hasMore) /\ u.spilled = b
  BY <1>1
<1>3. \A u \in W : IsWindow(u)
  BY DEF IsWindow
<1> QED BY <1>2, <1>3

LEMMA TrimmedSet ==
    ASSUME NEW v, IsWindow(v), NEW m, NEW x, NEW y, NEW z
    PROVE  LET u == [v EXCEPT !.msgs = m, !.hasNewer = FALSE, !.newest = x, !.hasMore = y, !.oldest = z] IN
           IsWindow(u) /\ u.msgs = m /\ u.pending = v.pending /\ ~u.hasNewer
           /\ (u.hasMore <=> y) /\ (u.spilled <=> v.spilled)
<1> DEFINE W == [msgs : {v.msgs, m}, pending : {v.pending}, spilled : {v.spilled},
                 hasMore : {v.hasMore, y}, hasNewer : {v.hasNewer, FALSE}, oldest : {v.oldest, z},
                 newest : {v.newest, x}, atBottom : {v.atBottom}, frontier : {v.frontier}]
<1>1. v \in W
  BY DEF IsWindow
<1>2. LET u == [v EXCEPT !.msgs = m, !.hasNewer = FALSE, !.newest = x, !.hasMore = y, !.oldest = z] IN
      u \in W /\ u.msgs = m /\ u.pending = v.pending /\ ~u.hasNewer
      /\ (u.hasMore <=> y) /\ (u.spilled <=> v.spilled)
  BY <1>1
<1>3. \A u \in W : IsWindow(u)
  BY DEF IsWindow
<1> QED BY <1>2, <1>3

\* A thread in place of another one.
Replaced(v, m, p, h, x, y) ==
    [v EXCEPT !.msgs = m, !.pending = p, !.spilled = FALSE, !.hasMore = h, !.hasNewer = FALSE,
              !.oldest = x, !.newest = y]

LEMMA ReplacedSet ==
    ASSUME NEW v, IsWindow(v), NEW m, NEW p, NEW h, NEW x, NEW y
    PROVE  LET u == Replaced(v, m, p, h, x, y) IN
           IsWindow(u) /\ u.msgs = m /\ u.pending = p /\ ~u.hasNewer
           /\ (u.hasMore <=> h) /\ ~u.spilled
<1> DEFINE W == [msgs : {v.msgs, m}, pending : {v.pending, p}, spilled : {v.spilled, FALSE},
                 hasMore : {v.hasMore, h}, hasNewer : {v.hasNewer, FALSE}, oldest : {v.oldest, x},
                 newest : {v.newest, y}, atBottom : {v.atBottom}, frontier : {v.frontier}]
<1>1. v \in W
  BY DEF IsWindow
<1>2. LET u == Replaced(v, m, p, h, x, y) IN
      u \in W /\ u.msgs = m /\ u.pending = p /\ ~u.hasNewer
      /\ (u.hasMore <=> h) /\ ~u.spilled
  BY <1>1 DEF Replaced
<1>3. \A u \in W : IsWindow(u)
  BY DEF IsWindow
<1> QED BY <1>2, <1>3

LEMMA EmptiedSet ==
    ASSUME NEW v, IsWindow(v), NEW p
    PROVE  LET u == [v EXCEPT !.pending = p, !.spilled = FALSE] IN
           IsWindow(u) /\ u.msgs = v.msgs /\ u.pending = p /\ (u.hasNewer <=> v.hasNewer)
           /\ (u.hasMore <=> v.hasMore) /\ ~u.spilled
<1> DEFINE W == [msgs : {v.msgs}, pending : {v.pending, p}, spilled : {v.spilled, FALSE},
                 hasMore : {v.hasMore}, hasNewer : {v.hasNewer}, oldest : {v.oldest},
                 newest : {v.newest}, atBottom : {v.atBottom}, frontier : {v.frontier}]
<1>1. v \in W
  BY DEF IsWindow
<1>2. LET u == [v EXCEPT !.pending = p, !.spilled = FALSE] IN
      u \in W /\ u.msgs = v.msgs /\ u.pending = p /\ (u.hasNewer <=> v.hasNewer)
      /\ (u.hasMore <=> v.hasMore) /\ ~u.spilled
  BY <1>1
<1>3. \A u \in W : IsWindow(u)
  BY DEF IsWindow
<1> QED BY <1>2, <1>3

LEMMA BuildIs ==
    ASSUME NEW v, IsWindow(v)
    PROVE  LET u == Build(v) IN
           IsWindow(u) /\ u.msgs = v.msgs /\ u.pending = v.pending /\ (u.hasNewer <=> v.hasNewer)
           /\ (u.hasMore <=> v.hasMore) /\ (u.spilled <=> v.spilled)
BY FrontierSet DEF Build

LEMMA BuildOk ==
    ASSUME NEW P, NEW v, WindowOf(v, P)
    PROVE  WindowOf(Build(v), P)
BY BuildIs DEF WindowOf

LEMMA AppendTrimIs ==
    ASSUME NEW v, IsWindow(v), NEW merged
    PROVE  LET u == AppendTrim(v, merged) IN
           IsWindow(u) /\ u.msgs = Newest(merged, WindowSize) /\ u.pending = v.pending /\ ~u.hasNewer
           /\ (u.hasMore <=> v.hasMore \/ merged # Newest(merged, WindowSize)) /\ (u.spilled <=> v.spilled)
<1> DEFINE kept == Newest(merged, WindowSize)
           x == Highest(Stamps(kept))
           y == v.hasMore \/ merged # kept
           z == IF merged # kept /\ Stamps(kept) # {} THEN Lowest(Stamps(kept)) ELSE v.oldest
<1>1. AppendTrim(v, merged)
        = [v EXCEPT !.msgs = kept, !.hasNewer = FALSE, !.newest = x, !.hasMore = y, !.oldest = z]
  BY DEF AppendTrim
<1> HIDE DEF kept, x, y, z
<1>2. LET u == [v EXCEPT !.msgs = kept, !.hasNewer = FALSE, !.newest = x, !.hasMore = y, !.oldest = z] IN
      IsWindow(u) /\ u.msgs = kept /\ u.pending = v.pending /\ ~u.hasNewer
      /\ (u.hasMore <=> y) /\ (u.spilled <=> v.spilled)
  BY TrimmedSet
<1> QED BY <1>1, <1>2 DEF kept, y

LEMMA NewestIn == ASSUME NEW R, NEW n PROVE Newest(R, n) \in SUBSET R
BY DEF Newest

LEMMA AppendTrimOk ==
    ASSUME NEW P, NEW v, WindowOf(v, P), NEW merged, RowsOf(merged, P), Single(merged)
    PROVE  WindowOf(AppendTrim(v, merged), P)
BY AppendTrimIs, NewestIn, Fewer DEF WindowOf

LEMMA PendingLess ==
    ASSUME NEW P, NEW v, WindowOf(v, P), NEW p \in SUBSET v.pending
    PROVE  WindowOf([v EXCEPT !.pending = p], P)
BY PendingSet, Fewer DEF WindowOf

LEMMA AppendOk ==
    ASSUME NEW P, NEW v, WindowOf(v, P), NEW rows, RowsOf(rows, P), Single(rows), Stored(rows)
    PROVE  WindowOf(Append2(v, rows), P)
<1> DEFINE merged == MergeRows(v.msgs, rows)
           u == AppendTrim(v, merged)
           p == {r \in v.pending : r.id \notin Ids(u.msgs)}
<1>1. RowsOf(merged, P) /\ Single(merged)
  BY MergeIs DEF WindowOf
<1> HIDE DEF merged
<1>2. WindowOf(u, P) /\ u.pending = v.pending
  BY <1>1, AppendTrimOk, AppendTrimIs DEF WindowOf
<1> HIDE DEF u
<1>3. p \in SUBSET u.pending
  BY <1>2
<1>4. Append2(v, rows) = Build([u EXCEPT !.pending = p])
  BY DEF Append2, u, merged
<1> HIDE DEF p
<1> QED BY <1>2, <1>3, <1>4, PendingLess, BuildOk

LEMMA IntoPendingOk ==
    ASSUME NEW P, NEW v, WindowOf(v, P), NEW rows, RowsOf(rows, P), Single(rows), Stored(rows)
    PROVE  WindowOf(IntoPending(v, rows), P)
<1> DEFINE merged == MergeRows(v.pending, rows)
           all == {r \in merged : r.id \notin Ids(v.msgs)}
           kept == Newest(all, PendingSize)
           b == v.spilled \/ all # kept
<1>1. RowsOf(merged, P) /\ Single(merged) /\ Stored(merged)
  BY MergeIs DEF WindowOf
<1> HIDE DEF merged
<1>2. kept \in SUBSET merged
  BY NewestIn
<1>3. IntoPending(v, rows) = IF rows = {} THEN v ELSE Build([v EXCEPT !.pending = kept, !.spilled = b])
  BY DEF IntoPending, merged
<1> HIDE DEF kept, b, all
<1>4. WindowOf([v EXCEPT !.pending = kept, !.spilled = b], P)
  <2>1. LET u == [v EXCEPT !.pending = kept, !.spilled = b] IN
        IsWindow(u) /\ u.msgs = v.msgs /\ u.pending = kept /\ (u.hasNewer <=> v.hasNewer)
    <3>1. IsWindow(v)
      BY DEF WindowOf
    <3>2. \A q, c : LET u == [v EXCEPT !.pending = q, !.spilled = c] IN
                    IsWindow(u) /\ u.msgs = v.msgs /\ u.pending = q /\ (u.hasNewer <=> v.hasNewer)
                    /\ (u.hasMore <=> v.hasMore) /\ u.spilled = c
      BY <3>1, SpilledSet
    <3> QED BY <3>2
  <2>2. RowsOf(kept, P) /\ Single(kept) /\ Stored(kept)
    BY <1>1, <1>2, Fewer
  <2> QED BY <2>1, <2>2 DEF WindowOf
<1> QED BY <1>3, <1>4, BuildOk

LEMMA IngestOk ==
    ASSUME NEW P, NEW v, WindowOf(v, P), NEW rows, RowsOf(rows, P), Single(rows), Stored(rows)
    PROVE  WindowOf(Ingest(v, rows), P)
<1> DEFINE shown == {r \in rows : \/ r.id \in Ids(v.msgs)
                                  \/ IsUser(r) /\ Local(r) \in {Local(m) : m \in v.msgs}}
           turns == {r \in rows : IsUser(r)}
           output == rows \ turns
           late == v.hasNewer \/ (~v.atBottom /\ Cardinality(v.msgs) + Cardinality(rows \ shown) > WindowSize)
           m == MergeRows(v.msgs, shown)
           back == IF output = {} THEN v ELSE Append2(v, output)
<1>1. Ingest(v, rows) = IF late THEN IntoPending(Build([v EXCEPT !.msgs = m]), rows \ shown)
                        ELSE IF v.atBottom THEN Append2(v, rows)
                        ELSE IntoPending(back, turns)
  BY DEF Ingest
<1>2. shown \in SUBSET rows /\ turns \in SUBSET rows /\ output \in SUBSET rows /\ (rows \ shown) \in SUBSET rows
  OBVIOUS
<1> HIDE DEF shown, turns, output, late
<1>3. \A R \in SUBSET rows : RowsOf(R, P) /\ Single(R) /\ Stored(R)
  BY Fewer
<1>4. RowsOf(m, P) /\ Single(m)
  BY <1>2, <1>3, MergeIs DEF WindowOf
<1> HIDE DEF m
<1>5. WindowOf([v EXCEPT !.msgs = m], P)
  BY <1>4, ThreadSet DEF WindowOf
<1>6. WindowOf(IntoPending(Build([v EXCEPT !.msgs = m]), rows \ shown), P)
  BY <1>2, <1>3, <1>5, BuildOk, IntoPendingOk
<1>7. WindowOf(Append2(v, rows), P)
  BY AppendOk
<1>8. WindowOf(back, P)
  BY <1>2, <1>3, AppendOk
<1> HIDE DEF back
<1>9. WindowOf(IntoPending(back, turns), P)
  BY <1>2, <1>3, <1>8, IntoPendingOk
<1> QED BY <1>1, <1>6, <1>7, <1>9

\* Rows of which other fields than the id have changed.
LEMMA MappedOk ==
    ASSUME NEW P, NEW R, RowsOf(R, P), NEW f, \A r \in R : IsRow(f[r]) /\ f[r].id = r.id
    PROVE  LET U == {f[r] : r \in R} IN
           /\ RowsOf(U, P)
           /\ Single(R) => Single(U)
           /\ Stored(R) => Stored(U)
<1> DEFINE U == {f[r] : r \in R}
<1>1. \A u \in U : \E r \in R : u = f[r] /\ u.id = r.id /\ IsRow(u)
  OBVIOUS
<1>2. RowsOf(U, P)
  BY <1>1, SameTurn DEF RowsOf
<1>3. Single(R) => Single(U)
  <2> SUFFICES ASSUME Single(R), NEW q \in U, NEW r \in U, IsUser(q), Local(q) = Local(r)
               PROVE  q = r
    BY DEF Single
  <2>1. PICK a \in R : q = f[a] /\ q.id = a.id
    BY <1>1
  <2>2. PICK b \in R : r = f[b] /\ r.id = b.id
    BY <1>1
  <2>3. IsUser(a) /\ Local(a) = Local(b)
    BY <2>1, <2>2, SameTurn
  <2> QED BY <2>1, <2>2, <2>3 DEF Single
<1>4. Stored(R) => Stored(U)
  BY <1>1 DEF Stored
<1> QED BY <1>2, <1>3, <1>4

LEMMA NoRows == ASSUME NEW P PROVE RowsOf({}, P) /\ Single({}) /\ Stored({})
BY DEF RowsOf, Single, Stored

LEMMA ConsumedOk ==
    ASSUME NEW P, NEW v, WindowOf(v, P), NEW k, NEW at
    PROVE  WindowOf(Consumed(v, k, at), P)
<1> DEFINE x(r) == IF r.inv THEN r.at ELSE at
           g(r) == IF Local(r) = k THEN [r EXCEPT !.sent = TRUE, !.inv = TRUE, !.at = x(r)] ELSE r
           upd(R) == {g(r) : r \in R}
           moved == {r \in upd(v.pending) : Local(r) = k /\ r.at = at}
           rest == upd(v.pending) \ moved
           p == MergeRows({}, rest)
           m == MergeRows(upd(v.msgs), moved)
<1>1. ASSUME NEW R, RowsOf(R, P)
      PROVE  /\ RowsOf(upd(R), P)
             /\ Single(R) => Single(upd(R))
             /\ Stored(R) => Stored(upd(R))
  <2> DEFINE f == [r \in R |-> g(r)]
  <2>1. \A r \in R : IsRow(g(r)) /\ g(r).id = r.id
    <3> SUFFICES ASSUME NEW r \in R PROVE IsRow(g(r)) /\ g(r).id = r.id
      OBVIOUS
    <3>1. IsRow(r)
      BY <1>1 DEF RowsOf
    <3> HIDE DEF x
    <3>2. IsRow([r EXCEPT !.sent = TRUE, !.inv = TRUE, !.at = x(r)])
          /\ [r EXCEPT !.sent = TRUE, !.inv = TRUE, !.at = x(r)].id = r.id
      BY <3>1, Changed
    <3> QED BY <3>1, <3>2
  <2> HIDE DEF g
  <2>2. \A r \in R : IsRow(f[r]) /\ f[r].id = r.id
    BY <2>1
  <2>3. upd(R) = {f[r] : r \in R}
    OBVIOUS
  <2> HIDE DEF f, upd
  <2> QED BY <1>1, <2>2, <2>3, MappedOk
<1>2. Consumed(v, k, at)
        = IF \A r \in v.msgs \cup v.pending : Local(r) = k => r.inv /\ r.sent THEN v
          ELSE Build(AppendTrim([v EXCEPT !.pending = p], m))
  BY DEF Consumed
<1> HIDE DEF g, upd
<1>3. /\ RowsOf(upd(v.msgs), P) /\ Single(upd(v.msgs))
      /\ RowsOf(upd(v.pending), P) /\ Single(upd(v.pending)) /\ Stored(upd(v.pending))
  BY <1>1 DEF WindowOf
<1>4. moved \in SUBSET upd(v.pending) /\ rest \in SUBSET upd(v.pending)
  OBVIOUS
<1> HIDE DEF moved, rest
<1>5. RowsOf(moved, P) /\ Single(moved) /\ Stored(moved) /\ RowsOf(rest, P) /\ Single(rest) /\ Stored(rest)
  BY <1>3, <1>4, Fewer
<1>6. RowsOf(m, P) /\ Single(m)
  BY <1>3, <1>5, MergeIs
<1>7. RowsOf(p, P) /\ Single(p) /\ Stored(p)
  BY <1>5, NoRows, MergeIs
<1> HIDE DEF m, p
<1>8. WindowOf([v EXCEPT !.pending = p], P)
  BY <1>7, PendingSet DEF WindowOf
<1> QED BY <1>2, <1>6, <1>8, AppendTrimOk, BuildOk

LEMMA WithoutOk ==
    ASSUME NEW P, NEW v, WindowOf(v, P), NEW ids
    PROVE  WindowOf(Without(v, ids), P)
<1> DEFINE m == {r \in v.msgs : r.id \notin ids}
           p == {r \in v.pending : r.id \notin ids}
<1>1. m \in SUBSET v.msgs /\ p \in SUBSET v.pending
  OBVIOUS
<1>2. Without(v, ids) = Build([v EXCEPT !.msgs = m, !.pending = p])
  BY DEF Without
<1> HIDE DEF m, p
<1>3. RowsOf(m, P) /\ Single(m) /\ RowsOf(p, P) /\ Single(p) /\ Stored(p)
  BY <1>1, Fewer DEF WindowOf
<1>4. IsWindow(v)
  BY DEF WindowOf
<1>5. LET u == [v EXCEPT !.msgs = m, !.pending = p] IN
      IsWindow(u) /\ u.msgs = m /\ u.pending = p /\ (u.hasNewer <=> v.hasNewer)
      /\ (u.hasMore <=> v.hasMore) /\ (u.spilled <=> v.spilled)
  BY <1>4, BothSet
<1>6. WindowOf([v EXCEPT !.msgs = m, !.pending = p], P)
  BY <1>3, <1>5 DEF WindowOf
<1> QED BY <1>2, <1>6, BuildOk

LEMMA FlushPendingOk ==
    ASSUME NEW P, NEW v, WindowOf(v, P)
    PROVE  WindowOf(FlushPending(v), P)
<1> DEFINE u == AppendTrim(v, MergeRows(v.msgs, v.pending))
<1>1. RowsOf(MergeRows(v.msgs, v.pending), P) /\ Single(MergeRows(v.msgs, v.pending))
  BY MergeIs DEF WindowOf
<1>2. WindowOf(u, P)
  BY <1>1, AppendTrimOk
<1> HIDE DEF u
<1>3. IsWindow(u)
  BY <1>2 DEF WindowOf
<1>4. LET t == [u EXCEPT !.pending = {}, !.spilled = FALSE] IN
      IsWindow(t) /\ t.msgs = u.msgs /\ t.pending = {} /\ (t.hasNewer <=> u.hasNewer)
  BY <1>3, EmptiedSet
<1>5. WindowOf([u EXCEPT !.pending = {}, !.spilled = FALSE], P)
  BY <1>2, <1>4, NoRows DEF WindowOf
<1>6. WindowOf(Build([u EXCEPT !.pending = {}, !.spilled = FALSE]), P)
  BY <1>5, BuildOk
<1> QED BY <1>6 DEF FlushPending, u

LEMMA AtBottomOk ==
    ASSUME NEW P, NEW v, WindowOf(v, P), NEW b
    PROVE  WindowOf([v EXCEPT !.atBottom = b], P)
BY PositionSet DEF WindowOf

\* A copy from the hub, and an optimistic one of a turn that has no row.
LEMMA AppendOptimisticOk ==
    ASSUME NEW P, NEW v, WindowOf(v, P), NEW r, IsRow(r), IsUser(r) => Local(r) \in P,
           r.id > 0 \/ (r.id < 0 /\ \A e \in v.msgs : Local(e) # Local(r))
    PROVE  WindowOf(AppendOptimistic(v, r), P)
<1>1. CASE r.id > 0
  <2>1. RowsOf({r}, P) /\ Single({r}) /\ Stored({r})
    BY <1>1 DEF RowsOf, Single, Stored
  <2> QED BY <2>1, AppendOk, AtBottomOk DEF AppendOptimistic, WindowOf
<1>2. CASE r.id < 0 /\ \A e \in v.msgs : Local(e) # Local(r)
  <2> DEFINE merged == MergeRows(v.msgs, {r})
             u == AppendTrim(v, merged)
             p == {q \in v.pending : q.id \notin Ids(u.msgs)}
  <2>1. Local(r) \in P
    BY <1>2, LocalIs DEF IsRow
  <2>2. RowsOf(merged, P) /\ Single(merged)
    BY <1>2, <2>1, MergeFresh DEF WindowOf
  <2> HIDE DEF merged
  <2>3. WindowOf(u, P) /\ u.pending = v.pending
    BY <2>2, AppendTrimOk, AppendTrimIs DEF WindowOf
  <2> HIDE DEF u
  <2>4. p \in SUBSET u.pending
    BY <2>3
  <2>5. Append2(v, {r}) = Build([u EXCEPT !.pending = p])
    BY DEF Append2, u, merged
  <2> HIDE DEF p
  <2>6. WindowOf(Append2(v, {r}), P)
    BY <2>3, <2>4, <2>5, PendingLess, BuildOk
  <2> QED BY <2>6, AtBottomOk DEF AppendOptimistic, WindowOf
<1> QED BY <1>1, <1>2

-----------------------------------------------------------------------------
(* The state.                                                              *)

Posted == {k \in Turn : posts[k] # "unused"}
FromHub(R) == RowsOf(R, Posted) /\ Stored(R)

\* The table has one row per turn, and none of a turn that was not stored yet;
\* events, frames, pages and cancels carry rows of the hub.
PostsOk == posts \in [Turn -> {"unused", "posting", "stored", "done", "lost"}]
TableOk == /\ FromHub(table) /\ Single(table)
           /\ \A k \in Turn : posts[k] \in {"unused", "posting"} => k \notin Ids(table)
EventType == {"received", "consumed", "cancelled", "invalidated"}
LogOk == \E S : log \in Seq(S) /\ \A e \in S : e.type \in EventType /\ FromHub({e.row})
StreamsOk ==
    /\ epoch \in Nat
    /\ stream \in [Stream -> [up : BOOLEAN, done : Nat, cursor : Nat \cup {None}, epoch : Int]]
FrameOk == \E S : frame \in Seq(S) /\ FromHub(S)
ReadOk == FromHub(read.snap) /\ Single(read.snap)
          /\ read = [phase |-> read.phase, snap |-> read.snap, more |-> read.more, eligible |-> read.eligible]
Pending == {"asked", "cancelled", "invoked", "lost"}
CancelsOk == \E S : /\ cancels \in [Turn -> [phase : Pending \cup {"none", "done"}, row : S]]
                    /\ \A k \in Turn : cancels[k].phase \in Pending => FromHub({cancels[k].row})
WindowOk == WindowOf(w, Posted)

\* No page is under way: an older one is not asked for, and a newer one is asked
\* for only after an older one has pushed new rows out of the thread.
ShowInv == /\ PostsOk /\ TableOk /\ LogOk /\ StreamsOk /\ FrameOk /\ ReadOk /\ CancelsOk /\ WindowOk
           /\ page = NoPage

\* Of several copies of a row in the frame queue one is read.
LEMMA FrameRowsOk ==
    ASSUME FrameOk
    PROVE  FromHub(FrameRows) /\ Single(FrameRows)
<1>1. PICK S : frame \in Seq(S) /\ FromHub(S)
  BY DEF FrameOk
<1>2. FrameRows \in SUBSET S
  BY <1>1 DEF FrameRows
<1>3. FromHub(FrameRows)
  BY <1>1, <1>2, Fewer DEF FromHub
<1>4. Distinct(FrameRows)
  <2> SUFFICES ASSUME NEW q \in FrameRows, NEW r \in FrameRows, q.id = r.id
               PROVE  q = r
    BY DEF Distinct
  <2>1. PICK j \in 1..Len(frame) : q = frame[j] /\ \A k \in (j + 1)..Len(frame) : frame[k].id # frame[j].id
    BY DEF FrameRows
  <2>2. PICK l \in 1..Len(frame) : r = frame[l] /\ \A k \in (l + 1)..Len(frame) : frame[k].id # frame[l].id
    BY DEF FrameRows
  <2>3. Len(frame) \in Nat
    BY <1>1
  <2>4. ~(l \in (j + 1)..Len(frame)) /\ ~(j \in (l + 1)..Len(frame))
    BY <2>1, <2>2
  <2>5. j = l
    BY <2>3, <2>4
  <2> QED BY <2>1, <2>2, <2>5
<1> QED BY <1>3, <1>4, StoredSingle DEF FromHub

LEMMA FlushedOk ==
    ASSUME FrameOk, WindowOk
    PROVE  WindowOf(Flushed, Posted)
BY FrameRowsOk, IngestOk DEF Flushed, WindowOk, FromHub

\* A latest page joined with the thread and what is kept back.
LEMMA LatestJoined ==
    ASSUME ReadOk, NEW v, WindowOf(v, Posted)
    PROVE  LET incoming == v.pending \cup read.snap
               B == ById(ById(v.msgs, v.pending), read.snap)
           IN /\ RowsOf(incoming, Posted) /\ RowsOf(B, Posted) /\ Distinct(B)
              /\ PairsAreIn(B, StoredLocals(incoming))
<1> DEFINE P == Posted
           snap == read.snap
           incoming == v.pending \cup snap
           B1 == ById(v.msgs, v.pending)
           B == ById(B1, snap)
           T == StoredLocals(incoming)
<1>1. RowsOf(snap, P) /\ Stored(snap) /\ Single(snap)
  BY DEF ReadOk, FromHub
<1>2. /\ RowsOf(v.msgs, P) /\ Single(v.msgs)
      /\ RowsOf(v.pending, P) /\ Single(v.pending) /\ Stored(v.pending)
  BY DEF WindowOf
<1> HIDE DEF P, snap
<1>3. Distinct(v.msgs) /\ Distinct(v.pending) /\ Distinct(snap)
  BY <1>1, <1>2, SingleDistinct
<1>4. /\ RowsOf(B1, P) /\ Distinct(B1)
      /\ \A b \in B1 : (b \in v.msgs /\ b.id \notin Ids(v.pending)) \/ b.id \in Ids(v.pending)
  BY <1>2, <1>3, ByIdIs
<1> HIDE DEF B1
<1>5. /\ RowsOf(B, P) /\ Distinct(B)
      /\ \A b \in B : (b \in B1 /\ b.id \notin Ids(snap)) \/ b.id \in Ids(snap)
  BY <1>1, <1>3, <1>4, ByIdIs
<1> HIDE DEF B
<1>6. \A b \in B : b \in v.msgs \/ b.id \in Ids(incoming)
  BY <1>4, <1>5 DEF Ids
<1>7. RowsOf(incoming, P) /\ Stored(incoming)
  BY <1>1, <1>2 DEF RowsOf, Stored
<1> HIDE DEF incoming, T
<1>8. ASSUME NEW q \in B, NEW o \in B, q.id \in Turn, o.id = -q.id
      PROVE  q.id \in T
  <2>1. q.id > 0 /\ o.id < 0 /\ q.id \in Int /\ o.id \in Int
    BY <1>8, WindowAssumption DEF Turn
  <2>2. o \in v.msgs
    BY <1>6, <1>7, <2>1 DEF Stored, Ids
  <2>3. IsUser(q) /\ Local(q) = Local(o)
    BY <1>8, <2>1, LocalIs
  <2>4. q \notin v.msgs
    BY <1>2, <2>1, <2>2, <2>3 DEF Single
  <2>5. q.id \in Ids(incoming)
    BY <1>6, <2>4
  <2> QED BY <1>7, <1>8, <2>5, StoredLocalsIs DEF T
<1>9. PairsAreIn(B, T)
  BY <1>8 DEF PairsAreIn
<1> QED BY <1>5, <1>7, <1>9 DEF P, snap, incoming, B1, B, T

LEMMA ApplyLatestOk ==
    ASSUME ReadOk, NEW v, WindowOf(v, Posted)
    PROVE  WindowOf(ApplyLatest(v), Posted)
<1> DEFINE P == Posted
           snap == read.snap
           incoming == v.pending \cup snap
           B1 == ById(v.msgs, v.pending)
           B == ById(B1, snap)
           T == StoredLocals(incoming)
           merged == IF incoming = {} THEN v.msgs ELSE Settle(B, T)
           kept == Newest(DropGhosts(merged, snap, read.eligible), WindowSize)
           top == Highest(Seqs(snap))
           f == IF top = None THEN v.frontier ELSE top
           based == [v EXCEPT !.frontier = f]
           x == IF Stamps(kept) = {} THEN Lowest(Stamps(snap)) ELSE Lowest(Stamps(kept))
           y == Highest(Stamps(kept))
           u == Replaced(based, kept, {}, read.more, x, y)
           t == IntoPending(v, snap)
<1>1. RowsOf(snap, P) /\ Stored(snap) /\ Single(snap)
  BY DEF ReadOk, FromHub
<1>2. /\ IsWindow(v) /\ ~v.hasNewer /\ RowsOf(v.msgs, P) /\ Single(v.msgs)
      /\ RowsOf(v.pending, P) /\ Single(v.pending) /\ Stored(v.pending)
  BY DEF WindowOf
<1>3. ApplyLatest(v) = IF v.atBottom THEN Build(u) ELSE Build([t EXCEPT !.frontier = based.frontier])
  BY <1>2 DEF ApplyLatest, Replaced
<1>4. RowsOf(merged, P) /\ Single(merged)
  <2>1. RowsOf(B, P) /\ Distinct(B) /\ PairsAreIn(B, T)
    BY LatestJoined
  <2> HIDE DEF P, snap, B, T
  <2>2. RowsOf(Settle(B, T), P) /\ Single(Settle(B, T))
    BY <2>1, SettleIs
  <2> QED BY <1>2, <2>2
<1> HIDE DEF merged, incoming, B1, B, T
<1>5. kept \in SUBSET merged
  BY DEF Newest, DropGhosts
<1> HIDE DEF kept, f, x, y, P, snap
<1>6. RowsOf(kept, P) /\ Single(kept)
  BY <1>4, <1>5, Fewer
<1>7. IsWindow(based)
  BY <1>2, FrontierSet
<1> HIDE DEF based
<1>8. IsWindow(u) /\ u.msgs = kept /\ u.pending = {} /\ ~u.hasNewer
      /\ (u.hasMore <=> read.more) /\ ~u.spilled
  BY <1>7, ReplacedSet
<1> HIDE DEF u
<1>9. WindowOf(Build(u), P)
  BY <1>6, <1>8, NoRows, BuildOk DEF WindowOf
<1>10. WindowOf(t, P)
  BY <1>1, IntoPendingOk DEF P
<1> HIDE DEF t
<1>11. WindowOf([t EXCEPT !.frontier = based.frontier], P)
  BY <1>10, FrontierSet DEF WindowOf
<1>12. WindowOf(Build([t EXCEPT !.frontier = based.frontier]), P)
  BY <1>11, BuildOk
<1> QED BY <1>3, <1>9, <1>12 DEF P

-----------------------------------------------------------------------------
(* Who changes what.                                                       *)

HubWrites == \/ \E k \in Turn : Store(k) \/ StoreElsewhere(k) \/ Consume(k) \/ CancelServed(k)
             \/ Output \/ MoveIn
Posts == \E k \in Turn : Send(k) \/ Answer(k) \/ FailPost(k) \/ Store(k) \/ StoreElsewhere(k)
Cancels == \E k \in Turn : CancelClick(k) \/ CancelAnswer(k) \/ CancelFails(k) \/ CancelServed(k)
Reads == ServeRead \/ LandRead \/ FailRead \/ RunTask \/ ToBottom \/ Return
Browses ==
    \/ LandRead \/ FailRead \/ StrayLands \/ RunTask \/ FlushFrame \/ LandPage
    \/ \E s \in Stream : Handle(s)
    \/ \E kind \in {"older", "newer"} : AskPage(kind)
    \/ ScrollAway \/ ToBottom \/ Return
    \/ \E k \in Turn : \/ Send(k) \/ Answer(k) \/ FailPost(k)
                       \/ CancelClick(k) \/ CancelAnswer(k) \/ CancelFails(k)
Pages == Reads \/ (\E kind \in {"older", "newer"} : AskPage(kind)) \/ ServePage \/ LandPage \/ FailPage
Streams == Leave \/ \E s \in Stream : Connect(s) \/ Break(s) \/ Handle(s)

LEMMA WhoChanges ==
    ASSUME [Next]_vars
    PROVE  /\ UNCHANGED table \/ HubWrites
           /\ UNCHANGED log \/ HubWrites \/ HubRestart
           /\ UNCHANGED posts \/ Posts \/ HubRestart
           /\ UNCHANGED cancels \/ Cancels \/ HubRestart
           /\ UNCHANGED read \/ Reads \/ HubRestart
           /\ UNCHANGED <<w, frame>> \/ Browses
           /\ UNCHANGED page \/ Pages \/ HubRestart
           /\ UNCHANGED <<stream, epoch>> \/ Streams \/ HubRestart
<1> USE DEF hubVars, readVars, userVars
<1>1. CASE ServeRead
  BY <1>1 DEF ServeRead, Reads, Pages
<1>2. CASE LandRead
  BY <1>2 DEF LandRead, Reads, Browses, Pages
<1>3. CASE FailRead
  BY <1>3 DEF FailRead, Reads, Browses, Pages
<1>4. CASE StrayLands
  BY <1>4 DEF StrayLands, Browses
<1>5. CASE RunTask
  BY <1>5 DEF RunTask, Reads, Browses, Pages
<1>6. CASE Probe
  BY <1>6 DEF Probe
<1>7. CASE FlushFrame
  BY <1>7 DEF FlushFrame, Browses
<1>8. ASSUME NEW s \in Stream, Connect(s) \/ Break(s)
      PROVE  UNCHANGED <<table, log, posts, cancels, read, w, frame, page>> /\ Streams
  BY <1>8 DEF Connect, Break, Streams
<1>9. ASSUME NEW s \in Stream, Handle(s)
      PROVE  UNCHANGED <<table, log, posts, cancels, read, page>> /\ Browses /\ Streams
  BY <1>9 DEF Handle, Browses, Streams
<1>10. ASSUME NEW kind \in {"older", "newer"}, AskPage(kind)
       PROVE  UNCHANGED <<table, log, posts, cancels, read, stream, epoch>> /\ Browses /\ Pages
  BY <1>10 DEF AskPage, Browses, Pages
<1>11. CASE ServePage \/ FailPage
  BY <1>11 DEF ServePage, FailPage, Pages
<1>12. CASE LandPage
  BY <1>12 DEF LandPage, Browses, Pages
<1>13. CASE ScrollAway
  BY <1>13 DEF ScrollAway, Browses
<1>14. CASE ToBottom
  BY <1>14 DEF ToBottom, Browses, Reads, Pages
<1>15. CASE Leave
  BY <1>15 DEF Leave, Streams
<1>16. CASE Return
  BY <1>16 DEF Return, Browses, Reads, Pages
<1>17. ASSUME NEW k \in Turn, Send(k) \/ Answer(k) \/ FailPost(k)
       PROVE  UNCHANGED <<table, log, cancels, read, page, stream, epoch>> /\ Posts /\ Browses
  BY <1>17 DEF Send, Answer, FailPost, Posts, Browses
<1>18. ASSUME NEW k \in Turn, CancelClick(k) \/ CancelAnswer(k) \/ CancelFails(k)
       PROVE  UNCHANGED <<table, log, posts, read, page, stream, epoch>> /\ Cancels /\ Browses
  BY <1>18 DEF CancelClick, CancelAnswer, CancelFails, Cancels, Browses
<1>19. ASSUME NEW k \in Turn, Store(k) \/ StoreElsewhere(k)
       PROVE  UNCHANGED <<cancels, read, w, frame, page, stream, epoch>> /\ HubWrites /\ Posts
  BY <1>19 DEF Store, StoreElsewhere, Insert, HubWrites, Posts
<1>20. ASSUME NEW k \in Turn, Consume(k)
       PROVE  UNCHANGED <<posts, cancels, read, w, frame, page, stream, epoch>> /\ HubWrites
  BY <1>20 DEF Consume, HubWrites
<1>21. ASSUME NEW k \in Turn, CancelServed(k)
       PROVE  UNCHANGED <<posts, read, w, frame, page, stream, epoch>> /\ HubWrites /\ Cancels
  BY <1>21 DEF CancelServed, HubWrites, Cancels
<1>22. CASE Output
  BY <1>22 DEF Output, Insert, HubWrites
<1>23. CASE MoveIn
  BY <1>23 DEF MoveIn, HubWrites
<1>24. CASE HubRestart
  BY <1>24 DEF HubRestart
<1>25. CASE UNCHANGED vars
  BY <1>25 DEF vars
<1> QED
  BY <1>1, <1>2, <1>3, <1>4, <1>5, <1>6, <1>7, <1>8, <1>9, <1>10, <1>11, <1>12, <1>13, <1>14,
     <1>15, <1>16, <1>17, <1>18, <1>19, <1>20, <1>21, <1>22, <1>23, <1>24, <1>25 DEF Next

-----------------------------------------------------------------------------
(* The hub.                                                                *)

\* A turn that was posted stays posted, and one that was not stored by its POST
\* was not stored before.
Onward ==
    /\ PostsOk'
    /\ Posted \subseteq Posted'
    /\ \A k \in Turn : posts'[k] \in {"unused", "posting"} => posts[k] \in {"unused", "posting"}

LEMMA PostsStep ==
    ASSUME PostsOk, [Next]_vars
    PROVE  Onward
<1> SUFFICES ASSUME posts' # posts
             PROVE  Onward
  BY DEF Onward, PostsOk, Posted
<1>1. ASSUME NEW k \in Turn, NEW x \in {"stored", "done", "lost"}, posts' = [posts EXCEPT ![k] = x]
      PROVE  Onward
  BY <1>1 DEF Onward, PostsOk, Posted
<1>2. ASSUME NEW k \in Turn, posts[k] = "unused", posts' = [posts EXCEPT ![k] = "posting"]
      PROVE  Onward
  BY <1>2 DEF Onward, PostsOk, Posted
<1>3. CASE HubRestart
  BY <1>3 DEF HubRestart, Onward, PostsOk, Posted
<1>4. CASE Posts
  BY <1>1, <1>2, <1>4 DEF Posts, Send, Answer, FailPost, Store, StoreElsewhere
<1> QED BY <1>3, <1>4, WhoChanges

LEMMA FromHubLater ==
    ASSUME NEW R, FromHub(R), Onward
    PROVE  RowsOf(R, Posted') /\ Stored(R)
BY MoreTurns DEF FromHub, Onward

LEMMA Longer ==
    ASSUME NEW S, NEW q \in Seq(S), NEW x
    PROVE  Append(q, x) \in Seq(S \cup {x})
<1>1. q \in Seq(S \cup {x})
  OBVIOUS
<1> QED BY <1>1

LEMMA TellOk ==
    ASSUME LogOk, Onward, NEW type \in EventType, NEW r, RowsOf({r}, Posted'), Stored({r}), Tell(type, r)
    PROVE  LogOk'
<1>1. PICK S : log \in Seq(S) /\ \A e \in S : e.type \in EventType /\ FromHub({e.row})
  BY DEF LogOk
<1> DEFINE e == [type |-> type, row |-> r]
           T == S \cup {e}
<1>2. e.row = r /\ e.type = type
  OBVIOUS
<1>3. log' = Append(log, e)
  BY DEF Tell
<1> HIDE DEF e
<1>4. log' \in Seq(T)
  BY <1>1, <1>3, Longer
<1>5. ASSUME NEW d \in T
      PROVE  d.type \in EventType /\ FromHub({d.row})'
  <2>1. CASE d \in S
    BY <1>1, <2>1, FromHubLater DEF FromHub
  <2>2. CASE d = e
    BY <1>2, <2>2 DEF FromHub
  <2> QED BY <2>1, <2>2
<1> HIDE DEF T
<1> QED BY <1>4, <1>5 DEF LogOk

LEMMA LogLater ==
    ASSUME LogOk, Onward, UNCHANGED log
    PROVE  LogOk'
<1>1. PICK S : log \in Seq(S) /\ \A e \in S : e.type \in EventType /\ FromHub({e.row})
  BY DEF LogOk
<1>2. \A e \in S : e.type \in EventType /\ FromHub({e.row})'
  BY <1>1, FromHubLater DEF FromHub
<1> QED BY <1>1, <1>2 DEF LogOk

\* A row joins the table.
LEMMA InsertOk ==
    ASSUME TableOk, LogOk, Onward, NEW id \in Int, id > 0, NEW inv \in BOOLEAN, Insert(id, inv),
           id \in Turn => /\ id \notin Ids(table) /\ id \in Posted'
                          /\ posts'[id] \notin {"unused", "posting"}
    PROVE  TableOk' /\ LogOk'
<1> DEFINE r == NewRow(id, LastSeq + 1, inv, clock + 1)
<1>1. IsRow(r) /\ r.id = id
  BY NewRowIs
<1>2. table' = table \cup {r} /\ Tell("received", r)
  BY DEF Insert
<1> HIDE DEF r
<1>3. RowsOf({r}, Posted') /\ Stored({r})
  BY <1>1, LocalIs DEF RowsOf, Stored
<1>4. LogOk'
  BY <1>2, <1>3, TellOk DEF EventType
<1>5. RowsOf(table', Posted') /\ Stored(table')
  BY <1>2, <1>3, FromHubLater DEF TableOk, RowsOf, Stored
<1>6. Distinct(table')
  <2>1. Distinct(table)
    BY SingleDistinct DEF TableOk
  <2>2. \A q \in table : IsUser(q) => q.id # r.id
    BY <1>1, LocalIs, SameTurn DEF TableOk, FromHub, RowsOf, Stored, IsRow, Ids
  <2>3. \A q \in table : q.id = r.id => ~IsUser(r)
    BY <2>2, SameTurn
  <2> QED BY <1>2, <2>1, <2>2, <2>3, SameTurn DEF Distinct
<1>7. Single(table')
  BY <1>5, <1>6, StoredSingle
<1>8. \A k \in Turn : posts'[k] \in {"unused", "posting"} => k \notin Ids(table')
  BY <1>1, <1>2 DEF TableOk, Onward, Ids
<1> QED BY <1>4, <1>5, <1>7, <1>8 DEF TableOk, FromHub

\* A turn of the table is invoked.
LEMMA InvokeOk ==
    ASSUME TableOk, LogOk, Onward, NEW k, NEW r \in table, Invoke(k, r)
    PROVE  TableOk' /\ LogOk' /\ RowsOf({[r EXCEPT !.inv = TRUE, !.at = clock + 1]}, Posted')
<1> DEFINE i == [r EXCEPT !.inv = TRUE, !.at = clock + 1]
<1>1. RowsOf(table, Posted) /\ Stored(table) /\ Single(table)
  BY DEF TableOk, FromHub
<1>2. IsRow(i) /\ i.id = r.id
  BY <1>1, Changed DEF RowsOf
<1>3. table' = (table \ {r}) \cup {i} /\ Tell("consumed", i)
  BY DEF Invoke
<1> HIDE DEF i
<1>4. RowsOf(table, Posted')
  BY FromHubLater DEF TableOk
<1>5. RowsOf({i}, Posted') /\ Stored({i})
  BY <1>1, <1>2, <1>4, SameTurn DEF RowsOf, Stored
<1>6. LogOk'
  BY <1>3, <1>5, TellOk DEF EventType
<1>7. RowsOf(table', Posted') /\ Stored(table')
  BY <1>1, <1>3, <1>4, <1>5 DEF RowsOf, Stored
<1>8. Single(table')
  BY <1>1, <1>2, <1>3, SameTurn DEF Single
<1>9. \A j \in Turn : posts'[j] \in {"unused", "posting"} => j \notin Ids(table')
  BY <1>2, <1>3 DEF TableOk, Onward, Ids
<1> QED BY <1>5, <1>6, <1>7, <1>8, <1>9 DEF TableOk, FromHub, i

LEMMA TableLess ==
    ASSUME TableOk, Onward, table' \in SUBSET table
    PROVE  TableOk'
<1>1. RowsOf(table', Posted') /\ Stored(table') /\ Single(table')
  BY FromHubLater, Fewer DEF TableOk
<1>2. Ids(table') \subseteq Ids(table)
  BY DEF Ids
<1> QED BY <1>1, <1>2 DEF TableOk, FromHub, Onward

LEMMA HubStep ==
    ASSUME PostsOk, TableOk, LogOk, [Next]_vars
    PROVE  TableOk' /\ LogOk'
<1>0. Onward
  BY PostsStep
<1>1. ASSUME NEW k \in Turn, Store(k) \/ StoreElsewhere(k)
      PROVE  TableOk' /\ LogOk'
  <2>1. k \in Int /\ k > 0
    BY WindowAssumption DEF Turn
  <2>2. posts[k] \in {"unused", "posting"} /\ posts'[k] \in {"stored", "done"} /\ Insert(k, FALSE)
    BY <1>1 DEF Store, StoreElsewhere, PostsOk
  <2>3. k \notin Ids(table) /\ k \in Posted'
    BY <2>2 DEF TableOk, Posted
  <2> QED BY <1>0, <2>1, <2>2, <2>3, InsertOk
<1>2. ASSUME NEW k \in Turn, Consume(k)
      PROVE  TableOk' /\ LogOk'
  BY <1>0, <1>2, InvokeOk DEF Consume
<1>3. ASSUME NEW k \in Turn, CancelServed(k)
      PROVE  TableOk' /\ LogOk'
  <2>1. PICK r \in table :
           \/ UNCHANGED hubVars
           \/ table' = table \ {r} /\ Tell("cancelled", r)
           \/ Invoke(k, r)
    BY <1>3 DEF CancelServed
  <2>2. CASE UNCHANGED hubVars
    BY <1>0, <2>2, TableLess, LogLater DEF hubVars
  <2>3. CASE table' = table \ {r} /\ Tell("cancelled", r)
    <3>1. RowsOf({r}, Posted') /\ Stored({r})
      BY <1>0, FromHubLater DEF TableOk, RowsOf, Stored
    <3> QED BY <1>0, <2>3, <3>1, TableLess, TellOk DEF EventType
  <2>4. CASE Invoke(k, r)
    BY <1>0, <2>4, InvokeOk
  <2> QED BY <2>1, <2>2, <2>3, <2>4
<1>4. CASE Output
  <2> DEFINE out == Ids(table) \cap (MaxTurns + 1)..(MaxTurns + MaxOutput)
             n == MaxTurns + Cardinality(out) + 1
  <2>1. MaxTurns \in Nat /\ MaxOutput \in Nat
    BY WindowAssumption
  <2>2. IsFiniteSet((MaxTurns + 1)..(MaxTurns + MaxOutput))
    BY <2>1, FS_Interval
  <2>3. Cardinality(out) \in Nat
    BY <2>2, FS_Subset, FS_CardinalityType
  <2>4. Insert(n, TRUE)
    BY <1>4 DEF Output
  <2> HIDE DEF out
  <2>5. n \in Int /\ n > 0 /\ n \notin Turn
    BY <2>1, <2>3 DEF Turn
  <2> QED BY <1>0, <2>4, <2>5, InsertOk
<1>5. CASE MoveIn
  <2> DEFINE old == [NoRow EXCEPT !.seq = 1, !.inv = TRUE]
             f == [r \in table |-> [r EXCEPT !.seq = r.seq + 1]]
             moved == {f[r] : r \in table}
  <2>1. IsRow(old) /\ old.id = MaxTurns + MaxOutput + 1
    <3> DEFINE i == MaxTurns + MaxOutput + 1
               Row == [id : {i}, seq : {0, 1}, inv : BOOLEAN, at : {0}, sent : {FALSE}]
    <3>1. i \in Int
      BY WindowAssumption
    <3>2. NoRow \in Row
      BY DEF NoRow, NewRow
    <3> HIDE DEF i
    <3>3. old \in Row
      BY <3>2
    <3>4. \A r \in Row : IsRow(r) /\ r.id = i
      BY <3>1 DEF IsRow
    <3> QED BY <3>3, <3>4 DEF i
  <2>2. table' = moved \cup {old} /\ Tell("invalidated", old)
    BY <1>5 DEF MoveIn
  <2>3. MaxTurns \in Nat /\ MaxOutput \in Nat
    BY WindowAssumption
  <2> HIDE DEF old
  <2>4. old.id > 0 /\ ~IsUser(old)
    BY <2>1, <2>3, LocalIs DEF Turn
  <2>5. RowsOf(table, Posted') /\ Stored(table) /\ Single(table)
    BY <1>0, FromHubLater DEF TableOk
  <2>6. \A r \in table : IsRow(f[r]) /\ f[r].id = r.id
    BY <2>5, Changed DEF RowsOf
  <2> HIDE DEF f
  <2>7. RowsOf(moved, Posted') /\ Stored(moved) /\ Single(moved)
    <3> DEFINE P == Posted'
    <3>1. RowsOf(table, P)
      BY <2>5
    <3> HIDE DEF P
    <3>2. RowsOf(moved, P) /\ (Single(table) => Single(moved)) /\ (Stored(table) => Stored(moved))
      BY <2>6, <3>1, MappedOk
    <3> QED BY <2>5, <3>2 DEF P
  <2>8. Ids(moved) = Ids(table)
    BY <2>6 DEF Ids
  <2> HIDE DEF moved
  <2>9. RowsOf({old}, Posted') /\ Stored({old})
    BY <2>1, <2>4 DEF RowsOf, Stored
  <2>10. LogOk'
    BY <1>0, <2>2, <2>9, TellOk DEF EventType
  <2>11. RowsOf(table', Posted') /\ Stored(table') /\ Single(table')
    BY <2>2, <2>4, <2>7, <2>9 DEF RowsOf, Stored, Single, IsUser
  <2>12. Ids(table') = Ids(table) \cup {MaxTurns + MaxOutput + 1}
    BY <2>1, <2>2, <2>8 DEF Ids
  <2>13. \A k \in Turn : posts'[k] \in {"unused", "posting"} => k \notin Ids(table')
    BY <1>0, <2>3, <2>12 DEF TableOk, Onward, Turn
  <2> QED BY <2>10, <2>11, <2>13 DEF TableOk, FromHub
<1>6. CASE HubRestart
  <2>1. UNCHANGED table /\ log' = <<>>
    BY <1>6 DEF HubRestart
  <2>2. LogOk'
    <3>1. log' \in Seq({})
      BY <2>1
    <3> QED BY <3>1 DEF LogOk
  <2> QED BY <1>0, <2>1, <2>2, TableLess
<1>7. CASE UNCHANGED table /\ UNCHANGED log
  BY <1>0, <1>7, TableLess, LogLater
<1> QED BY <1>1, <1>2, <1>3, <1>4, <1>5, <1>6, <1>7, WhoChanges DEF HubWrites

-----------------------------------------------------------------------------
(* The streams, the reads and the cancels.                                 *)

LEMMA StreamsStep ==
    ASSUME StreamsOk, LogOk, [Next]_vars
    PROVE  StreamsOk'
<1> DEFINE T == [up : BOOLEAN, done : Nat, cursor : Nat \cup {None}, epoch : Int]
<1>1. epoch \in Nat /\ stream \in [Stream -> T] /\ Len(log) \in Nat /\ None \in Int
  BY DEF StreamsOk, LogOk, None
<1>2. ClosedStream \in T
  BY DEF ClosedStream, None
<1>3. ASSUME NEW s \in Stream, Connect(s)
      PROVE  StreamsOk'
  <2> DEFINE st == stream[s]
             held == IF Len(log) > RingSize THEN Len(log) - RingSize ELSE 0
             mine == IF st.epoch # epoch THEN 0 ELSE st.cursor
             from == IF st.cursor = None THEN Len(log) ELSE Highest({held, mine})
             cur == IF st.epoch # epoch /\ st.epoch # None THEN 0 ELSE st.cursor
  <2>1. st \in T
    BY <1>1
  <2>2. RingSize \in Nat
    BY WindowAssumption
  <2>3. held \in Nat
    BY <1>1, <2>2
  <2>4. st.cursor # None => mine \in Nat
    BY <2>1
  <2>5. ASSUME NEW a \in Nat, NEW b \in Nat
        PROVE  Highest({a, b}) \in Nat
    <3>1. \E n \in {a, b} : \A m \in {a, b} : n >= m
      BY <2>5
    <3> QED BY <3>1 DEF Highest
  <2> HIDE DEF held, mine
  <2>6. from \in Nat
    BY <1>1, <2>3, <2>4, <2>5
  <2>7. cur \in Nat \cup {None}
    BY <2>1
  <2>8. stream' = [stream EXCEPT ![s] = [up |-> TRUE, done |-> from, epoch |-> epoch, cursor |-> cur]]
        /\ epoch' = epoch
    BY <1>3 DEF Connect, hubVars, held, mine
  <2> HIDE DEF from, cur, st
  <2>9. [up |-> TRUE, done |-> from, epoch |-> epoch, cursor |-> cur] \in T
    BY <1>1, <2>6, <2>7
  <2> QED BY <1>1, <2>8, <2>9 DEF StreamsOk
<1>4. ASSUME NEW s \in Stream, Break(s)
      PROVE  StreamsOk'
  BY <1>1, <1>4 DEF Break, StreamsOk, hubVars
<1>5. ASSUME NEW s \in Stream, Handle(s)
      PROVE  StreamsOk'
  <2>1. stream' = [stream EXCEPT ![s].done = stream[s].done + 1, ![s].cursor = stream[s].done + 1]
        /\ epoch' = epoch
    BY <1>5 DEF Handle, hubVars
  <2> DEFINE n == stream[s].done + 1
             one == [stream EXCEPT ![s].done = n]
  <2>2. n \in Nat
    BY <1>1
  <2>3. stream' = [one EXCEPT ![s].cursor = n]
    BY <2>1
  <2> HIDE DEF n
  <2>4. one \in [Stream -> T]
    BY <1>1, <2>2
  <2> HIDE DEF one
  <2>5. stream' \in [Stream -> T]
    BY <2>2, <2>3, <2>4
  <2> QED BY <1>1, <2>1, <2>5 DEF StreamsOk
<1>6. CASE Leave
  BY <1>1, <1>2, <1>6 DEF Leave, StreamsOk, hubVars
<1>7. CASE HubRestart
  <2>1. ASSUME NEW t \in T
        PROVE  [t EXCEPT !.up = FALSE, !.done = 0] \in T
    BY <2>1
  <2>2. stream' = [s \in Stream |-> [stream[s] EXCEPT !.up = FALSE, !.done = 0]] 
    BY <1>7 DEF HubRestart
  <2>3. \A s \in Stream : [stream[s] EXCEPT !.up = FALSE, !.done = 0] \in T
    BY <1>1, <2>1
  <2>4. stream' \in [Stream -> T]
    BY <2>2, <2>3
  <2>5. epoch' \in Nat
    <3>1. epoch' = epoch + 1
      BY <1>7 DEF HubRestart
    <3> QED BY <1>1, <3>1
  <2> QED BY <2>4, <2>5 DEF StreamsOk
<1>8. CASE UNCHANGED <<stream, epoch>>
  BY <1>8 DEF StreamsOk
<1> QED BY <1>3, <1>4, <1>5, <1>6, <1>7, <1>8, WhoChanges DEF Streams

\* A read that begins knows no rows.
\* The turns of window v that a latest page may take out of it.
Waiting(v) == Ids({r \in v.msgs \cup v.pending : IsQueued(r) /\ ~IsOptimistic(r)})
Begun == read' = [NoRead EXCEPT !.phase = "asked", !.eligible = Waiting(w')]

LEMMA BeginReadIs ==
    ASSUME BeginRead(w')
    PROVE  Begun /\ page' = NoPage /\ owed' = FALSE
BY DEF BeginRead, Begun, Waiting

LEMMA ReadChange ==
    ASSUME Reads
    PROVE  UNCHANGED read \/ read' = NoRead \/ Begun \/ ServeRead
<1>1. BeginRead(w') => Begun
  BY BeginReadIs
<1>2. ASSUME NEW v, NEW lost, EndRead(v, lost)
      PROVE  read' = NoRead \/ Begun
  BY <1>1, <1>2 DEF EndRead
<1>3. CASE LandRead \/ FailRead
  BY <1>2, <1>3 DEF LandRead, FailRead
<1>4. CASE ToBottom \/ Return
  BY <1>1, <1>4 DEF ToBottom, Return, ReadUnlessReading
<1>5. CASE RunTask
  BY <1>1, <1>5 DEF RunTask, Refresh, Wipe
<1> QED BY <1>3, <1>4, <1>5 DEF Reads

LEMMA ReadStep ==
    ASSUME PostsOk, TableOk, ReadOk, [Next]_vars
    PROVE  ReadOk'
<1>0. Onward
  BY PostsStep
<1> DEFINE Shape(d) == d = [phase |-> d.phase, snap |-> d.snap, more |-> d.more, eligible |-> d.eligible]
<1>1. RowsOf(read.snap, Posted') /\ Stored(read.snap) /\ Single(read.snap) /\ Shape(read)
  BY <1>0, FromHubLater DEF ReadOk
<1>2. ASSUME Shape(read'), RowsOf(read'.snap, Posted'), Stored(read'.snap), Single(read'.snap)
      PROVE  ReadOk'
  BY <1>2 DEF ReadOk, FromHub
<1>3. CASE UNCHANGED read
  BY <1>1, <1>2, <1>3
<1>4. CASE read' = NoRead
  <2>1. Shape(read') /\ read'.snap = {}
    BY <1>4 DEF NoRead
  <2> QED BY <1>2, <2>1, NoRows
<1>5. CASE Begun
  <2> DEFINE E == Waiting(w')
  <2>1. read' = [NoRead EXCEPT !.phase = "asked", !.eligible = E]
    BY <1>5 DEF Begun
  <2> HIDE DEF E
  <2>2. NoRead \in [phase : {"idle", "asked"}, snap : {{}}, more : {FALSE}, eligible : {{}, E}]
    BY DEF NoRead
  <2>3. read' \in [phase : {"idle", "asked"}, snap : {{}}, more : {FALSE}, eligible : {{}, E}]
    BY <2>1, <2>2
  <2>4. Shape(read') /\ read'.snap = {}
    BY <2>3
  <2> QED BY <1>2, <2>4, NoRows
<1>6. CASE ServeRead
  <2> DEFINE rows == Newest(table, PageSize)
             x == rows \cup {r \in table : IsQueued(r)}
             y == table # rows
  <2>1. read' = [read EXCEPT !.phase = "served", !.snap = x, !.more = y]
    BY <1>6 DEF ServeRead
  <2>2. x \in SUBSET table
    BY NewestIn
  <2> HIDE DEF x, y
  <2>3. read \in [phase : {read.phase, "served"}, snap : {read.snap, x}, more : {read.more, y},
                  eligible : {read.eligible}]
    BY <1>1
  <2>4. read' \in [phase : {read.phase, "served"}, snap : {x}, more : {read.more, y},
                   eligible : {read.eligible}]
    BY <2>1, <2>3
  <2>5. Shape(read') /\ read'.snap = x
    BY <2>4
  <2>6. RowsOf(table, Posted') /\ Stored(table) /\ Single(table)
    BY <1>0, FromHubLater DEF TableOk
  <2> QED BY <1>2, <2>2, <2>5, <2>6, Fewer
<1>7. CASE HubRestart
  <2>1. read' = read \/ read' = [read EXCEPT !.phase = "lost"]
    BY <1>7 DEF HubRestart
  <2>2. Shape([read EXCEPT !.phase = "lost"]) /\ [read EXCEPT !.phase = "lost"].snap = read.snap
    BY <1>1
  <2> QED BY <1>1, <1>2, <2>1, <2>2
<1> QED BY <1>3, <1>4, <1>5, <1>6, <1>7, WhoChanges, ReadChange

LEMMA CancelsStep ==
    ASSUME PostsOk, TableOk, LogOk, WindowOk, CancelsOk, [Next]_vars
    PROVE  CancelsOk'
<1>0. Onward
  BY PostsStep
<1> DEFINE Phase == Pending \cup {"none", "done"}
           C(S) == [phase : Phase, row : S]
<1>1. PICK S : /\ cancels \in [Turn -> C(S)]
               /\ \A k \in Turn : cancels[k].phase \in Pending => FromHub({cancels[k].row})
  BY DEF CancelsOk
<1>2. \A k \in Turn : cancels[k].phase \in Pending =>
         RowsOf({cancels[k].row}, Posted') /\ Stored({cancels[k].row})
  BY <1>0, <1>1, FromHubLater
<1>3. ASSUME NEW k \in Turn, NEW p \in Phase, NEW r, cancels' = [cancels EXCEPT ![k] = [phase |-> p, row |-> r]],
             p \in Pending => RowsOf({r}, Posted') /\ Stored({r})
      PROVE  CancelsOk'
  <2> DEFINE c == [phase |-> p, row |-> r]
             T == S \cup {r}
  <2>1. c \in C(T) /\ c.phase = p /\ c.row = r
    OBVIOUS
  <2>2. cancels \in [Turn -> C(T)]
    <3>1. C(S) \subseteq C(T)
      OBVIOUS
    <3> QED BY <1>1, <3>1
  <2>3. cancels' = [cancels EXCEPT ![k] = c]
    BY <1>3
  <2> HIDE DEF c, C
  <2>4. cancels' \in [Turn -> C(T)]
    BY <2>1, <2>2, <2>3
  <2>5. \A j \in Turn : cancels'[j] = IF j = k THEN c ELSE cancels[j]
    BY <2>2, <2>3
  <2>6. \A j \in Turn : cancels'[j].phase \in Pending => FromHub({cancels[j].row})'
    BY <1>2, <1>3, <2>1, <2>5 DEF FromHub
  <2> QED BY <2>4, <2>6 DEF CancelsOk, C
<1>4. ASSUME NEW k \in Turn, CancelClick(k)
      PROVE  CancelsOk'
  <2>1. PICK r \in w.msgs \cup w.pending : r.id = k /\ cancels' = [cancels EXCEPT ![k] = [phase |-> "asked", row |-> r]]
    BY <1>4 DEF CancelClick
  <2>2. RowsOf({r}, Posted)
    BY DEF WindowOk, WindowOf, RowsOf
  <2>3. Stored({r})
    BY <2>1, WindowAssumption DEF Stored, Turn
  <2>4. RowsOf({r}, Posted')
    BY <1>0, <2>2, MoreTurns DEF Onward
  <2> QED BY <1>3, <2>1, <2>3, <2>4 DEF Pending
<1>5. ASSUME NEW k \in Turn, CancelAnswer(k) \/ CancelFails(k)
      PROVE  CancelsOk'
  <2>1. cancels' = [cancels EXCEPT ![k] = [phase |-> "done", row |-> NoRow]]
    BY <1>5 DEF CancelAnswer, CancelFails, Over
  <2> QED BY <1>3, <2>1 DEF Pending
<1>6. ASSUME NEW k \in Turn, CancelServed(k)
      PROVE  CancelsOk'
  <2>1. cancels[k].phase = "asked"
    BY <1>6 DEF CancelServed
  <2>2. PICK r \in table :
           \/ cancels' = [cancels EXCEPT ![k] = [phase |-> "invoked", row |-> r]]
           \/ cancels' = [cancels EXCEPT ![k] = [phase |-> "cancelled", row |-> cancels[k].row]]
           \/ /\ cancels' = [cancels EXCEPT ![k] = [phase |-> "invoked",
                                                    row |-> [r EXCEPT !.inv = TRUE, !.at = clock + 1]]]
              /\ Invoke(k, r)
    BY <1>6 DEF CancelServed
  <2> DEFINE i == [r EXCEPT !.inv = TRUE, !.at = clock + 1]
  <2>3. RowsOf({r}, Posted') /\ Stored({r})
    BY <1>0, FromHubLater DEF TableOk, RowsOf, Stored
  <2>4. IsRow(i) /\ i.id = r.id
    BY <2>3, Changed DEF RowsOf
  <2> HIDE DEF i
  <2>5. RowsOf({i}, Posted') /\ Stored({i})
    BY <2>3, <2>4, SameTurn DEF RowsOf, Stored
  <2>6. RowsOf({cancels[k].row}, Posted') /\ Stored({cancels[k].row})
    BY <1>2, <2>1 DEF Pending
  <2>7. \/ cancels' = [cancels EXCEPT ![k] = [phase |-> "invoked", row |-> r]]
        \/ cancels' = [cancels EXCEPT ![k] = [phase |-> "cancelled", row |-> cancels[k].row]]
        \/ cancels' = [cancels EXCEPT ![k] = [phase |-> "invoked", row |-> i]]
    BY <2>2 DEF i
  <2> QED BY <1>3, <2>3, <2>5, <2>6, <2>7 DEF Pending
<1>7. CASE HubRestart
  <2>1. cancels' = [k \in Turn |-> IF cancels[k].phase \in {"none", "done"} THEN cancels[k]
                                   ELSE [cancels[k] EXCEPT !.phase = "lost"]]
    BY <1>7 DEF HubRestart
  <2>2. \A c \in C(S) : [c EXCEPT !.phase = "lost"] \in C(S) /\ [c EXCEPT !.phase = "lost"].row = c.row
    BY DEF Pending
  <2>3. \A k \in Turn : /\ cancels'[k] \in C(S)
                        /\ cancels'[k].phase \in Pending =>
                             cancels[k].phase \in Pending /\ cancels'[k].row = cancels[k].row
    <3> SUFFICES ASSUME NEW k \in Turn
                 PROVE  /\ cancels'[k] \in C(S)
                        /\ cancels'[k].phase \in Pending =>
                             cancels[k].phase \in Pending /\ cancels'[k].row = cancels[k].row
      OBVIOUS
    <3>1. cancels[k] \in C(S)
      BY <1>1
    <3>2. CASE cancels[k].phase \in {"none", "done"}
      <4>1. cancels'[k] = cancels[k]
        BY <2>1, <3>2
      <4> QED BY <3>1, <3>2, <4>1 DEF Pending
    <3>3. CASE cancels[k].phase \notin {"none", "done"}
      <4>1. cancels'[k] = [cancels[k] EXCEPT !.phase = "lost"]
        BY <2>1, <3>3
      <4> QED BY <2>2, <3>1, <3>3, <4>1
    <3> QED BY <3>2, <3>3
  <2>4. cancels' \in [Turn -> C(S)]
    BY <2>1, <2>3
  <2>5. \A k \in Turn : cancels'[k].phase \in Pending => FromHub({cancels[k].row})'
    BY <1>2, <2>3 DEF FromHub
  <2> QED BY <2>4, <2>5 DEF CancelsOk
<1>8. CASE UNCHANGED cancels
  BY <1>1, <1>2, <1>8 DEF CancelsOk, FromHub
<1> QED BY <1>4, <1>5, <1>6, <1>7, <1>8, WhoChanges DEF Cancels

-----------------------------------------------------------------------------
(* The browser.                                                            *)

LEMMA ReceivedIs ==
    ASSUME StreamsOk, LogOk, NEW s \in Stream, stream[s].done < Len(log)
    PROVE  LET e == log[stream[s].done + 1] IN e.type \in EventType /\ FromHub({e.row})
<1>1. PICK S : log \in Seq(S) /\ \A e \in S : e.type \in EventType /\ FromHub({e.row})
  BY DEF LogOk
<1>2. stream[s].done \in Nat
  BY DEF StreamsOk
<1>3. stream[s].done + 1 \in 1..Len(log)
  BY <1>1, <1>2
<1>4. log[stream[s].done + 1] \in S
  BY <1>1, <1>3
<1> QED BY <1>1, <1>4

\* A finished read leaves a window, and asks for a new one if need be.
LEMMA EndReadOk ==
    ASSUME FrameOk, NEW v, WindowOf(v, Posted), NEW lost, EndRead(v, lost)
    PROVE  WindowOf(w', Posted) /\ frame' \in {frame, <<>>}
<1>1. w' \in {v, Ingest(v, FrameRows)} /\ frame' \in {frame, <<>>}
  BY DEF EndRead
<1>2. WindowOf(Ingest(v, FrameRows), Posted)
  BY FrameRowsOk, IngestOk DEF FromHub
<1> QED BY <1>1, <1>2

LEMMA FreshOk == ASSUME NEW P PROVE WindowOf(FreshWindow, P)
BY NoRows DEF WindowOf, FreshWindow, IsWindow

LEMMA HandleOk ==
    ASSUME StreamsOk, LogOk, FrameOk, WindowOk, NEW s \in Stream, Handle(s)
    PROVE  WindowOf(w', Posted)
           /\ (frame' \in {frame, <<>>} \/ frame' = Append(frame, log[stream[s].done + 1].row))
<1> DEFINE e == log[stream[s].done + 1]
<1>1. e.type \in EventType
  BY ReceivedIs DEF Handle
<1>2. WindowOf(Flushed, Posted) /\ WindowOf(w, Posted)
  BY FlushedOk DEF WindowOk
<1>3. CASE e.type = "received"
  <2>1. Receive(e.row) \/ UNCHANGED <<frame, w, tasks>>
    BY <1>3 DEF Handle
  <2>2. UNCHANGED w /\ (frame' = frame \/ frame' = Append(frame, e.row))
    BY <2>1 DEF Receive
  <2> QED BY <1>2, <2>2
<1>4. CASE e.type = "consumed"
  <2>1. w' = Consumed(Flushed, Local(e.row), e.row.at) /\ frame' = <<>>
    BY <1>4 DEF Handle
  <2> QED BY <1>2, <2>1, ConsumedOk
<1>5. CASE e.type = "cancelled"
  <2>1. w' = Without(Flushed, {e.row.id}) /\ frame' = <<>>
    BY <1>5 DEF Handle
  <2> QED BY <1>2, <2>1, WithoutOk
<1>6. CASE e.type = "invalidated"
  <2>1. UNCHANGED <<frame, w>>
    BY <1>6 DEF Handle
  <2> QED BY <1>2, <2>1
<1> QED BY <1>1, <1>3, <1>4, <1>5, <1>6 DEF EventType

LEMMA AskPageNever ==
    ASSUME FrameOk, WindowOk, page'.kind # "older", NEW kind \in {"older", "newer"}, AskPage(kind)
    PROVE  FALSE
<1>1. ~Flushed.hasNewer
  BY FlushedOk DEF WindowOf
<1>2. kind = "older"
  BY <1>1 DEF AskPage
<1> DEFINE f == IF kind = "older" THEN Flushed.oldest ELSE Flushed.newest
<1>3. page' = [NoPage EXCEPT !.kind = kind, !.from = f]
  BY DEF AskPage
<1> HIDE DEF f
<1>4. NoPage \in [kind : {"none", kind}, served : {FALSE}, from : {None, f}, snap : {{}}, more : {FALSE}]
  BY DEF NoPage
<1>5. page'.kind = kind
  BY <1>3, <1>4
<1> QED BY <1>2, <1>5

LEMMA PageKept ==
    ASSUME page = NoPage, \A kind \in {"older", "newer"} : ~AskPage(kind), [Next]_vars
    PROVE  page' = NoPage
<1>1. ASSUME NEW v, BeginRead(v)
      PROVE  page' = NoPage
  BY <1>1 DEF BeginRead
<1>2. ASSUME NEW v, NEW lost, EndRead(v, lost)
      PROVE  page' = NoPage
  BY <1>2 DEF EndRead, BeginRead
<1>3. CASE LandRead \/ FailRead
  BY <1>2, <1>3 DEF LandRead, FailRead
<1>4. CASE ToBottom \/ Return
  BY <1>4 DEF ToBottom, Return, ReadUnlessReading, BeginRead
<1>5. CASE RunTask
  BY <1>5 DEF RunTask, Refresh, Wipe, BeginRead
<1>6. CASE ServeRead
  BY <1>6 DEF ServeRead
<1>7. CASE ServePage \/ LandPage \/ FailPage
  BY <1>7 DEF ServePage, LandPage, FailPage, NoPage
<1>8. CASE HubRestart
  BY <1>8 DEF HubRestart
<1>9. CASE UNCHANGED page
  BY <1>9
<1> QED BY <1>3, <1>4, <1>5, <1>6, <1>7, <1>8, <1>9, WhoChanges DEF Pages, Reads

LEMMA PageStep ==
    ASSUME FrameOk, WindowOk, page = NoPage, page'.kind # "older", [Next]_vars
    PROVE  page' = NoPage
BY PageKept, AskPageNever

\* A turn is sent of which there is no row yet.
LEMMA SendIs ==
    ASSUME FrameOk, WindowOk, NEW k \in Turn, Send(k)
    PROVE  LET r == NewRow(-k, 0, FALSE, clock + 1) IN
           /\ IsRow(r) /\ r.id = -k /\ r.id < 0 /\ Local(r) = k
           /\ \A e \in Flushed.msgs : Local(e) # Local(r)
           /\ w' = AppendOptimistic(Flushed, r)
<1> DEFINE r == NewRow(-k, 0, FALSE, clock + 1)
<1>1. k \in Int /\ k > 0
  BY WindowAssumption DEF Turn
<1>2. IsRow(r) /\ r.id = -k
  <2>1. -k \in Int
    BY <1>1
  <2> DEFINE i == -k
  <2> HIDE DEF i
  <2>2. IsRow(NewRow(i, 0, FALSE, clock + 1)) /\ NewRow(i, 0, FALSE, clock + 1).id = i
    BY <2>1, OwnRowIs DEF i
  <2> QED BY <2>2 DEF i
<1>3. w' = AppendOptimistic(Flushed, r) /\ posts[k] = "unused"
  BY DEF Send
<1> HIDE DEF r
<1>4. r.id < 0 /\ Local(r) = k
  BY <1>1, <1>2, LocalIs
<1>5. RowsOf(Flushed.msgs, Posted)
  BY FlushedOk DEF WindowOf
<1>6. \A e \in Flushed.msgs : Local(e) # Local(r)
  <2> SUFFICES ASSUME NEW e \in Flushed.msgs, Local(e) = k
               PROVE  FALSE
    BY <1>4
  <2>1. IsUser(e)
    BY <1>1 DEF IsUser
  <2>2. k \in Posted
    BY <1>5, <2>1 DEF RowsOf
  <2> QED BY <1>3, <2>2 DEF Posted
<1> QED BY <1>2, <1>3, <1>4, <1>6 DEF r

LEMMA SendOk ==
    ASSUME PostsOk, FrameOk, WindowOk, Onward, NEW k \in Turn, Send(k)
    PROVE  WindowOf(w', Posted')
<1> DEFINE r == NewRow(-k, 0, FALSE, clock + 1)
<1>1. /\ IsRow(r) /\ r.id < 0 /\ Local(r) = k
      /\ \A e \in Flushed.msgs : Local(e) # Local(r)
      /\ w' = AppendOptimistic(Flushed, r)
  BY SendIs
<1> HIDE DEF r
<1>2. posts' = [posts EXCEPT ![k] = "posting"]
  BY DEF Send
<1>3. k \in Posted'
  BY <1>2 DEF PostsOk, Posted
<1>4. WindowOf(Flushed, Posted')
  BY FlushedOk, MoreTurns DEF WindowOf, Onward
<1> QED BY <1>1, <1>3, <1>4, AppendOptimisticOk

LEMMA AnswerOk ==
    ASSUME FrameOk, WindowOk, NEW k \in Turn, Answer(k)
    PROVE  WindowOf(w', Posted)
<1>1. PICK sent \in BOOLEAN :
         LET mark(R) == {IF Local(r) = k THEN [r EXCEPT !.sent = sent] ELSE r : r \in R} IN
         w' = Build([Flushed EXCEPT !.msgs = mark(Flushed.msgs), !.pending = mark(Flushed.pending)])
  BY DEF Answer
<1> DEFINE g(r) == IF Local(r) = k THEN [r EXCEPT !.sent = sent] ELSE r
           m == {g(r) : r \in Flushed.msgs}
           p == {g(r) : r \in Flushed.pending}
<1>2. w' = Build([Flushed EXCEPT !.msgs = m, !.pending = p])
  BY <1>1
<1>3. ASSUME NEW R, RowsOf(R, Posted)
      PROVE  LET U == {g(r) : r \in R} IN
             RowsOf(U, Posted) /\ (Single(R) => Single(U)) /\ (Stored(R) => Stored(U))
  <2> DEFINE f == [r \in R |-> g(r)]
  <2>1. \A r \in R : IsRow(g(r)) /\ g(r).id = r.id
    BY <1>3, Changed DEF RowsOf
  <2> HIDE DEF g
  <2>2. \A r \in R : IsRow(f[r]) /\ f[r].id = r.id
    BY <2>1
  <2>3. {g(r) : r \in R} = {f[r] : r \in R}
    OBVIOUS
  <2> HIDE DEF f
  <2> DEFINE P == Posted
  <2>4. RowsOf(R, P)
    BY <1>3
  <2> HIDE DEF P
  <2>5. LET V == {f[r] : r \in R} IN
        RowsOf(V, P) /\ (Single(R) => Single(V)) /\ (Stored(R) => Stored(V))
    BY <2>2, <2>4, MappedOk
  <2>6. LET V == {f[r] : r \in R} IN
        RowsOf(V, Posted) /\ (Single(R) => Single(V)) /\ (Stored(R) => Stored(V))
    BY <2>5 DEF P
  <2> QED BY <2>3, <2>6
<1>4. WindowOf(Flushed, Posted)
  BY FlushedOk
<1> HIDE DEF g
<1>5. RowsOf(m, Posted) /\ Single(m) /\ RowsOf(p, Posted) /\ Single(p) /\ Stored(p)
  BY <1>3, <1>4 DEF WindowOf
<1> HIDE DEF m, p
<1>6. IsWindow(Flushed) /\ ~Flushed.hasNewer
  BY <1>4 DEF WindowOf
<1>7. LET u == [Flushed EXCEPT !.msgs = m, !.pending = p] IN
      IsWindow(u) /\ u.msgs = m /\ u.pending = p /\ (u.hasNewer <=> Flushed.hasNewer)
      /\ (u.hasMore <=> Flushed.hasMore) /\ (u.spilled <=> Flushed.spilled)
  BY <1>6, BothSet
<1>8. WindowOf([Flushed EXCEPT !.msgs = m, !.pending = p], Posted)
  BY <1>5, <1>6, <1>7 DEF WindowOf
<1> QED BY <1>2, <1>8, BuildOk

LEMMA CancelOk ==
    ASSUME FrameOk, WindowOk, CancelsOk, NEW k \in Turn, CancelClick(k) \/ CancelAnswer(k) \/ CancelFails(k)
    PROVE  WindowOf(w', Posted)
<1>1. WindowOf(Flushed, Posted) /\ WindowOf(w, Posted)
  BY FlushedOk DEF WindowOk
<1>2. CASE CancelClick(k)
  BY <1>1, <1>2, WithoutOk DEF CancelClick
<1> DEFINE r == cancels[k].row
           q == [r EXCEPT !.sent = TRUE]
<1>3. cancels[k].phase \in Pending => IsRow(r) /\ (IsUser(r) => Local(r) \in Posted) /\ r.id > 0
  BY DEF CancelsOk, FromHub, RowsOf, Stored
<1>4. CASE CancelAnswer(k)
  <2>1. cancels[k].phase \in Pending
    BY <1>4 DEF CancelAnswer, Pending
  <2>2. w' = w \/ w' = AppendOptimistic(Flushed, q)
    BY <1>4 DEF CancelAnswer
  <2> HIDE DEF r
  <2>3. IsRow(q) /\ q.id = r.id
    BY <1>3, <2>1, Changed
  <2> HIDE DEF q
  <2>4. (IsUser(q) => Local(q) \in Posted) /\ q.id > 0
    BY <1>3, <2>1, <2>3, SameTurn
  <2> QED BY <1>1, <2>2, <2>3, <2>4, AppendOptimisticOk
<1>5. CASE CancelFails(k)
  <2>1. cancels[k].phase \in Pending /\ w' = AppendOptimistic(Flushed, r)
    BY <1>5 DEF CancelFails, Pending
  <2> HIDE DEF r
  <2> QED BY <1>1, <1>3, <2>1, AppendOptimisticOk
<1> QED BY <1>2, <1>4, <1>5

LEMMA WindowStep ==
    ASSUME ShowInv, page'.kind # "older", [Next]_vars
    PROVE  WindowOk'
<1>0. Onward
  BY PostsStep DEF ShowInv
<1> USE DEF ShowInv
<1>1. WindowOf(Flushed, Posted) /\ WindowOf(w, Posted)
  BY FlushedOk DEF WindowOk
<1>2. ASSUME WindowOf(w', Posted)
      PROVE  WindowOk'
  BY <1>0, <1>2, MoreTurns DEF WindowOk, WindowOf, Onward
<1>3. CASE UNCHANGED <<w, frame>>
  BY <1>1, <1>2, <1>3
<1>4. CASE LandRead \/ FailRead
  BY <1>1, <1>2, <1>4, ApplyLatestOk, EndReadOk DEF LandRead, FailRead
<1>5. CASE StrayLands
  <2>1. w' = w \/ w' = Flushed
    BY <1>5 DEF StrayLands
  <2> QED BY <1>1, <1>2, <2>1
<1>6. CASE RunTask
  <2>1. w' \in {w, Flushed, FreshWindow}
    BY <1>6 DEF RunTask, Refresh, Wipe
  <2> QED BY <1>1, <1>2, <2>1, FreshOk
<1>7. CASE FlushFrame
  BY <1>1, <1>2, <1>7 DEF FlushFrame
<1>8. CASE LandPage
  BY <1>8 DEF LandPage, NoPage
<1>9. ASSUME NEW s \in Stream, Handle(s)
      PROVE  WindowOk'
  BY <1>2, <1>9, HandleOk
<1>10. CASE ScrollAway
  BY <1>1, <1>2, <1>10, AtBottomOk DEF ScrollAway
<1>11. CASE ToBottom \/ Return
  <2> DEFINE v == [Flushed EXCEPT !.atBottom = TRUE]
  <2>1. WindowOf(v, Posted)
    BY <1>1, AtBottomOk
  <2>2. w' = v \/ w' = FlushPending(v)
    BY <1>11 DEF ToBottom, Return
  <2> HIDE DEF v
  <2> QED BY <1>2, <2>1, <2>2, FlushPendingOk
<1>12. ASSUME NEW k \in Turn, Send(k)
       PROVE  WindowOk'
  BY <1>0, <1>12, SendOk DEF WindowOk
<1>13. ASSUME NEW k \in Turn, Answer(k)
       PROVE  WindowOk'
  BY <1>2, <1>13, AnswerOk
<1>14. ASSUME NEW k \in Turn, FailPost(k)
       PROVE  WindowOk'
  <2>1. w' = Without(Flushed, {k, -k})
    BY <1>14 DEF FailPost
  <2> QED BY <1>1, <1>2, <2>1, WithoutOk
<1>15. ASSUME NEW k \in Turn, CancelClick(k) \/ CancelAnswer(k) \/ CancelFails(k)
       PROVE  WindowOk'
  BY <1>2, <1>15, CancelOk
<1> QED
  BY <1>3, <1>4, <1>5, <1>6, <1>7, <1>8, <1>9, <1>10, <1>11, <1>12, <1>13, <1>14, <1>15,
     AskPageNever, WhoChanges DEF Browses

LEMMA FrameChange ==
    ASSUME ShowInv, page'.kind # "older", [Next]_vars
    PROVE  \/ frame' \in {frame, <<>>}
           \/ \E s \in Stream : Handle(s) /\ frame' = Append(frame, log[stream[s].done + 1].row)
<1> USE DEF ShowInv
<1>1. ASSUME NEW s \in Stream, Handle(s)
      PROVE  frame' \in {frame, <<>>} \/ frame' = Append(frame, log[stream[s].done + 1].row)
  BY <1>1, HandleOk
<1>2. CASE LandRead \/ FailRead
  <2>1. WindowOf(w, Posted) /\ WindowOf(ApplyLatest(w), Posted)
    BY ApplyLatestOk DEF WindowOk
  <2> QED BY <1>2, <2>1, EndReadOk DEF LandRead, FailRead
<1>3. CASE StrayLands \/ RunTask \/ FlushFrame
  BY <1>3 DEF StrayLands, RunTask, Refresh, Wipe, FlushFrame
<1>4. CASE LandPage
  BY <1>4 DEF LandPage, NoPage
<1>5. CASE ScrollAway \/ ToBottom \/ Return
  BY <1>5 DEF ScrollAway, ToBottom, Return
<1>6. ASSUME NEW k \in Turn, Send(k) \/ Answer(k) \/ FailPost(k) \/ CancelClick(k) \/ CancelAnswer(k) \/ CancelFails(k)
      PROVE  frame' \in {frame, <<>>}
  BY <1>6 DEF Send, Answer, FailPost, CancelClick, CancelAnswer, CancelFails
<1>7. CASE UNCHANGED frame
  BY <1>7
<1> QED BY <1>1, <1>2, <1>3, <1>4, <1>5, <1>6, <1>7, AskPageNever, WhoChanges DEF Browses

LEMMA FrameStep ==
    ASSUME ShowInv, page'.kind # "older", [Next]_vars
    PROVE  FrameOk'
<1>0. Onward
  BY PostsStep DEF ShowInv
<1> USE DEF ShowInv
<1>1. PICK S : frame \in Seq(S) /\ RowsOf(S, Posted') /\ Stored(S)
  BY <1>0, FromHubLater DEF FrameOk
<1>2. CASE frame' = frame
  BY <1>1, <1>2 DEF FrameOk, FromHub
<1>3. CASE frame' = <<>>
  <2>1. frame' \in Seq({})
    BY <1>3
  <2> QED BY <2>1, NoRows DEF FrameOk, FromHub
<1>4. ASSUME NEW s \in Stream, Handle(s), frame' = Append(frame, log[stream[s].done + 1].row)
      PROVE  FrameOk'
  <2> DEFINE r == log[stream[s].done + 1].row
  <2>1. frame' = Append(frame, r)
    BY <1>4
  <2>2. RowsOf({r}, Posted') /\ Stored({r})
    BY <1>0, <1>4, ReceivedIs, FromHubLater DEF Handle
  <2> HIDE DEF r
  <2>3. frame' \in Seq(S \cup {r})
    BY <1>1, <2>1, Longer
  <2>4. RowsOf(S \cup {r}, Posted') /\ Stored(S \cup {r})
    BY <1>1, <2>2 DEF RowsOf, Stored
  <2> QED BY <2>3, <2>4 DEF FrameOk, FromHub
<1> QED BY <1>2, <1>3, <1>4, FrameChange

LEMMA ShowInitially == Init => ShowInv
<1> SUFFICES ASSUME Init PROVE ShowInv
  OBVIOUS
<1>1. PostsOk
  BY DEF Init, PostsOk
<1>2. TableOk
  <2> DEFINE f == [n \in 1..OldRows |-> NewRow(MaxTurns + n, n, TRUE, n)]
  <2>0. MaxTurns \in Nat /\ OldRows \in Nat
    BY WindowAssumption
  <2>1. table = {f[n] : n \in 1..OldRows}
    BY DEF Init
  <2>2. ASSUME NEW n \in 1..OldRows
        PROVE  IsRow(f[n]) /\ f[n].id = MaxTurns + n
    <3>1. f[n] = NewRow(MaxTurns + n, n, TRUE, n)
      OBVIOUS
    <3>2. MaxTurns + n \in Int
      BY <2>0
    <3> HIDE DEF f
    <3>3. IsRow(NewRow(MaxTurns + n, n, TRUE, n)) /\ NewRow(MaxTurns + n, n, TRUE, n).id = MaxTurns + n
      BY <3>2, OldRowIs
    <3> QED BY <3>1, <3>3
  <2> HIDE DEF f
  <2>3. \A r \in table : IsRow(r) /\ r.id > 0 /\ r.id \notin Turn
    BY <2>0, <2>1, <2>2 DEF Turn
  <2>4. \A r \in table : ~IsUser(r)
    BY <2>3, LocalIs DEF IsRow
  <2>5. RowsOf(table, Posted) /\ Stored(table) /\ Single(table)
    BY <2>3, <2>4 DEF RowsOf, Stored, Single
  <2> QED BY <2>3, <2>5 DEF TableOk, FromHub, Ids
<1>3. LogOk
  <2>1. log \in Seq({})
    BY DEF Init
  <2> QED BY <2>1 DEF LogOk
<1>4. StreamsOk
  BY DEF Init, StreamsOk, ClosedStream, None
<1>5. FrameOk
  <2>1. frame \in Seq({})
    BY DEF Init
  <2> QED BY <2>1, NoRows DEF FrameOk, FromHub
<1>6. ReadOk
  <2>1. NoRead \in [phase : {"idle", "asked"}, snap : {{}}, more : {FALSE}, eligible : {{}}]
    BY DEF NoRead
  <2>2. read \in [phase : {"idle", "asked"}, snap : {{}}, more : {FALSE}, eligible : {{}}]
    BY <2>1 DEF Init
  <2> QED BY <2>2, NoRows DEF ReadOk, FromHub
<1>7. CancelsOk
  <2>1. cancels \in [Turn -> [phase : Pending \cup {"none", "done"}, row : {NoRow}]]
        /\ \A k \in Turn : cancels[k].phase \notin Pending
    BY DEF Init, Pending
  <2> QED BY <2>1 DEF CancelsOk
<1>8. WindowOk /\ page = NoPage
  BY FreshOk DEF Init, WindowOk
<1> QED BY <1>1, <1>2, <1>3, <1>4, <1>5, <1>6, <1>7, <1>8 DEF ShowInv

LEMMA ShowStep ==
    ASSUME ShowInv, page'.kind # "older", [Next]_vars
    PROVE  ShowInv'
<1>1. PostsOk'
  BY PostsStep DEF ShowInv, Onward
<1>2. TableOk' /\ LogOk' /\ StreamsOk' /\ ReadOk' /\ CancelsOk' /\ page' = NoPage
  BY HubStep, StreamsStep, ReadStep, CancelsStep, PageStep DEF ShowInv
<1> QED BY <1>1, <1>2, FrameStep, WindowStep DEF ShowInv

\* As long as the person does not page back to older rows, the thread never
\* shows two rows for one turn, whatever its optimistic copy, its event on two
\* streams, the latest pages and the answers of the POST and of the cancel do to
\* each other: the property of run window_turns.
THEOREM TurnsAreShownOnce ==
    Spec /\ [](page.kind # "older") => []TurnShownOnce
<1>1. ShowInv => TurnShownOnce
  BY DEF ShowInv, WindowOk, WindowOf, Single, TurnShownOnce
<1>2. ShowInv /\ (page.kind # "older")' /\ [Next]_vars => ShowInv'
  BY ShowStep
<1> QED BY <1>1, <1>2, ShowInitially, PTL DEF Spec

-----------------------------------------------------------------------------
(* A session in which only the agent writes: its rows.                     *)

LastId == MaxOutput + 1

\* The row with number i, as it is anywhere: a merge may have changed its seq,
\* and the row a merge brought in is older than all.
AgentRow(i, s) == NewRow(i, s, TRUE, IF i = LastId THEN 0 ELSE i)
Known(c) == {AgentRow(i, s) : i \in (1..c) \cup {LastId}, s \in 1..LastId}
TopId(c) == IF c = 0 THEN LastId ELSE c

LEMMA KnownIs ==
    ASSUME MaxTurns = 0, NEW c \in 0..MaxOutput, NEW r \in Known(c)
    PROVE  /\ r.id \in (1..c) \cup {LastId} /\ r.id \in Int /\ r.seq \in 1..LastId
           /\ r.inv = TRUE /\ r.at = IF r.id = LastId THEN 0 ELSE r.id
           /\ r.at \in 0..c /\ r = AgentRow(r.id, r.seq)
           /\ (r.at = c <=> r.id = TopId(c))
           /\ Local(r) = 0 /\ ~IsUser(r) /\ ~IsOptimistic(r) /\ ~IsQueued(r)
<1>1. PICK i \in (1..c) \cup {LastId}, s \in 1..LastId : r = AgentRow(i, s)
  BY DEF Known
<1>2. r.id = i /\ r.seq = s /\ r.inv = TRUE /\ r.at = IF i = LastId THEN 0 ELSE i
  BY <1>1 DEF AgentRow, NewRow
<1>3. MaxOutput \in Nat /\ c \in Nat /\ c <= MaxOutput
  BY WindowAssumption
<1>4. r.at \in 0..c /\ (r.at = c <=> r.id = TopId(c))
  BY <1>2, <1>3 DEF LastId, TopId
<1>5. ~(r.id < 0) /\ r.id \notin Turn
  BY <1>2, <1>3 DEF LastId, Turn
<1>6. Local(r) = 0
  BY <1>5 DEF Local
<1> QED BY <1>1, <1>2, <1>3, <1>4, <1>5, <1>6 DEF IsUser, IsOptimistic, IsQueued, LastId

LEMMA KnownMore ==
    ASSUME NEW c \in Nat, NEW d \in Nat, c <= d
    PROVE  Known(c) \subseteq Known(d)
<1>1. (1..c) \cup {LastId} \subseteq (1..d) \cup {LastId}
  OBVIOUS
<1> QED BY <1>1 DEF Known

LEMMA KnownFinite ==
    ASSUME MaxTurns = 0, NEW c \in 0..MaxOutput, NEW S \in SUBSET Known(c)
    PROVE  IsFiniteSet(S) /\ Cardinality(S) \in Nat
<1> DEFINE T == (0..LastId) \X (0..LastId)
           f == [r \in Known(c) |-> <<r.id, r.seq>>]
<1>1. MaxOutput \in Nat /\ LastId \in Nat /\ 0 \in Int /\ LastId \in Int
  BY WindowAssumption DEF LastId
<1>2. IsFiniteSet(0..LastId)
  BY <1>1, FS_Interval
<1>3. IsFiniteSet(T)
  BY <1>2, FS_Product
<1>4. ASSUME NEW r \in Known(c) PROVE <<r.id, r.seq>> \in T
  <2>1. r.id \in (1..c) \cup {LastId} /\ r.seq \in 1..LastId
    BY KnownIs
  <2>2. r.id \in 0..LastId /\ r.seq \in 0..LastId
    BY <1>1, <2>1 DEF LastId
  <2> QED BY <2>2
<1>5. ASSUME NEW q \in Known(c), NEW r \in Known(c), <<q.id, q.seq>> = <<r.id, r.seq>>
      PROVE  q = r
  <2>1. q.id = r.id /\ q.seq = r.seq
    BY <1>5
  <2>2. q = AgentRow(q.id, q.seq) /\ r = AgentRow(r.id, r.seq)
    BY KnownIs
  <2> QED BY <2>1, <2>2
<1> HIDE DEF T
<1>6. f \in [Known(c) -> T]
  BY <1>4
<1>7. \A q, r \in Known(c) : f[q] = f[r] => q = r
  BY <1>5
<1> HIDE DEF f
<1>8. f \in Injection(Known(c), T)
  BY <1>6, <1>7 DEF Injection, IsInjective
<1>9. IsFiniteSet(Known(c))
  BY <1>3, <1>8, FS_Injection
<1>10. IsFiniteSet(S)
  BY <1>9, FS_Subset
<1> QED BY <1>10, FS_CardinalityType

\* Agent rows are merged by id, and the copy that comes in counts.
LEMMA MergePlain ==
    ASSUME MaxTurns = 0, NEW c \in 0..MaxOutput, NEW E \in SUBSET Known(c), NEW I \in SUBSET Known(c)
    PROVE  /\ ById(E, I) = {e \in E : e.id \notin Ids(I)} \cup I
           /\ MergeRows(E, I) = ById(E, I)
           /\ StoredLocals(I) = {}
           /\ ById(E, I) \in SUBSET Known(c)
           /\ Ids(ById(E, I)) = Ids(E) \cup Ids(I)
           /\ \A R \in SUBSET Known(c) : Settle(R, {}) = R
<1> DEFINE F(i) == LET same == {e \in E : e.id = i.id} IN
                   IF same = {} THEN i ELSE Newer(CHOOSE e \in same : TRUE, i)
<1>1. \A i \in I : F(i) = i
  <2> TAKE i \in I
  <2>1. i.inv = TRUE
    BY KnownIs
  <2> QED BY <2>1 DEF Newer
<1>2. ById(E, I) = {e \in E : e.id \notin Ids(I)} \cup {F(i) : i \in I}
  BY DEF ById
<1> HIDE DEF F
<1>3. {F(i) : i \in I} = I
  BY <1>1
<1>4. ById(E, I) = {e \in E : e.id \notin Ids(I)} \cup I
  BY <1>2, <1>3
<1>5. ById(E, I) \in SUBSET Known(c)
  BY <1>4
<1>6. Ids(ById(E, I)) = Ids(E) \cup Ids(I)
  BY <1>4 DEF Ids
<1>7. StoredLocals(I) = {}
  BY KnownIs DEF StoredLocals
<1>8. ASSUME NEW R \in SUBSET Known(c) PROVE Settle(R, {}) = R
  <2> DEFINE gone == {r \in R : IsOptimistic(r) /\ Local(r) \in {}}
             kept == {IF \E o \in gone : Local(o) = Local(r)
                      THEN Adopt(r, CHOOSE o \in gone : Local(o) = Local(r))
                      ELSE r : r \in R \ gone}
  <2>1. gone = {}
    OBVIOUS
  <2>2. kept = {r : r \in R}
    BY <2>1
  <2>3. kept = R
    BY <2>2
  <2>4. Settle(R, {}) = {r \in kept : IsOptimistic(r) /\ r.sent /\ Close =>
                                          ~\E q \in kept : IsUser(q) /\ ~IsOptimistic(q)}
    BY DEF Settle
  <2> HIDE DEF kept
  <2> QED BY <2>3, <2>4, KnownIs
<1>9. MergeRows(E, I) = ById(E, I)
  <2>1. CASE I = {}
    <3>1. ById(E, I) = E
      BY <1>4, <2>1 DEF Ids
    <3> QED BY <2>1, <3>1 DEF MergeRows
  <2>2. CASE I # {}
    BY <2>2, <1>5, <1>7, <1>8 DEF MergeRows
  <2> QED BY <2>1, <2>2
<1> QED BY <1>4, <1>5, <1>6, <1>7, <1>8, <1>9

LEMMA MergeIds ==
    ASSUME MaxTurns = 0, NEW c \in 0..MaxOutput, NEW E, NEW I, E \subseteq Known(c), I \subseteq Known(c)
    PROVE  /\ MergeRows(E, I) \subseteq Known(c) /\ Ids(MergeRows(E, I)) = Ids(E) \cup Ids(I)
           /\ ById(E, I) \subseteq Known(c) /\ Ids(ById(E, I)) = Ids(E) \cup Ids(I)
<1>1. E \in SUBSET Known(c) /\ I \in SUBSET Known(c)
  OBVIOUS
<1>2. MergeRows(E, I) = ById(E, I)
  BY <1>1, MergePlain
<1>3. ById(E, I) \in SUBSET Known(c)
  BY <1>1, MergePlain
<1>4. Ids(ById(E, I)) = Ids(E) \cup Ids(I)
  BY <1>1, MergePlain
<1> QED BY <1>2, <1>3, <1>4

LEMMA MergeKeeps ==
    ASSUME MaxTurns = 0, NEW c \in 0..MaxOutput, NEW E, NEW I, E \subseteq Known(c), I \subseteq Known(c)
    PROVE  MergeRows(E, I) = {e \in E : e.id \notin Ids(I)} \cup I
<1>1. E \in SUBSET Known(c) /\ I \in SUBSET Known(c)
  OBVIOUS
<1>2. MergeRows(E, I) = ById(E, I)
  BY <1>1, MergePlain
<1>3. ById(E, I) = {e \in E : e.id \notin Ids(I)} \cup I
  BY <1>1, MergePlain
<1> QED BY <1>2, <1>3

LEMMA SettlePlain ==
    ASSUME MaxTurns = 0, NEW c \in 0..MaxOutput, NEW R, NEW I, R \subseteq Known(c), I \subseteq Known(c)
    PROVE  Settle(R, StoredLocals(I)) = R
<1>1. R \in SUBSET Known(c) /\ I \in SUBSET Known(c)
  OBVIOUS
<1>2. StoredLocals(I) = {}
  BY <1>1, MergePlain
<1>3. Settle(R, {}) = R
  BY <1>1, MergePlain
<1> QED BY <1>2, <1>3

-----------------------------------------------------------------------------
(* Ends of a set of rows.                                                  *)

LEMMA SmallestNumber ==
    ASSUME NEW S, S \subseteq Nat, S # {}
    PROVE  \E x \in S : \A y \in S : x <= y
<1>1. IsWellFoundedOn(OpToRel(<, Nat), Nat)
  BY NatLessThanWellFounded
<1>2. PICK x \in S : \A y \in S : ~(<<y, x>> \in OpToRel(<, Nat))
  BY <1>1, WFMin
<1>3. \A y \in S : ~(y < x)
  BY <1>2 DEF OpToRel
<1> QED BY <1>3

LEMMA EndsAre ==
    ASSUME NEW n \in Nat, NEW S \in SUBSET (0..n)
    PROVE  /\ S = {} => Highest(S) = None /\ Lowest(S) = None
           /\ S # {} => /\ Highest(S) \in S /\ \A m \in S : m <= Highest(S)
                        /\ Lowest(S) \in S /\ \A m \in S : m >= Lowest(S)
           /\ Highest(S) \in (-1)..n /\ Lowest(S) \in (-1)..n
<1>1. S = {} => Highest(S) = None /\ Lowest(S) = None
  BY DEF Highest, Lowest
<1>2. ASSUME S # {} PROVE \E h \in S : \A m \in S : h >= m
  <2> DEFINE D == {n - m : m \in S}
  <2>1. D \subseteq Nat /\ D # {}
    <3>1. \A m \in S : n - m \in Nat
      OBVIOUS
    <3>2. D # {}
      BY <1>2
    <3> QED BY <3>1, <3>2
  <2>2. PICK d \in D : \A e \in D : d <= e
    BY <2>1, SmallestNumber
  <2>3. PICK h \in S : d = n - h
    BY <2>2
  <2>4. \A m \in S : n - h <= n - m
    BY <2>2, <2>3
  <2>5. \A m \in S : h >= m
    <3> TAKE m \in S
    <3>1. n - h <= n - m /\ h \in Int /\ m \in Int
      BY <2>3, <2>4
    <3> QED BY <3>1
  <2> QED BY <2>5
<1>3. ASSUME S # {} PROVE \E h \in S : \A m \in S : h <= m
  <2>1. S \subseteq Nat
    OBVIOUS
  <2> QED BY <1>3, <2>1, SmallestNumber
<1>4. S # {} => /\ Highest(S) \in S /\ \A m \in S : m <= Highest(S)
                /\ Lowest(S) \in S /\ \A m \in S : m >= Lowest(S)
  BY <1>2, <1>3 DEF Highest, Lowest
<1>5. Highest(S) \in (-1)..n /\ Lowest(S) \in (-1)..n
  <2>1. CASE S = {}
    BY <1>1, <2>1 DEF None
  <2>2. CASE S # {}
    <3>1. Highest(S) \in 0..n /\ Lowest(S) \in 0..n
      BY <1>4, <2>2
    <3> QED BY <3>1
  <2> QED BY <2>1, <2>2
<1> QED BY <1>1, <1>4, <1>5

LEMMA StampsAre ==
    ASSUME MaxTurns = 0, NEW c \in 0..MaxOutput, NEW R \in SUBSET Known(c)
    PROVE  /\ Stamps(R) \in SUBSET (0..c)
           /\ Stamps(R) = {} <=> R = {}
           /\ Highest(Stamps(R)) \in (-1)..c /\ Lowest(Stamps(R)) \in (-1)..c
           /\ R # {} => \E r \in R : Highest(Stamps(R)) = r.at
<1>1. \A r \in R : r.seq # 0 /\ r.at \in 0..c
  <2> TAKE r \in R
  <2>1. r.seq \in 1..LastId /\ r.at \in 0..c
    BY KnownIs
  <2> QED BY <2>1
<1>2. Stamps(R) = {r.at : r \in R}
  BY <1>1 DEF Stamps
<1>3. Stamps(R) \in SUBSET (0..c) /\ (Stamps(R) = {} <=> R = {})
  BY <1>1, <1>2
<1>4. c \in Nat
  BY WindowAssumption
<1>5. /\ Highest(Stamps(R)) \in (-1)..c /\ Lowest(Stamps(R)) \in (-1)..c
      /\ R # {} => Highest(Stamps(R)) \in Stamps(R)
  BY <1>3, <1>4, EndsAre
<1> QED BY <1>2, <1>3, <1>5

\* Nothing comes after the row that was written last.
LEMMA NewestKeeps ==
    ASSUME MaxTurns = 0, NEW c \in 0..MaxOutput, NEW R \in SUBSET Known(c), NEW n \in Nat \ {0}
    PROVE  /\ Newest(R, n) \in SUBSET R
           /\ \A t \in R : t.id = TopId(c) => t \in Newest(R, n)
           /\ TopId(c) \in Ids(R) => TopId(c) \in Ids(Newest(R, n))
<1>1. Newest(R, n) \in SUBSET R
  BY DEF Newest
<1>2. ASSUME NEW t \in R, t.id = TopId(c)
      PROVE  t \in Newest(R, n)
  <2>1. t.at = c
    BY <1>2, KnownIs
  <2>2. ASSUME NEW q \in R PROVE ~After(q, t)
    <3>1. q.at \in 0..c /\ (q.at = c => q.id = TopId(c)) /\ q.id \in Int
      BY KnownIs
    <3> QED BY <1>2, <2>1, <3>1 DEF After
  <2>3. {q \in R : After(q, t)} = {}
    BY <2>2
  <2>4. Cardinality({q \in R : After(q, t)}) = 0
    BY <2>3, FS_EmptySet
  <2> QED BY <2>4 DEF Newest
<1>3. TopId(c) \in Ids(R) => TopId(c) \in Ids(Newest(R, n))
  BY <1>2 DEF Ids
<1> QED BY <1>1, <1>2, <1>3

\* The newest row of a table.
LEMMA NewestIsTop ==
    ASSUME MaxTurns = 0, NEW c \in 0..MaxOutput, NEW R \in SUBSET Known(c),
           TopId(c) \in Ids(R), NEW r \in Newest(R, 1)
    PROVE  r.id = TopId(c) /\ r.at = c
<1>1. PICK t \in R : t.id = TopId(c)
  BY DEF Ids
<1>2. r \in R
  BY DEF Newest
<1>3. Cardinality({q \in R : After(q, r)}) < 1
  BY DEF Newest
<1>4. {q \in R : After(q, r)} \in SUBSET Known(c)
  OBVIOUS
<1>5. {q \in R : After(q, r)} = {}
  <2>1. IsFiniteSet({q \in R : After(q, r)}) /\ Cardinality({q \in R : After(q, r)}) \in Nat
    BY <1>4, KnownFinite
  <2>2. Cardinality({q \in R : After(q, r)}) = 0
    BY <1>3, <2>1
  <2> QED BY <2>1, <2>2, FS_EmptySet
<1>6. ~After(t, r)
  BY <1>1, <1>5
<1>7. t.at = c /\ r.at \in 0..c /\ (r.at = c => r.id = TopId(c))
  BY <1>1, <1>2, KnownIs
<1> QED BY <1>6, <1>7, WindowAssumption DEF After

\* A page or thread that leaves newer rows out does not have the newest.
LEMMA OldestLacksTop ==
    ASSUME MaxTurns = 0, NEW c \in 0..MaxOutput, NEW R \in SUBSET Known(c), NEW n \in Nat \ {0},
           Oldest(R, n) # R
    PROVE  Oldest(R, n) # {} /\ \A r \in Oldest(R, n) : r.at < c
<1> DEFINE Before(r) == {q \in R : After(r, q)}
<1>1. \A r \in R : IsFiniteSet(Before(r)) /\ Cardinality(Before(r)) \in Nat
  <2> TAKE r \in R
  <2>1. Before(r) \in SUBSET Known(c)
    OBVIOUS
  <2> QED BY <2>1, KnownFinite
<1>2. Oldest(R, n) = {r \in R : Cardinality(Before(r)) < n}
  BY DEF Oldest
<1>3. \A r \in R : r.at \in 0..c /\ r.id \in Int /\ (r.at = c <=> r.id = TopId(c))
  BY KnownIs
<1>4. c \in Nat
  BY WindowAssumption
<1>5. PICK d \in R : ~(Cardinality(Before(d)) < n)
  BY <1>2
<1>6. ASSUME NEW t \in R, Cardinality(Before(t)) < n PROVE t.at < c
  <2> SUFFICES ASSUME t.at = c PROVE FALSE
    BY <1>3, <1>4
  <2>1. Before(d) \subseteq Before(t)
    <3> SUFFICES ASSUME NEW q \in R, After(d, q) PROVE After(t, q)
      OBVIOUS
    <3>1. q.at \in 0..c /\ q.id \in Int /\ d.at \in 0..c /\ d.id \in Int
      BY <1>3
    <3>2. d.at = c => d.id = t.id
      BY <1>3
    <3> QED BY <1>4, <3>1, <3>2 DEF After
  <2> HIDE DEF Before
  <2>2. Cardinality(Before(d)) <= Cardinality(Before(t))
    BY <1>1, <2>1, FS_Subset
  <2> QED BY <1>1, <1>5, <1>6, <2>2
<1>7. Oldest(R, n) # {}
  <2>1. {r.at : r \in R} \subseteq Nat /\ {r.at : r \in R} # {}
    BY <1>3, <1>5
  <2>2. PICK x \in {r.at : r \in R} : \A y \in {r.at : r \in R} : x <= y
    BY <2>1, SmallestNumber
  <2>3. PICK b \in R : \A q \in R : b.at <= q.at
    BY <2>2
  <2> DEFINE S == {q.id : q \in {r \in R : r.at = b.at}}
  <2>4. S \subseteq Nat /\ S # {}
    <3>1. \A r \in R : r.id \in (1..c) \cup {LastId}
      BY KnownIs
    <3>2. LastId \in Nat
      BY WindowAssumption DEF LastId
    <3>3. S \subseteq Nat
      BY <3>1, <3>2
    <3>4. S # {}
      BY <2>3
    <3> QED BY <3>3, <3>4
  <2>5. PICK i \in S : \A j \in S : i <= j
    BY <2>4, SmallestNumber
  <2>6. PICK e \in R : e.at = b.at /\ e.id = i
    BY <2>5
  <2>7. Before(e) = {}
    <3> SUFFICES ASSUME NEW q \in R, After(e, q) PROVE FALSE
      OBVIOUS
    <3>1. b.at <= q.at /\ b.at \in Int /\ q.at \in Int
      BY <1>3, <2>3
    <3>2. q.at = b.at /\ e.id > q.id
      BY <2>6, <3>1 DEF After
    <3>3. i <= q.id
      BY <2>5, <3>2
    <3> QED BY <1>3, <2>6, <3>2, <3>3
  <2>8. Cardinality(Before(e)) = 0
    BY <2>7, FS_EmptySet
  <2> QED BY <1>2, <2>8
<1> QED BY <1>2, <1>6, <1>7

-----------------------------------------------------------------------------
(* Windows of such a session.                                              *)

WindowSet(c, F) ==
    [msgs : SUBSET Known(c), pending : SUBSET Known(c), spilled : BOOLEAN, hasMore : BOOLEAN,
     hasNewer : BOOLEAN, oldest : (-1)..c, newest : (-1)..c, atBottom : BOOLEAN, frontier : F]

\* A thread that has newer rows to page ends before the newest one.
EndsBefore(v, c) == v.hasNewer => v.newest < c /\ \A m \in v.msgs : m.at < c
Faithful(v, c) == (\E F : v \in WindowSet(c, F)) /\ EndsBefore(v, c)

\* The window has the newest row.
Shows(v, c) == TopId(c) \in Ids(v.msgs \cup v.pending)

\* What an operation that takes in rows leaves of a window.
Takes(v, u, R, c) ==
    /\ Faithful(u, c) /\ (u.hasNewer <=> v.hasNewer)
    /\ Shows(v, c) \/ TopId(c) \in Ids(R) => Shows(u, c)

LEMMA IdsAre ==
    ASSUME NEW Q, NEW R
    PROVE  Ids(Q \cup R) = Ids(Q) \cup Ids(R) /\ Ids({}) = {} /\ (Q \subseteq R => Ids(Q) \subseteq Ids(R))
BY DEF Ids

LEMMA FaithfulBuild ==
    ASSUME NEW c, NEW F, NEW v \in WindowSet(c, F)
    PROVE  LET u == Build(v) IN
           /\ \E G : u \in WindowSet(c, G)
           /\ u.msgs = v.msgs /\ u.pending = v.pending /\ (u.hasNewer <=> v.hasNewer)
           /\ u.newest = v.newest /\ u.oldest = v.oldest /\ (u.atBottom <=> v.atBottom)
<1> DEFINE f == Advance(v.frontier, v.msgs \cup v.pending)
           G == F \cup {f}
<1>1. Build(v) = [v EXCEPT !.frontier = f]
  BY DEF Build
<1> HIDE DEF f
<1>2. LET u == [v EXCEPT !.frontier = f] IN
      /\ u \in WindowSet(c, G)
      /\ u.msgs = v.msgs /\ u.pending = v.pending /\ (u.hasNewer <=> v.hasNewer)
      /\ u.newest = v.newest /\ u.oldest = v.oldest /\ (u.atBottom <=> v.atBottom)
  BY DEF WindowSet
<1> QED BY <1>1, <1>2

\* The thread after a trim at its old end.
LEMMA TrimLeaves ==
    ASSUME MaxTurns = 0, NEW c \in 0..MaxOutput, NEW F, NEW v \in WindowSet(c, F),
           NEW merged \in SUBSET Known(c)
    PROVE  LET u == AppendTrim(v, merged) IN
           /\ u \in WindowSet(c, F) /\ u.msgs = Newest(merged, WindowSize)
           /\ u.pending = v.pending /\ ~u.hasNewer /\ (u.atBottom <=> v.atBottom)
<1> DEFINE kept == Newest(merged, WindowSize)
           x == Highest(Stamps(kept))
           y == v.hasMore \/ merged # kept
           z == IF merged # kept /\ Stamps(kept) # {} THEN Lowest(Stamps(kept)) ELSE v.oldest
<1>1. AppendTrim(v, merged)
        = [v EXCEPT !.msgs = kept, !.hasNewer = FALSE, !.newest = x, !.hasMore = y, !.oldest = z]
  BY DEF AppendTrim
<1>2. kept \in SUBSET Known(c)
  BY DEF Newest
<1>3. x \in (-1)..c /\ Lowest(Stamps(kept)) \in (-1)..c
  <2> HIDE DEF kept
  <2> QED BY <1>2, StampsAre
<1>4. v.oldest \in (-1)..c
  BY DEF WindowSet
<1>5. y \in BOOLEAN /\ z \in (-1)..c
  BY <1>3, <1>4
<1> HIDE DEF kept, x, y, z
<1>6. LET u == [v EXCEPT !.msgs = kept, !.hasNewer = FALSE, !.newest = x, !.hasMore = y, !.oldest = z] IN
      /\ u \in WindowSet(c, F) /\ u.msgs = kept /\ u.pending = v.pending /\ ~u.hasNewer
      /\ (u.atBottom <=> v.atBottom)
  BY <1>2, <1>3, <1>5 DEF WindowSet
<1> QED BY <1>1, <1>6 DEF kept

LEMMA AppendTakes ==
    ASSUME MaxTurns = 0, NEW c \in 0..MaxOutput, NEW v, Faithful(v, c), ~v.hasNewer,
           NEW rows \in SUBSET Known(c)
    PROVE  Takes(v, Append2(v, rows), rows, c)
<1>1. PICK F : v \in WindowSet(c, F)
  BY DEF Faithful
<1>2. v.msgs \in SUBSET Known(c) /\ v.pending \in SUBSET Known(c)
  BY <1>1 DEF WindowSet
<1> DEFINE merged == MergeRows(v.msgs, rows)
           u == AppendTrim(v, merged)
           p == {r \in v.pending : r.id \notin Ids(u.msgs)}
           t == [u EXCEPT !.pending = p]
<1>3. merged \in SUBSET Known(c) /\ Ids(merged) = Ids(v.msgs) \cup Ids(rows)
  BY <1>2, MergeIds
<1> HIDE DEF merged
<1>4. /\ u \in WindowSet(c, F) /\ u.msgs = Newest(merged, WindowSize) /\ u.pending = v.pending
      /\ ~u.hasNewer
  BY <1>1, <1>3, TrimLeaves
<1>5. Append2(v, rows) = Build(t)
  BY DEF Append2, merged
<1> HIDE DEF u
<1>6. p \in SUBSET Known(c)
  BY <1>2
<1>7. Ids(u.msgs) \cup Ids(v.pending) \subseteq Ids(u.msgs) \cup Ids(p)
  <2>1. \A r \in v.pending : r.id \notin Ids(u.msgs) => r \in p
    OBVIOUS
  <2> HIDE DEF p
  <2> QED BY <2>1 DEF Ids
<1> HIDE DEF p
<1>8. t \in WindowSet(c, F) /\ t.msgs = u.msgs /\ t.pending = p /\ ~t.hasNewer
  BY <1>4, <1>6 DEF WindowSet
<1> HIDE DEF t
<1>9. LET b == Build(t) IN (\E G : b \in WindowSet(c, G)) /\ b.msgs = u.msgs /\ b.pending = p /\ ~b.hasNewer
  BY <1>8, FaithfulBuild
<1>10. ASSUME TopId(c) \in Ids(v.msgs) \cup Ids(v.pending) \cup Ids(rows)
       PROVE  TopId(c) \in Ids(u.msgs) \cup Ids(p)
  <2>1. WindowSize \in Nat \ {0}
    BY WindowAssumption
  <2>2. TopId(c) \in Ids(merged) => TopId(c) \in Ids(u.msgs)
    BY <1>3, <1>4, <2>1, NewestKeeps
  <2> QED BY <1>3, <1>7, <1>10, <2>2
<1> QED BY <1>5, <1>9, <1>10, IdsAre DEF Takes, Faithful, EndsBefore, Shows

LEMMA PendingTakes ==
    ASSUME MaxTurns = 0, NEW c \in 0..MaxOutput, NEW v, Faithful(v, c), NEW rows \in SUBSET Known(c)
    PROVE  LET u == IntoPending(v, rows) IN
           Takes(v, u, rows, c) /\ u.msgs = v.msgs /\ u.newest = v.newest
<1>1. PICK F : v \in WindowSet(c, F)
  BY DEF Faithful
<1>2. v.msgs \in SUBSET Known(c) /\ v.pending \in SUBSET Known(c) /\ v.spilled \in BOOLEAN
  BY <1>1 DEF WindowSet
<1>3. CASE rows = {}
  BY <1>3, IdsAre DEF IntoPending, Takes
<1>4. CASE rows # {}
  <2> DEFINE merged == MergeRows(v.pending, rows)
             all == {r \in merged : r.id \notin Ids(v.msgs)}
             kept == Newest(all, PendingSize)
             b == v.spilled \/ all # kept
             t == [v EXCEPT !.pending = kept, !.spilled = b]
  <2>1. IntoPending(v, rows) = Build(t)
    BY <1>4 DEF IntoPending
  <2>2. merged \in SUBSET Known(c) /\ Ids(merged) = Ids(v.pending) \cup Ids(rows)
    BY <1>2, MergeIds
  <2> HIDE DEF merged
  <2>3. all \in SUBSET Known(c) /\ Ids(v.msgs) \cup Ids(merged) = Ids(v.msgs) \cup Ids(all)
    BY <2>2 DEF Ids
  <2> HIDE DEF all
  <2>4. PendingSize \in Nat \ {0}
    BY WindowAssumption
  <2>5. kept \in SUBSET Known(c) /\ (TopId(c) \in Ids(all) => TopId(c) \in Ids(kept))
    BY <2>3, <2>4, NewestKeeps
  <2>6. b \in BOOLEAN
    BY <1>2
  <2> HIDE DEF kept, b
  <2>7. /\ t \in WindowSet(c, F) /\ t.msgs = v.msgs /\ t.pending = kept /\ t.newest = v.newest
        /\ (t.hasNewer <=> v.hasNewer)
    BY <1>1, <2>5, <2>6 DEF WindowSet
  <2> HIDE DEF t
  <2>8. LET u == Build(t) IN
        /\ \E G : u \in WindowSet(c, G)
        /\ u.msgs = v.msgs /\ u.pending = kept /\ u.newest = v.newest /\ (u.hasNewer <=> v.hasNewer)
    BY <2>7, FaithfulBuild
  <2>9. EndsBefore(Build(t), c)
    BY <2>8 DEF Faithful, EndsBefore
  <2>10. TopId(c) \in Ids(v.msgs) \cup Ids(v.pending) \cup Ids(rows)
           => TopId(c) \in Ids(v.msgs) \cup Ids(kept)
    BY <2>2, <2>3, <2>5
  <2> DEFINE u == Build(t)
  <2>11. Faithful(u, c)
    BY <2>8, <2>9 DEF Faithful
  <2>12. Ids(v.msgs \cup v.pending) = Ids(v.msgs) \cup Ids(v.pending)
    BY IdsAre
  <2>13. Ids(u.msgs \cup u.pending) = Ids(v.msgs) \cup Ids(kept)
    BY <2>8, IdsAre
  <2> HIDE DEF u
  <2>14. Shows(v, c) \/ TopId(c) \in Ids(rows) => Shows(u, c)
    BY <2>10, <2>12, <2>13 DEF Shows
  <2> QED BY <2>1, <2>8, <2>11, <2>14 DEF Takes, u
<1> QED BY <1>3, <1>4

LEMMA IngestTakes ==
    ASSUME MaxTurns = 0, NEW c \in 0..MaxOutput, NEW v, Faithful(v, c), NEW rows \in SUBSET Known(c)
    PROVE  Takes(v, Ingest(v, rows), rows, c)
<1> DEFINE shown == {r \in rows : \/ r.id \in Ids(v.msgs)
                                  \/ IsUser(r) /\ Local(r) \in {Local(m) : m \in v.msgs}}
           late == v.hasNewer \/ (~v.atBottom /\ Cardinality(v.msgs) + Cardinality(rows \ shown) > WindowSize)
           m == MergeRows(v.msgs, shown)
           s == [v EXCEPT !.msgs = m]
           o == rows \ {r \in rows : IsUser(r)}
<1>1. Ingest(v, rows) = IF late THEN IntoPending(Build(s), rows \ shown)
                        ELSE IF v.atBottom THEN Append2(v, rows)
                        ELSE IntoPending(IF o = {} THEN v ELSE Append2(v, o), {r \in rows : IsUser(r)})
  BY DEF Ingest
<1>2. {r \in rows : IsUser(r)} = {} /\ o = rows
  BY KnownIs
<1>3. shown = {r \in rows : r.id \in Ids(v.msgs)}
  BY KnownIs
<1>4. PICK F : v \in WindowSet(c, F)
  BY DEF Faithful
<1>5. v.msgs \in SUBSET Known(c) /\ v.pending \in SUBSET Known(c)
  BY <1>4 DEF WindowSet
<1>6. CASE late
  <2>1. shown \in SUBSET Known(c) /\ Ids(shown) \subseteq Ids(v.msgs) /\ (rows \ shown) \in SUBSET Known(c)
    BY <1>3 DEF Ids
  <2>2. Ids(rows) = Ids(shown) \cup Ids(rows \ shown)
    BY <1>3 DEF Ids
  <2> HIDE DEF shown
  <2>3. m \in SUBSET Known(c) /\ Ids(m) = Ids(v.msgs)
    <3>1. m \subseteq Known(c) /\ Ids(m) = Ids(v.msgs) \cup Ids(shown)
      BY <1>5, <2>1, MergeIds
    <3> QED BY <2>1, <3>1
  <2> HIDE DEF m
  <2>4. /\ s \in WindowSet(c, F) /\ s.msgs = m /\ s.pending = v.pending /\ (s.hasNewer <=> v.hasNewer)
        /\ s.newest = v.newest
    BY <1>4, <2>3 DEF WindowSet
  <2> HIDE DEF s
  <2>5. LET u == Build(s) IN
        /\ \E G : u \in WindowSet(c, G)
        /\ u.msgs = m /\ u.pending = v.pending /\ u.newest = v.newest /\ (u.hasNewer <=> v.hasNewer)
    BY <2>4, FaithfulBuild
  <2>6. EndsBefore(Build(s), c)
    <3> SUFFICES ASSUME v.hasNewer PROVE Build(s).newest < c /\ \A r \in m : r.at < c
      BY <2>5 DEF EndsBefore
    <3>1. v.newest < c /\ \A r \in v.msgs : r.at < c
      BY DEF Faithful, EndsBefore
    <3>2. \A r \in Known(c) : r.at \in 0..c /\ (r.at = c <=> r.id = TopId(c))
      BY KnownIs
    <3>3. TopId(c) \notin Ids(v.msgs)
      BY <1>5, <3>1, <3>2, WindowAssumption DEF Ids
    <3>4. \A r \in m : r.at < c
      BY <2>3, <3>2, <3>3, WindowAssumption DEF Ids
    <3> QED BY <2>5, <3>1, <3>4
  <2>7. Faithful(Build(s), c) /\ (Shows(Build(s), c) <=> Shows(v, c))
    <3>1. Faithful(Build(s), c)
      BY <2>5, <2>6 DEF Faithful
    <3>2. Ids(Build(s).msgs \cup Build(s).pending) = Ids(v.msgs) \cup Ids(v.pending)
      BY <2>3, <2>5, IdsAre
    <3>3. Ids(v.msgs \cup v.pending) = Ids(v.msgs) \cup Ids(v.pending)
      BY IdsAre
    <3> QED BY <3>1, <3>2, <3>3 DEF Shows
  <2>8. Takes(Build(s), IntoPending(Build(s), rows \ shown), rows \ shown, c)
    BY <2>1, <2>7, PendingTakes
  <2>9. TopId(c) \in Ids(shown) => Shows(v, c)
    BY <2>1, IdsAre DEF Shows
  <2> QED BY <1>1, <1>6, <2>2, <2>5, <2>7, <2>8, <2>9 DEF Takes
<1>7. CASE ~late /\ v.atBottom
  BY <1>1, <1>7, AppendTakes
<1>8. CASE ~late /\ ~v.atBottom
  <2>1. Ingest(v, rows) = IF rows = {} THEN v ELSE Append2(v, rows)
    BY <1>1, <1>2, <1>8 DEF IntoPending
  <2>2. Takes(v, Append2(v, rows), rows, c)
    BY <1>8, AppendTakes
  <2>3. rows = {} => Takes(v, v, rows, c)
    BY IdsAre DEF Takes
  <2> QED BY <2>1, <2>2, <2>3
<1> QED BY <1>6, <1>7, <1>8

LEMMA FlushPendingTakes ==
    ASSUME MaxTurns = 0, NEW c \in 0..MaxOutput, NEW v, Faithful(v, c)
    PROVE  Takes(v, FlushPending(v), {}, c)
<1>1. PICK F : v \in WindowSet(c, F)
  BY DEF Faithful
<1>2. v.msgs \in SUBSET Known(c) /\ v.pending \in SUBSET Known(c)
  BY <1>1 DEF WindowSet
<1>3. CASE v.hasNewer \/ (v.pending = {} /\ ~v.spilled)
  BY <1>3, IdsAre DEF FlushPending, Takes
<1>4. CASE ~(v.hasNewer \/ (v.pending = {} /\ ~v.spilled))
  <2> DEFINE merged == MergeRows(v.msgs, v.pending)
             u == AppendTrim(v, merged)
             t == [u EXCEPT !.pending = {}, !.spilled = FALSE]
  <2>1. FlushPending(v) = Build(t)
    BY <1>4 DEF FlushPending
  <2>2. merged \in SUBSET Known(c) /\ Ids(merged) = Ids(v.msgs) \cup Ids(v.pending)
    BY <1>2, MergeIds
  <2> HIDE DEF merged
  <2>3. u \in WindowSet(c, F) /\ u.msgs = Newest(merged, WindowSize) /\ ~u.hasNewer
    BY <1>1, <2>2, TrimLeaves
  <2> HIDE DEF u
  <2>4. t \in WindowSet(c, F) /\ t.msgs = u.msgs /\ ~t.hasNewer
    BY <2>3 DEF WindowSet
  <2> HIDE DEF t
  <2>5. LET b == Build(t) IN (\E G : b \in WindowSet(c, G)) /\ b.msgs = u.msgs /\ ~b.hasNewer
    BY <2>4, FaithfulBuild
  <2>6. TopId(c) \in Ids(merged) => TopId(c) \in Ids(u.msgs)
    BY <2>2, <2>3, NewestKeeps, WindowAssumption
  <2> QED BY <1>4, <2>1, <2>2, <2>5, <2>6, IdsAre DEF Takes, Faithful, EndsBefore, Shows
<1> QED BY <1>3, <1>4

LEMMA PositionTakes ==
    ASSUME NEW c, NEW v, Faithful(v, c), NEW b \in BOOLEAN
    PROVE  Takes(v, [v EXCEPT !.atBottom = b], {}, c)
<1>1. PICK F : v \in WindowSet(c, F)
  BY DEF Faithful
<1>2. LET u == [v EXCEPT !.atBottom = b] IN
      /\ u \in WindowSet(c, F) /\ u.msgs = v.msgs /\ u.pending = v.pending /\ u.newest = v.newest
      /\ (u.hasNewer <=> v.hasNewer)
  BY <1>1 DEF WindowSet
<1> QED BY <1>2, IdsAre DEF Takes, Faithful, EndsBefore, Shows

\* A latest page lands.  Rows that were shown stay, unless the thread had newer
\* ones to page and starts anew from the page.
LEMMA LatestTakes ==
    ASSUME MaxTurns = 0, NEW c \in 0..MaxOutput, NEW v, Faithful(v, c),
           read.snap \in SUBSET Known(c), read.more \in BOOLEAN
    PROVE  LET u == ApplyLatest(v) IN
           Faithful(u, c) /\ (Shows(v, c) \/ TopId(c) \in Ids(read.snap) => Shows(u, c))
<1> DEFINE snap == read.snap
           base == IF v.hasNewer THEN {} ELSE v.msgs
           incoming == v.pending \cup snap
           B1 == ById(base, v.pending)
           B == ById(B1, snap)
           merged == IF incoming = {} THEN base ELSE Settle(B, StoredLocals(incoming))
           ghostless == DropGhosts(merged, snap, read.eligible)
           kept == Newest(ghostless, WindowSize)
           top == Highest(Seqs(snap))
           f == IF top = None THEN v.frontier ELSE top
           based == [v EXCEPT !.frontier = f]
           x == IF Stamps(kept) = {} THEN Lowest(Stamps(snap)) ELSE Lowest(Stamps(kept))
           y == Highest(Stamps(kept))
           u == Replaced(based, kept, {}, read.more, x, y)
           t == IntoPending(v, snap)
           e == [t EXCEPT !.frontier = based.frontier]
<1>1. ApplyLatest(v) = IF v.atBottom THEN Build(u) ELSE Build(e)
  BY DEF ApplyLatest, Replaced
<1>2. PICK F : v \in WindowSet(c, F)
  BY DEF Faithful
<1>3. v.msgs \in SUBSET Known(c) /\ v.pending \in SUBSET Known(c)
  BY <1>2 DEF WindowSet
<1>4. Shows(v, c) => TopId(c) \in Ids(base) \cup Ids(v.pending)
  <2>1. v.hasNewer => TopId(c) \notin Ids(v.msgs)
    <3> SUFFICES ASSUME v.hasNewer, NEW r \in v.msgs, r.id = TopId(c) PROVE FALSE
      BY DEF Ids
    <3>1. r.at < c
      BY DEF Faithful, EndsBefore
    <3>2. r.at = c
      BY <1>3, KnownIs
    <3> QED BY <3>1, <3>2, WindowAssumption
  <2> QED BY <2>1, IdsAre DEF Shows
<1>5. base \in SUBSET Known(c)
  BY <1>3
<1> HIDE DEF base
<1>6. incoming \in SUBSET Known(c)
  BY <1>3
<1>7. B1 \in SUBSET Known(c) /\ Ids(B1) = Ids(base) \cup Ids(v.pending)
  BY <1>3, <1>5, MergeIds
<1> HIDE DEF B1
<1>8. B \in SUBSET Known(c) /\ Ids(B) = Ids(B1) \cup Ids(snap)
  BY <1>7, MergeIds
<1> HIDE DEF B
<1>9. Settle(B, StoredLocals(incoming)) = B
  BY <1>6, <1>8, SettlePlain
<1>10. merged \in SUBSET Known(c) /\ Ids(merged) = Ids(base) \cup Ids(v.pending) \cup Ids(snap)
  <2>1. incoming = {} => Ids(v.pending) = {} /\ Ids(snap) = {}
    BY IdsAre
  <2>2. CASE incoming = {}
    <3>1. merged = base
      BY <2>2
    <3> QED BY <1>5, <2>1, <2>2, <3>1
  <2>3. CASE incoming # {}
    <3>1. merged = B
      BY <1>9, <2>3
    <3> QED BY <1>7, <1>8, <3>1
  <2> QED BY <2>2, <2>3
<1> HIDE DEF merged
<1>11. ghostless = merged
  BY <1>10, KnownIs DEF DropGhosts
<1> HIDE DEF ghostless
<1>12. kept \in SUBSET Known(c) /\ (TopId(c) \in Ids(merged) => TopId(c) \in Ids(kept))
  BY <1>10, <1>11, NewestKeeps, WindowAssumption
<1> HIDE DEF kept
<1>13. x \in (-1)..c /\ y \in (-1)..c
  BY <1>12, StampsAre
<1> HIDE DEF x, y, f
<1>14. based \in WindowSet(c, F \cup {f})
  BY <1>2 DEF WindowSet
<1>15. based.frontier = f
  BY <1>2 DEF WindowSet
<1> HIDE DEF based
<1>16. u \in WindowSet(c, F \cup {f}) /\ u.msgs = kept /\ u.pending = {} /\ ~u.hasNewer
  BY <1>12, <1>13, <1>14 DEF WindowSet, Replaced
<1> HIDE DEF u
<1>17. LET b == Build(u) IN (\E G : b \in WindowSet(c, G)) /\ b.msgs = kept /\ b.pending = {} /\ ~b.hasNewer
  BY <1>16, FaithfulBuild
<1>18. TopId(c) \in Ids(kept) => Shows(Build(u), c)
  BY <1>17, IdsAre DEF Shows
<1>19. Faithful(Build(u), c) /\ (Shows(v, c) \/ TopId(c) \in Ids(snap) => Shows(Build(u), c))
  BY <1>4, <1>10, <1>12, <1>17, <1>18 DEF Faithful, EndsBefore
<1>20. Takes(v, t, snap, c)
  BY PendingTakes
<1> HIDE DEF t
<1>21. PICK G : t \in WindowSet(c, G)
  BY <1>20 DEF Takes, Faithful
<1>22. /\ e \in WindowSet(c, G \cup {f}) /\ e.msgs = t.msgs /\ e.pending = t.pending
       /\ e.newest = t.newest /\ (e.hasNewer <=> t.hasNewer)
  BY <1>15, <1>21 DEF WindowSet
<1> HIDE DEF e
<1>23. LET b == Build(e) IN
       /\ \E H : b \in WindowSet(c, H)
       /\ b.msgs = t.msgs /\ b.pending = t.pending /\ b.newest = t.newest /\ (b.hasNewer <=> t.hasNewer)
  BY <1>22, FaithfulBuild
<1>24. Faithful(Build(e), c) /\ (Shows(t, c) <=> Shows(Build(e), c))
  BY <1>20, <1>23 DEF Takes, Faithful, EndsBefore, Shows
<1> QED BY <1>1, <1>19, <1>20, <1>24 DEF Takes

\* An older page lands: rows that were shown go only if the thread remembers
\* that there are newer ones.
LEMMA OlderTakes ==
    ASSUME MaxTurns = 0, NEW c \in 0..MaxOutput, NEW v, Faithful(v, c),
           page.snap \in SUBSET Known(c), page.more \in BOOLEAN, \A r \in page.snap : r.at < c
    PROVE  LET u == OlderLanded(v) IN
           /\ Faithful(u, c) /\ (v.hasNewer => u.hasNewer)
           /\ Shows(v, c) => Shows(u, c) \/ u.hasNewer
<1> DEFINE merged == MergeRows(page.snap, v.msgs)
           kept == Oldest(merged, WindowSize)
           dropped == merged \ kept
           t == IntoPending(v, {r \in dropped : IsQueued(r)})
           x == Lowest(Stamps(page.snap))
           n == v.hasNewer \/ dropped # {}
           y == IF Stamps(kept) = {} THEN v.newest ELSE Highest(Stamps(kept))
           b == v.atBottom /\ dropped = {}
           u == [t EXCEPT !.msgs = kept, !.hasMore = page.more, !.oldest = x, !.hasNewer = n,
                          !.newest = y, !.atBottom = b]
<1>1. OlderLanded(v) = Build(u)
  BY DEF OlderLanded
<1>2. PICK F : v \in WindowSet(c, F)
  BY DEF Faithful
<1>3. /\ v.msgs \in SUBSET Known(c) /\ v.pending \in SUBSET Known(c) /\ v.newest \in (-1)..c
      /\ v.hasNewer \in BOOLEAN /\ v.atBottom \in BOOLEAN
  BY <1>2 DEF WindowSet
<1>4. /\ merged = {e \in page.snap : e.id \notin Ids(v.msgs)} \cup v.msgs
      /\ merged \in SUBSET Known(c) /\ Ids(merged) = Ids(page.snap) \cup Ids(v.msgs)
  BY <1>3, MergeIds, MergeKeeps
<1> HIDE DEF merged
<1>5. kept \in SUBSET merged /\ kept \in SUBSET Known(c)
  BY <1>4 DEF Oldest
<1>6. dropped # {} => kept # {} /\ \A r \in kept : r.at < c
  BY <1>4, <1>5, OldestLacksTop, WindowAssumption
<1>7. dropped = {} => kept = merged
  BY <1>5
<1>8. t = v
  <2>1. {r \in dropped : IsQueued(r)} = {}
    BY <1>4, KnownIs
  <2> QED BY <2>1 DEF IntoPending
<1> HIDE DEF t, kept, dropped
<1>9. x \in (-1)..c /\ y \in (-1)..c
  BY <1>3, <1>5, StampsAre
<1>10. n \in BOOLEAN /\ b \in BOOLEAN
  BY <1>3
<1>11. n => y < c /\ \A r \in kept : r.at < c
  <2> SUFFICES ASSUME n PROVE y < c /\ \A r \in kept : r.at < c
    OBVIOUS
  <2>1. \A r \in kept : r.at < c
    <3>1. CASE dropped # {}
      BY <1>6, <3>1
    <3>2. CASE dropped = {}
      <4>1. \A r \in v.msgs : r.at < c
        BY <3>2 DEF Faithful, EndsBefore
      <4> QED BY <1>4, <1>7, <3>2, <4>1
    <3> QED BY <3>1, <3>2
  <2>2. Stamps(kept) = {} <=> kept = {}
    BY <1>5, StampsAre
  <2>3. CASE kept = {}
    <3>1. v.newest < c
      BY <1>6, <2>3 DEF Faithful, EndsBefore
    <3> QED BY <2>1, <2>2, <2>3, <3>1
  <2>4. CASE kept # {}
    <3>1. \E r \in kept : Highest(Stamps(kept)) = r.at
      BY <1>5, <2>4, StampsAre
    <3> QED BY <2>1, <2>2, <2>4, <3>1
  <2> QED BY <2>3, <2>4
<1> HIDE DEF x, y, b
<1>12. v.hasNewer => n
  OBVIOUS
<1>13. ~n => Ids(v.msgs) \subseteq Ids(kept)
  BY <1>4, <1>7
<1> HIDE DEF n
<1>14. /\ u \in WindowSet(c, F) /\ u.msgs = kept /\ u.pending = v.pending
       /\ (u.hasNewer <=> n) /\ u.newest = y
  BY <1>2, <1>5, <1>8, <1>9, <1>10 DEF WindowSet
<1> HIDE DEF u
<1>15. LET w1 == Build(u) IN
       /\ \E G : w1 \in WindowSet(c, G)
       /\ w1.msgs = kept /\ w1.pending = v.pending /\ (w1.hasNewer <=> n) /\ w1.newest = y
  BY <1>14, FaithfulBuild
<1>16. Faithful(Build(u), c)
  BY <1>11, <1>15 DEF Faithful, EndsBefore
<1>17. Shows(v, c) => Shows(Build(u), c) \/ n
  <2>1. Ids(Build(u).msgs \cup Build(u).pending) = Ids(kept) \cup Ids(v.pending)
    BY <1>15, IdsAre
  <2>2. Ids(v.msgs \cup v.pending) = Ids(v.msgs) \cup Ids(v.pending)
    BY IdsAre
  <2> QED BY <1>13, <2>1, <2>2 DEF Shows
<1> QED BY <1>1, <1>12, <1>15, <1>16, <1>17

\* A newer page lands.
LEMMA NewerTakes ==
    ASSUME MaxTurns = 0, NEW c \in 0..MaxOutput, NEW v, Faithful(v, c), v.hasNewer,
           page.snap \in SUBSET Known(c), page.more \in BOOLEAN,
           page.more => \A r \in page.snap : r.at < c
    PROVE  LET u == NewerLanded(v) IN
           /\ Faithful(u, c) /\ (u.hasNewer <=> page.more)
           /\ Shows(v, c) \/ TopId(c) \in Ids(page.snap) => Shows(u, c)
<1> DEFINE merged == MergeRows(v.msgs, page.snap)
           kept == Newest(merged, WindowSize)
           more == v.hasMore \/ kept # merged
           last == Highest(Stamps(IF page.snap = {} THEN kept ELSE page.snap))
           x == IF Stamps(kept) = {} THEN v.oldest ELSE Lowest(Stamps(kept))
           y == IF last = None THEN v.newest ELSE last
           u == [v EXCEPT !.msgs = kept, !.hasMore = more, !.oldest = x, !.hasNewer = page.more, !.newest = y]
<1>1. NewerLanded(v) = Build(u)
  BY DEF NewerLanded
<1>2. PICK F : v \in WindowSet(c, F)
  BY DEF Faithful
<1>3. /\ v.msgs \in SUBSET Known(c) /\ v.pending \in SUBSET Known(c) /\ v.newest \in (-1)..c
      /\ v.oldest \in (-1)..c /\ v.hasMore \in BOOLEAN
  BY <1>2 DEF WindowSet
<1>4. /\ merged = {e \in v.msgs : e.id \notin Ids(page.snap)} \cup page.snap
      /\ merged \in SUBSET Known(c) /\ Ids(merged) = Ids(page.snap) \cup Ids(v.msgs)
  BY <1>3, MergeIds, MergeKeeps
<1> HIDE DEF merged
<1>5. /\ kept \in SUBSET merged /\ kept \in SUBSET Known(c)
      /\ TopId(c) \in Ids(merged) => TopId(c) \in Ids(kept)
  <2>1. WindowSize \in Nat \ {0}
    BY WindowAssumption
  <2>2. merged \in SUBSET Known(c)
    BY <1>4
  <2>3. kept \in SUBSET merged /\ (TopId(c) \in Ids(merged) => TopId(c) \in Ids(kept))
    BY <2>1, <2>2, NewestKeeps
  <2> HIDE DEF kept
  <2> QED BY <2>2, <2>3
<1>6. more \in BOOLEAN
  BY <1>3
<1> HIDE DEF kept, more
<1>7. x \in (-1)..c /\ last \in (-1)..c
  BY <1>3, <1>5, StampsAre
<1>8. y \in (-1)..c
  BY <1>3, <1>7
<1>9. v.newest < c /\ \A r \in v.msgs : r.at < c
  BY DEF Faithful, EndsBefore
<1>10. page.more => y < c /\ \A r \in kept : r.at < c
  <2> SUFFICES ASSUME page.more PROVE y < c /\ \A r \in kept : r.at < c
    OBVIOUS
  <2>1. \A r \in kept : r.at < c
    BY <1>4, <1>5, <1>9
  <2> DEFINE Q == IF page.snap = {} THEN kept ELSE page.snap
  <2>2. Q \in SUBSET Known(c) /\ \A r \in Q : r.at < c
    BY <1>5, <2>1
  <2>3. last = Highest(Stamps(Q))
    OBVIOUS
  <2> HIDE DEF Q
  <2>4. Q = {} => last = None
    <3>1. Q = {} => Stamps(Q) = {}
      BY <2>2, StampsAre
    <3> QED BY <2>3, <3>1 DEF Highest
  <2>5. Q # {} => \E r \in Q : last = r.at
    BY <2>2, <2>3, StampsAre
  <2> QED BY <1>9, <2>1, <2>2, <2>4, <2>5
<1> HIDE DEF x, y, last
<1>11. /\ u \in WindowSet(c, F) /\ u.msgs = kept /\ u.pending = v.pending
       /\ (u.hasNewer <=> page.more) /\ u.newest = y
  BY <1>2, <1>5, <1>6, <1>7, <1>8 DEF WindowSet
<1> HIDE DEF u
<1>12. LET b == Build(u) IN
       /\ \E G : b \in WindowSet(c, G)
       /\ b.msgs = kept /\ b.pending = v.pending /\ (b.hasNewer <=> page.more) /\ b.newest = y
  BY <1>11, FaithfulBuild
<1>13. Faithful(Build(u), c)
  BY <1>10, <1>12 DEF Faithful, EndsBefore
<1>14. Shows(v, c) \/ TopId(c) \in Ids(page.snap) => Shows(Build(u), c)
  <2>1. Ids(Build(u).msgs \cup Build(u).pending) = Ids(kept) \cup Ids(v.pending)
    BY <1>12, IdsAre
  <2>2. Ids(v.msgs \cup v.pending) = Ids(v.msgs) \cup Ids(v.pending)
    BY IdsAre
  <2> QED BY <1>4, <1>5, <2>1, <2>2 DEF Shows
<1> QED BY <1>1, <1>12, <1>13, <1>14

LEMMA FreshFaithful ==
    ASSUME NEW c \in Nat
    PROVE  Faithful(FreshWindow, c) /\ ~FreshWindow.hasNewer
<1>1. FreshWindow \in WindowSet(c, {None})
  BY DEF FreshWindow, WindowSet, None
<1> QED BY <1>1 DEF FreshWindow, Faithful, EndsBefore

\* More rows of the hub leave what the window says true.
LEMMA FaithfulLater ==
    ASSUME NEW c \in Nat, NEW d \in Nat, c <= d, NEW v, Faithful(v, c)
    PROVE  Faithful(v, d)
<1>1. PICK F : v \in WindowSet(c, F)
  BY DEF Faithful
<1>2. Known(c) \subseteq Known(d)
  BY KnownMore
<1>3. v \in WindowSet(d, F)
  BY <1>1, <1>2 DEF WindowSet
<1>4. v.newest \in (-1)..c
  BY <1>1 DEF WindowSet
<1>5. ASSUME v.hasNewer PROVE v.newest < d /\ \A m \in v.msgs : m.at < d
  <2>1. v.newest < c /\ \A m \in v.msgs : m.at < c
    BY <1>5 DEF Faithful, EndsBefore
  <2>2. \A m \in v.msgs : m.at \in Int
    <3>1. v.msgs \subseteq Known(c)
      BY <1>1 DEF WindowSet
    <3>2. \A r \in Known(c) : r.at \in Int
      BY WindowAssumption DEF Known, AgentRow, NewRow, LastId
    <3> QED BY <3>1, <3>2
  <2> QED BY <1>4, <2>1, <2>2
<1> QED BY <1>3, <1>5 DEF Faithful, EndsBefore

-----------------------------------------------------------------------------
(* The state of such a session.                                            *)

Moved == IF LastId \in Ids(table) THEN 1 ELSE 0
AgentTable ==
    /\ clock \in 0..MaxOutput
    /\ table \subseteq Known(clock) /\ 1..clock \subseteq Ids(table)
    /\ \A r \in table : r.seq <= clock + Moved

EventOf(e, c) == e.type = "invalidated" \/ (e.type = "received" /\ e.row \in Known(c))
AgentLog == \A i \in 1..Len(log) : EventOf(log[i], clock)

\* A stream has read what the hub told it, and its cursor points into this log
\* if it is of this hub process.
BehindLog ==
    \A s \in Stream :
       /\ stream[s].done <= Len(log) /\ stream[s].epoch <= epoch
       /\ stream[s].epoch = epoch => stream[s].cursor <= Len(log)
       /\ stream[s].epoch = None => stream[s].cursor = None
       /\ stream[s].up => stream[s].epoch = epoch
TasksOk == tasks \in Seq({"refresh", "wipe"})
AgentFrame == frame \in Seq(Known(clock)) /\ TasksOk

\* A forced refresh waits for a read, and no page is under way beside a read.
RefreshOk ==
    /\ read.phase \in {"idle", "asked", "served", "lost"}
    /\ reconciling \in [on : BOOLEAN, by : SUBSET {"read", "forced"}]
    /\ forced \in BOOLEAN /\ (forced <=> "forced" \in reconciling.by)
    /\ forced => read.phase # "idle"
    /\ page.kind # "none" => read.phase = "idle"
AgentReads == RefreshOk /\ read.snap \subseteq Known(clock) /\ read.more \in BOOLEAN

\* A newer page is under way only while the thread has newer rows to page, and
\* has the newest row of its time unless it says that there are more.
AgentPages ==
    /\ page \in [kind : {"none", "older", "newer"}, served : BOOLEAN, from : (-1)..clock,
                 snap : SUBSET Known(clock), more : BOOLEAN]
    /\ page.served => page.kind # "none"
    /\ page.kind = "newer" => w.hasNewer /\ page.from < clock
    /\ page.kind = "older" \/ page.more => \A r \in page.snap : r.at < clock

Basics == PostsOk /\ TableOk /\ LogOk /\ StreamsOk /\ ReadOk
Agent == /\ Basics /\ AgentTable /\ AgentLog /\ BehindLog /\ AgentFrame /\ Faithful(w, clock)
         /\ AgentReads /\ AgentPages

\* Where the newest row is, or what will bring it.
Top == TopId(clock)
OnStream ==
    /\ stream["session"].up
    /\ \E i \in (stream["session"].done + 1)..Len(log) :
          log[i].type = "invalidated" \/ log[i].row.id = Top
Here == (\E i \in 1..Len(frame) : frame[i].id = Top) \/ Shows(w, clock)
Told == tasks # <<>> \/ forced \/ ~stream["session"].up \/ OnStream \/ Here
Reading == read.phase \in {"asked", "lost"} \/ (read.phase = "served" /\ Top \in Ids(read.snap))
Paging ==
    /\ read.phase = "idle" /\ w.hasNewer
    /\ page.served /\ page.kind = "newer" /\ ~page.more => Top \in Ids(page.snap)
Coming == selected /\ ~owed /\ table # {} => Told \/ Reading \/ Paging

LEMMA NoTurns == ASSUME MaxTurns = 0 PROVE Turn = {}
BY DEF Turn

LEMMA ClockIs ==
    ASSUME AgentTable
    PROVE  clock \in Nat /\ MaxOutput \in Nat /\ clock <= MaxOutput /\ LastId \in Nat /\ LastId > clock
BY WindowAssumption DEF AgentTable, LastId

\* The newest row of the table.
LEMMA TopOfTable ==
    ASSUME MaxTurns = 0, AgentTable, table # {}
    PROVE  Top \in Ids(table)
<1>1. CASE clock = 0
  <2>1. PICK r \in table : r \in Known(clock)
    BY DEF AgentTable
  <2>2. r.id \in (1..clock) \cup {LastId}
    BY <2>1, KnownIs DEF AgentTable
  <2>3. r.id = LastId
    BY <1>1, <2>2
  <2> QED BY <1>1, <2>1, <2>3 DEF Top, TopId, Ids
<1>2. CASE clock # 0
  <2>1. clock \in 1..clock
    BY <1>2, ClockIs
  <2> QED BY <1>2, <2>1 DEF Top, TopId, AgentTable
<1> QED BY <1>1, <1>2

\* The agent's rows are numbered without a gap.
LEMMA OutputIs ==
    ASSUME MaxTurns = 0, AgentTable, Output
    PROVE  /\ clock' = clock + 1 /\ clock + 1 <= MaxOutput
           /\ LET r == NewRow(clock + 1, LastSeq + 1, TRUE, clock + 1) IN
              table' = table \cup {r} /\ Tell("received", r)
           /\ UNCHANGED <<epoch, stream, frame, w, readVars, page, tasks, userVars, used>>
<1> DEFINE out == Ids(table) \cap (MaxTurns + 1)..(MaxTurns + MaxOutput)
           n == MaxTurns + Cardinality(out) + 1
<1>1. out = 1..clock
  <2>1. out = Ids(table) \cap 1..MaxOutput
    BY WindowAssumption
  <2>2. \A r \in table : r.id \in (1..clock) \cup {LastId}
    BY KnownIs DEF AgentTable
  <2>3. Ids(table) \subseteq (1..clock) \cup {LastId}
    BY <2>2 DEF Ids
  <2>4. LastId \notin 1..MaxOutput /\ 1..clock \subseteq 1..MaxOutput
    BY ClockIs DEF LastId
  <2>5. 1..clock \subseteq Ids(table)
    BY DEF AgentTable
  <2> HIDE DEF out
  <2> QED BY <2>1, <2>3, <2>4, <2>5
<1>2. Cardinality(1..clock) = clock
  <2>1. 1 \in Int /\ clock \in Int
    BY ClockIs
  <2>2. Cardinality(1..clock) = IF 1 > clock THEN 0 ELSE clock - 1 + 1
    BY <2>1, FS_Interval
  <2> QED BY <2>2, ClockIs
<1>3. n <= MaxTurns + MaxOutput /\ Insert(n, TRUE) /\ UNCHANGED posts
  BY DEF Output
<1>4. n = clock + 1
  <2> HIDE DEF out
  <2> QED BY <1>1, <1>2, ClockIs
<1> HIDE DEF n
<1>5. clock + 1 <= MaxOutput
  BY <1>3, <1>4, ClockIs
<1>6. Insert(clock + 1, TRUE)
  BY <1>3, <1>4
<1> QED BY <1>3, <1>5, <1>6 DEF Insert, userVars

LEMMA MovedRow ==
    ASSUME MaxTurns = 0
    PROVE  [NoRow EXCEPT !.seq = 1, !.inv = TRUE] = AgentRow(LastId, 1) /\ NoRow.id = LastId
<1>0. MaxTurns + MaxOutput + 1 = LastId
  BY WindowAssumption DEF LastId
<1>1. NoRow = [id |-> LastId, seq |-> 0, inv |-> FALSE, at |-> 0, sent |-> FALSE] /\ NoRow.id = LastId
  BY <1>0 DEF NoRow, NewRow
<1> DEFINE Row == [id : {LastId}, seq : {0, 1}, inv : BOOLEAN, at : {0}, sent : {FALSE}]
           old == [NoRow EXCEPT !.seq = 1, !.inv = TRUE]
<1>2. NoRow \in Row
  BY <1>1
<1>3. old \in Row /\ old.seq = 1 /\ old.inv = TRUE
  BY <1>2
<1> HIDE DEF old
<1>4. old = [id |-> LastId, seq |-> 1, inv |-> TRUE, at |-> 0, sent |-> FALSE]
  BY <1>3
<1> QED BY <1>1, <1>4 DEF AgentRow, NewRow, old

LEMMA TableLater ==
    ASSUME MaxTurns = 0, AgentTable, TableOk, [Next]_vars
    PROVE  /\ AgentTable' /\ clock <= clock'
           /\ \/ UNCHANGED <<table, clock>>
              \/ Output \/ MoveIn
<1>1. CASE Output
  <2> DEFINE r == NewRow(clock + 1, LastSeq + 1, TRUE, clock + 1)
  <2>1. clock' = clock + 1 /\ clock + 1 <= MaxOutput /\ table' = table \cup {r}
    BY <1>1, OutputIs
  <2>2. clock \in Nat /\ MaxOutput \in Nat /\ LastId = MaxOutput + 1 /\ Moved \in {0, 1}
    BY ClockIs DEF LastId, Moved
  <2>3. LastSeq \in Nat /\ LastSeq <= clock + Moved
    <3> DEFINE S == {0} \cup {q.seq : q \in table}
               m == clock + Moved
    <3>1. m \in Nat
      BY <2>2
    <3>2. \A q \in table : q.seq \in 1..LastId /\ q.seq <= m
      BY KnownIs DEF AgentTable
    <3>3. S \in SUBSET (0..m)
      BY <2>2, <3>1, <3>2
    <3>4. S # {} /\ LastSeq = Highest(S)
      BY DEF LastSeq
    <3> HIDE DEF S, m
    <3>5. Highest(S) \in S
      BY <3>1, <3>3, <3>4, EndsAre
    <3>6. LastSeq \in 0..m
      BY <3>3, <3>4, <3>5
    <3> QED BY <3>1, <3>6 DEF m
  <2>4. r = AgentRow(clock + 1, LastSeq + 1) /\ r.id = clock + 1 /\ r.seq = LastSeq + 1
    <3>1. clock + 1 # LastId
      BY <2>1, <2>2
    <3>2. r.id = clock + 1 /\ r.seq = LastSeq + 1
      BY DEF NewRow
    <3> QED BY <3>1, <3>2 DEF AgentRow
  <2>5. LastSeq + 1 \in 1..LastId /\ clock + 1 \in 1..(clock + 1)
    BY <2>1, <2>2, <2>3
  <2> HIDE DEF r
  <2>6. r \in Known(clock + 1)
    BY <2>4, <2>5 DEF Known
  <2>7. Known(clock) \subseteq Known(clock + 1)
    BY <2>2, KnownMore
  <2>8. table' \subseteq Known(clock')
    BY <2>1, <2>6, <2>7 DEF AgentTable
  <2>9. Ids(table') = Ids(table) \cup {clock + 1}
    BY <2>1, <2>4 DEF Ids
  <2>10. 1..clock' \subseteq Ids(table')
    <3>1. 1..(clock + 1) \subseteq (1..clock) \cup {clock + 1}
      BY <2>2
    <3> QED BY <2>1, <2>9, <3>1 DEF AgentTable
  <2>11. Moved' = Moved
    <3>1. LastId # clock + 1
      BY <2>1, <2>2
    <3> QED BY <2>9, <3>1 DEF Moved
  <2>12. ASSUME NEW q \in table' PROVE q.seq <= clock' + Moved'
    <3>1. CASE q \in table
      <4>1. q.seq \in 1..LastId
        BY <3>1, KnownIs DEF AgentTable
      <4>2. q.seq <= clock + Moved
        BY <3>1 DEF AgentTable
      <4> QED BY <2>1, <2>2, <2>11, <4>1, <4>2
    <3>2. CASE q = r
      BY <2>1, <2>2, <2>3, <2>4, <2>11, <3>2
    <3> QED BY <2>1, <3>1, <3>2
  <2>13. clock' \in 0..MaxOutput /\ clock <= clock'
    BY <2>1, <2>2
  <2> QED BY <1>1, <2>8, <2>10, <2>12, <2>13 DEF AgentTable
<1>2. CASE MoveIn
  <2> DEFINE old == [NoRow EXCEPT !.seq = 1, !.inv = TRUE]
             f == [r \in table |-> [r EXCEPT !.seq = r.seq + 1]]
             moved == {f[r] : r \in table}
  <2>1. LastId \notin Ids(table) /\ table' = moved \cup {old} /\ clock' = clock
    BY <1>2, MovedRow DEF MoveIn
  <2>2. old = AgentRow(LastId, 1) /\ old.id = LastId /\ old.seq = 1
    <3>1. old = AgentRow(LastId, 1)
      BY MovedRow
    <3> QED BY <3>1 DEF AgentRow, NewRow
  <2>3. clock \in Nat /\ MaxOutput \in Nat /\ LastId = MaxOutput + 1 /\ Moved = 0 /\ clock <= MaxOutput
    BY <2>1, ClockIs DEF LastId, Moved
  <2>4. ASSUME NEW r \in table
        PROVE  f[r] = AgentRow(r.id, r.seq + 1) /\ f[r].id = r.id /\ f[r].seq = r.seq + 1
               /\ r.seq + 1 \in 1..LastId /\ r.id \in 1..clock
    <3>1. r = AgentRow(r.id, r.seq) /\ r.seq \in 1..LastId /\ r.id \in (1..clock) \cup {LastId}
          /\ r.seq <= clock + Moved
      BY KnownIs DEF AgentTable
    <3>2. f[r] = [r EXCEPT !.seq = r.seq + 1]
      OBVIOUS
    <3> HIDE DEF f
    <3> DEFINE a == IF r.id = LastId THEN 0 ELSE r.id
               Row == [id : {r.id}, seq : {r.seq, r.seq + 1}, inv : {TRUE}, at : {a}, sent : {FALSE}]
    <3>9. r = AgentRow(r.id, r.seq)
      BY <3>1
    <3>10. AgentRow(r.id, r.seq) \in Row
      BY DEF AgentRow, NewRow
    <3>3. r \in Row
      <4> HIDE DEF Row
      <4> QED BY <3>9, <3>10
    <3>4. f[r] \in Row /\ f[r].seq = r.seq + 1
      BY <3>2, <3>3
    <3>5. f[r] = [id |-> r.id, seq |-> r.seq + 1, inv |-> TRUE, at |-> a, sent |-> FALSE]
      BY <3>4
    <3>6. r.seq + 1 \in 1..LastId
      BY <2>3, <3>1
    <3>7. r.id # LastId
      BY <2>1 DEF Ids
    <3>8. f[r].id = r.id
      BY <3>5
    <3> QED BY <3>1, <3>4, <3>5, <3>6, <3>7, <3>8 DEF AgentRow, NewRow
  <2> HIDE DEF f, old
  <2>5. moved \subseteq Known(clock)
    BY <2>4 DEF Known
  <2>6. old \in Known(clock)
    <3>1. 1 \in 1..LastId
      BY <2>3
    <3> QED BY <2>2, <3>1 DEF Known
  <2>7. Ids(moved) = Ids(table)
    BY <2>4 DEF Ids
  <2>8. \A q \in moved : q.seq <= clock + 1
    <3> SUFFICES ASSUME NEW r \in table PROVE f[r].seq <= clock + 1
      OBVIOUS
    <3>1. r.seq <= clock + Moved /\ r.seq \in 1..LastId
      BY KnownIs DEF AgentTable
    <3> QED BY <2>3, <2>4, <3>1
  <2> HIDE DEF moved
  <2>9. Ids(table') = Ids(table) \cup {LastId}
    BY <2>1, <2>2, <2>7 DEF Ids
  <2>10. Moved' = 1
    BY <2>9 DEF Moved
  <2>11. \A q \in table' : q.seq <= clock' + Moved'
    BY <2>1, <2>2, <2>3, <2>8, <2>10
  <2>12. table' \subseteq Known(clock') /\ 1..clock' \subseteq Ids(table')
    BY <2>1, <2>5, <2>6, <2>9 DEF AgentTable
  <2> QED BY <1>2, <2>1, <2>3, <2>11, <2>12 DEF AgentTable
<1>3. CASE UNCHANGED <<table, clock>>
  <2>1. AgentTable'
    BY <1>3 DEF AgentTable, Moved
  <2>2. clock <= clock'
    BY <1>3, ClockIs
  <2> QED BY <1>3, <2>1, <2>2
<1>4. Output \/ MoveIn \/ UNCHANGED <<table, clock>>
  <2> USE DEF hubVars, readVars, userVars
  <2>1. CASE ServeRead \/ LandRead \/ FailRead \/ StrayLands
    BY <2>1 DEF ServeRead, LandRead, FailRead, StrayLands
  <2>2. CASE RunTask \/ Probe \/ FlushFrame
    BY <2>2 DEF RunTask, Probe, FlushFrame
  <2>3. ASSUME NEW s \in Stream, Connect(s) \/ Break(s) \/ Handle(s) PROVE UNCHANGED <<table, clock>>
    BY <2>3 DEF Connect, Break, Handle
  <2>4. ASSUME NEW kind \in {"older", "newer"}, AskPage(kind) PROVE UNCHANGED <<table, clock>>
    BY <2>4 DEF AskPage
  <2>5. CASE ServePage \/ LandPage \/ FailPage
    BY <2>5 DEF ServePage, LandPage, FailPage
  <2>6. CASE ScrollAway \/ ToBottom \/ Leave \/ Return
    BY <2>6 DEF ScrollAway, ToBottom, Leave, Return
  <2>7. CASE HubRestart
    BY <2>7 DEF HubRestart
  <2>8. CASE UNCHANGED vars
    BY <2>8 DEF vars
  <2> QED BY <2>1, <2>2, <2>3, <2>4, <2>5, <2>6, <2>7, <2>8, NoTurns DEF Next
<1> QED BY <1>1, <1>2, <1>3, <1>4

\* What the hub tells is that a row is the newest now, or that all have changed.
Tells == /\ Output \/ MoveIn
         /\ \E e : /\ log' = Append(log, e) /\ EventOf(e, clock')
                   /\ e.type = "invalidated" \/ e.row.id = Top'

LEMMA LogNext ==
    ASSUME MaxTurns = 0, AgentTable, TableOk, [Next]_vars
    PROVE  UNCHANGED <<table, clock, log>> \/ (HubRestart /\ log' = <<>>) \/ Tells
<1>1. CASE Output
  <2> DEFINE r == NewRow(clock + 1, LastSeq + 1, TRUE, clock + 1)
             e == [type |-> "received", row |-> r]
  <2>1. clock' = clock + 1 /\ table' = table \cup {r} /\ log' = Append(log, e)
    BY <1>1, OutputIs DEF Tell
  <2>2. e.type = "received" /\ e.row = r /\ r.id = clock + 1
    BY DEF NewRow
  <2> HIDE DEF e, r
  <2>3. r \in Known(clock')
    BY <2>1, TableLater DEF AgentTable
  <2>4. e.row.id = Top'
    BY <2>1, <2>2, ClockIs DEF Top, TopId
  <2> QED BY <1>1, <2>1, <2>2, <2>3, <2>4 DEF EventOf, Tells
<1>2. CASE MoveIn
  BY <1>2 DEF MoveIn, Tell, EventOf, Tells
<1>3. CASE UNCHANGED <<table, clock>>
  <2>1. UNCHANGED log \/ HubWrites \/ HubRestart
    BY WhoChanges
  <2>2. UNCHANGED log \/ Output \/ MoveIn \/ HubRestart
    BY <2>1, NoTurns DEF HubWrites
  <2> QED BY <1>1, <1>2, <1>3, <2>2 DEF HubRestart
<1> QED BY <1>1, <1>2, <1>3, TableLater

LEMMA LogStep ==
    ASSUME MaxTurns = 0, AgentTable, TableOk, LogOk, AgentLog, [Next]_vars
    PROVE  AgentLog'
<1>1. clock \in Nat /\ clock' \in Nat /\ clock <= clock'
  <2>1. AgentTable' /\ clock <= clock'
    BY TableLater
  <2> QED BY <2>1, ClockIs, WindowAssumption DEF AgentTable
<1>2. Known(clock) \subseteq Known(clock')
  BY <1>1, KnownMore
<1>3. \A i \in 1..Len(log) : EventOf(log[i], clock')
  BY <1>2 DEF AgentLog, EventOf
<1>4. PICK S : log \in Seq(S)
  BY DEF LogOk
<1>5. ASSUME Tells PROVE AgentLog'
  <2>1. PICK e : log' = Append(log, e) /\ EventOf(e, clock')
    BY <1>5 DEF Tells
  <2>2. \A i \in 1..Len(log') : (i \in 1..Len(log) /\ log'[i] = log[i]) \/ log'[i] = e
    BY <1>4, <2>1
  <2> QED BY <1>3, <2>1, <2>2 DEF AgentLog
<1>6. CASE log' = <<>>
  <2>1. 1..Len(log') = {}
    BY <1>6
  <2> QED BY <2>1 DEF AgentLog
<1> QED BY <1>3, <1>5, <1>6, LogNext DEF AgentLog

\* The log only grows until the hub restarts.
LEMMA LogGrows ==
    ASSUME LogOk, [Next]_vars, ~HubRestart
    PROVE  /\ Len(log) \in Nat /\ Len(log') \in Nat /\ Len(log) <= Len(log')
           /\ \A i \in 1..Len(log) : log'[i] = log[i]
           /\ UNCHANGED log \/ \E e : log' = Append(log, e)
<1>1. PICK S : log \in Seq(S)
  BY DEF LogOk
<1>2. ASSUME NEW e, log' = Append(log, e)
      PROVE  Len(log') = Len(log) + 1 /\ \A i \in 1..Len(log) : log'[i] = log[i]
  BY <1>1, <1>2
<1>3. UNCHANGED log \/ \E e : log' = Append(log, e)
  <2>1. ASSUME NEW type, NEW r, Tell(type, r) PROVE \E e : log' = Append(log, e)
    BY <2>1 DEF Tell
  <2>2. ASSUME NEW k \in Turn, Store(k) \/ StoreElsewhere(k) PROVE \E e : log' = Append(log, e)
    BY <2>1, <2>2 DEF Store, StoreElsewhere, Insert
  <2>3. ASSUME NEW k \in Turn, Consume(k) PROVE \E e : log' = Append(log, e)
    BY <2>1, <2>3 DEF Consume, Invoke
  <2>4. ASSUME NEW k \in Turn, CancelServed(k) PROVE UNCHANGED log \/ \E e : log' = Append(log, e)
    BY <2>1, <2>4 DEF CancelServed, Invoke, hubVars
  <2>5. CASE Output \/ MoveIn
    BY <2>1, <2>5 DEF Output, Insert, MoveIn
  <2> QED BY <2>2, <2>3, <2>4, <2>5, WhoChanges DEF HubWrites
<1> QED BY <1>1, <1>2, <1>3

LEMMA BehindStep ==
    ASSUME LogOk, StreamsOk, BehindLog, [Next]_vars
    PROVE  BehindLog'
<1> DEFINE T == [up : BOOLEAN, done : Nat, cursor : Nat \cup {None}, epoch : Int]
           Good(t, e, n) == /\ t.done <= n /\ t.epoch <= e /\ (t.epoch = e => t.cursor <= n)
                            /\ (t.epoch = None => t.cursor = None)
                            /\ (t.up => t.epoch = e)
<1>1. epoch \in Nat /\ stream \in [Stream -> T] /\ Len(log) \in Nat /\ None \in Int
  BY DEF StreamsOk, LogOk, None
<1>2. \A s \in Stream : Good(stream[s], epoch, Len(log))
  BY DEF BehindLog
<1>3. ~HubRestart => Len(log') \in Nat /\ Len(log) <= Len(log')
  BY LogGrows
<1>4. ~HubRestart => \A s \in Stream : Good(stream[s], epoch, Len(log'))
  BY <1>1, <1>2, <1>3
<1>5. (\A s \in Stream : Good(stream'[s], epoch', Len(log'))) => BehindLog'
  BY DEF BehindLog
<1>6. ASSUME NEW s \in Stream, NEW t \in T, Good(t, epoch, Len(log)), UNCHANGED <<epoch, log>>,
             stream' = [stream EXCEPT ![s] = t]
      PROVE  BehindLog'
  <2> HIDE DEF Good
  <2>1. \A q \in Stream : stream'[q] = IF q = s THEN t ELSE stream[q]
    BY <1>1, <1>6
  <2> QED BY <1>2, <1>5, <1>6, <2>1
<1>7. ASSUME NEW s \in Stream, Connect(s) PROVE BehindLog'
  <2> DEFINE st == stream[s]
             held == IF Len(log) > RingSize THEN Len(log) - RingSize ELSE 0
             mine == IF st.epoch # epoch THEN 0 ELSE st.cursor
             from == IF st.cursor = None THEN Len(log) ELSE Highest({held, mine})
             cur == IF st.epoch # epoch /\ st.epoch # None THEN 0 ELSE st.cursor
             t == [up |-> TRUE, done |-> from, epoch |-> epoch, cursor |-> cur]
  <2>1. st \in T /\ Good(st, epoch, Len(log)) /\ RingSize \in Nat
    BY <1>1, <1>2, WindowAssumption
  <2>2. held \in 0..Len(log)
    BY <1>1, <2>1
  <2>3. st.cursor # None => mine \in 0..Len(log)
    BY <1>1, <2>1
  <2>4. cur \in Nat \cup {None} /\ cur <= Len(log)
    BY <1>1, <2>1 DEF None
  <2>5. stream' = [stream EXCEPT ![s] = t] /\ UNCHANGED <<epoch, log>>
    BY <1>7 DEF Connect, hubVars
  <2> HIDE DEF held, mine, cur
  <2>6. from \in 0..Len(log)
    <3>1. CASE st.cursor # None
      <4>1. {held, mine} \in SUBSET (0..Len(log)) /\ {held, mine} # {}
        BY <2>2, <2>3, <3>1
      <4>2. Highest({held, mine}) \in {held, mine}
        BY <1>1, <4>1, EndsAre
      <4> QED BY <3>1, <4>1, <4>2
    <3> QED BY <1>1, <3>1
  <2> HIDE DEF from, st
  <2>7. t \in T
    BY <1>1, <2>4, <2>6
  <2>8. epoch # None
    BY <1>1 DEF None
  <2>9. Good(t, epoch, Len(log))
    BY <1>1, <2>4, <2>6, <2>8
  <2> HIDE DEF t, Good
  <2> QED BY <1>6, <2>5, <2>7, <2>9
<1>8. ASSUME NEW s \in Stream, Break(s) PROVE BehindLog'
  <2> DEFINE t == [stream[s] EXCEPT !.up = FALSE, !.done = 0]
  <2>1. t \in T /\ t.done = 0 /\ t.epoch = stream[s].epoch /\ t.cursor = stream[s].cursor
          /\ ~t.up
    BY <1>1
  <2>2. stream' = [stream EXCEPT ![s] = t] /\ UNCHANGED <<epoch, log>>
    BY <1>1, <1>8 DEF Break, hubVars
  <2> HIDE DEF t
  <2>3. Good(t, epoch, Len(log))
    BY <1>1, <1>2, <2>1
  <2> HIDE DEF Good
  <2> QED BY <1>6, <2>1, <2>2, <2>3
<1>9. ASSUME NEW s \in Stream, Handle(s) PROVE BehindLog'
  <2> DEFINE n == stream[s].done + 1
             t == [stream[s] EXCEPT !.done = n, !.cursor = n]
  <2>1. n \in Nat /\ n <= Len(log)
    BY <1>1, <1>9 DEF Handle
  <2>2. stream' = [stream EXCEPT ![s] = t] /\ UNCHANGED <<epoch, log>>
    BY <1>1, <1>9 DEF Handle, hubVars
  <2> HIDE DEF n
  <2>3. t \in T /\ t.done = n /\ t.epoch = stream[s].epoch /\ t.cursor = n /\ (t.up <=> stream[s].up)
    BY <1>1, <2>1
  <2> HIDE DEF t
  <2>4. t.epoch # None
    BY <1>1, <1>2, <1>9, <2>3 DEF Handle, None
  <2>5. Good(t, epoch, Len(log))
    BY <1>1, <1>2, <2>1, <2>3, <2>4
  <2> HIDE DEF Good
  <2> QED BY <1>6, <2>2, <2>3, <2>5
<1>10. CASE Leave
  <2>1. stream' = [stream EXCEPT !["session"] = ClosedStream] /\ UNCHANGED <<epoch, log>>
    BY <1>10 DEF Leave, hubVars
  <2>2. ClosedStream \in T /\ Good(ClosedStream, epoch, Len(log))
    BY <1>1 DEF ClosedStream, None
  <2> HIDE DEF Good
  <2> QED BY <1>6, <2>1, <2>2, WindowAssumption
<1>11. CASE HubRestart
  <2>1. ASSUME NEW s \in Stream
        PROVE  LET t == stream'[s] IN ~t.up /\ t.done = 0 /\ t.epoch = stream[s].epoch /\ t.cursor = stream[s].cursor
    BY <1>1, <1>11 DEF HubRestart
  <2>2. epoch' = epoch + 1 /\ Len(log') = 0
    BY <1>11 DEF HubRestart
  <2>3. \A s \in Stream : stream[s].epoch < epoch'
    BY <1>1, <1>2, <2>2
  <2>4. \A s \in Stream : Good(stream'[s], epoch', Len(log'))
    BY <1>1, <1>2, <2>1, <2>2, <2>3
  <2> QED BY <1>5, <2>4
<1>12. CASE UNCHANGED <<stream, epoch>>
  BY <1>4, <1>5, <1>11, <1>12
<1> QED BY <1>7, <1>8, <1>9, <1>10, <1>11, <1>12, WhoChanges DEF Streams

-----------------------------------------------------------------------------
(* The window of such a session from step to step.                         *)

\* The frame queue loses no row: of the copies of the newest, the last is read.
LEMMA FrameHas ==
    ASSUME AgentFrame
    PROVE  /\ FrameRows \in SUBSET Known(clock)
           /\ (\E i \in 1..Len(frame) : frame[i].id = Top) => Top \in Ids(FrameRows)
           /\ frame = <<>> => ~\E i \in 1..Len(frame) : frame[i].id = Top
<1>1. Len(frame) \in Nat /\ \A i \in 1..Len(frame) : frame[i] \in Known(clock)
  BY DEF AgentFrame
<1>2. FrameRows \in SUBSET Known(clock)
  BY <1>1 DEF FrameRows
<1>3. ASSUME NEW i \in 1..Len(frame), frame[i].id = Top PROVE Top \in Ids(FrameRows)
  <2> DEFINE D == {k \in 1..Len(frame) : frame[k].id = Top}
             j == Highest(D)
  <2>1. D \in SUBSET (0..Len(frame)) /\ D # {}
    BY <1>1, <1>3
  <2>2. j \in D /\ \A k \in D : k <= j
    <3> HIDE DEF D
    <3> QED BY <1>1, <2>1, EndsAre
  <2>3. j \in 1..Len(frame) /\ frame[j].id = Top
    BY <2>2
  <2>4. \A k \in (j + 1)..Len(frame) : frame[k].id # Top
    BY <1>1, <2>2, <2>3
  <2> HIDE DEF j
  <2>5. frame[j] \in FrameRows
    BY <2>3, <2>4 DEF FrameRows
  <2> QED BY <2>3, <2>5 DEF Ids
<1>4. frame = <<>> => 1..Len(frame) = {}
  OBVIOUS
<1> QED BY <1>2, <1>3, <1>4

LEMMA FlushedTakes ==
    ASSUME MaxTurns = 0, AgentTable, AgentFrame, NEW v, Faithful(v, clock)
    PROVE  LET u == IF frame = <<>> THEN v ELSE Ingest(v, FrameRows) IN
           /\ Faithful(u, clock) /\ (u.hasNewer <=> v.hasNewer)
           /\ Shows(v, clock) \/ (\E i \in 1..Len(frame) : frame[i].id = Top) => Shows(u, clock)
<1>1. clock \in 0..MaxOutput
  BY DEF AgentTable
<1>2. Takes(v, Ingest(v, FrameRows), FrameRows, clock)
  BY <1>1, FrameHas, IngestTakes
<1> QED BY <1>2, FrameHas DEF Takes, Top

\* What a step does to the window and the frame queue.
Keeps == /\ frame' \in Seq(Known(clock)) /\ Faithful(w', clock) /\ (w'.hasNewer <=> w.hasNewer)
         /\ Here => (\E i \in 1..Len(frame') : frame'[i].id = Top) \/ Shows(w', clock)

LEMMA FlushKeeps ==
    ASSUME MaxTurns = 0, AgentTable, AgentFrame, Faithful(w, clock), frame' = <<>>
    PROVE  /\ Faithful(Flushed, clock) /\ (Flushed.hasNewer <=> w.hasNewer)
           /\ Here => Shows(Flushed, clock)
           /\ w' = Flushed => Keeps
<1>1. /\ Faithful(Flushed, clock) /\ (Flushed.hasNewer <=> w.hasNewer)
      /\ Here => Shows(Flushed, clock)
  BY FlushedTakes DEF Flushed, Here
<1> QED BY <1>1 DEF Keeps

\* Rows are received from the hub's log.
LEMMA HandledIs ==
    ASSUME StreamsOk, LogOk, AgentLog, NEW s \in Stream, Handle(s)
    PROVE  /\ stream[s].done + 1 \in 1..Len(log) /\ EventOf(log[stream[s].done + 1], clock)
           /\ stream' = [stream EXCEPT ![s].done = stream[s].done + 1, ![s].cursor = stream[s].done + 1]
           /\ UNCHANGED <<table, clock, log, readVars, page, userVars>> /\ w' = w
           /\ LET e == log[stream[s].done + 1] IN
              \/ /\ e.type = "received" /\ frame' = Append(frame, e.row)
                 /\ tasks' \in {tasks, AddRefresh(tasks)}
              \/ /\ e.type = "received" /\ UNCHANGED <<frame, tasks>>
                 /\ s # "session" /\ (stream["session"].up \/ ~selected)
              \/ /\ e.type = "invalidated" /\ UNCHANGED frame
                 /\ tasks' = IF selected THEN Append(tasks, "wipe") ELSE tasks
<1> DEFINE e == log[stream[s].done + 1]
<1>1. stream[s].done \in Nat /\ Len(log) \in Nat /\ stream[s].done < Len(log)
  BY DEF StreamsOk, LogOk, Handle
<1>2. stream[s].done + 1 \in 1..Len(log)
  BY <1>1
<1>3. EventOf(e, clock)
  BY <1>2 DEF AgentLog
<1>4. /\ stream' = [stream EXCEPT ![s].done = stream[s].done + 1, ![s].cursor = stream[s].done + 1]
      /\ UNCHANGED <<table, clock, log, readVars, page, userVars>>
  BY DEF Handle, hubVars
<1>5. CASE e.type = "received"
  <2>1. IF s = "session" \/ (selected /\ ~stream["session"].up) THEN Receive(e.row)
        ELSE UNCHANGED <<frame, w, tasks>>
    BY <1>5 DEF Handle
  <2> HIDE DEF e
  <2> QED BY <1>2, <1>3, <1>4, <1>5, <2>1 DEF Receive, e
<1>6. CASE e.type = "invalidated"
  <2>1. tasks' = (IF selected THEN Append(tasks, "wipe") ELSE tasks) /\ UNCHANGED <<frame, w>>
    BY <1>6 DEF Handle
  <2> QED BY <1>2, <1>3, <1>4, <1>6, <2>1
<1> QED BY <1>3, <1>5, <1>6 DEF EventOf

LEMMA TasksIs ==
    ASSUME NEW q \in Seq({"refresh", "wipe"})
    PROVE  AddRefresh(q) \in Seq({"refresh", "wipe"}) /\ AddRefresh(q) # <<>>
           /\ Append(q, "wipe") \in Seq({"refresh", "wipe"}) /\ Append(q, "wipe") # <<>>
<1>1. ASSUME NEW x \in {"refresh", "wipe"}
      PROVE  Append(q, x) \in Seq({"refresh", "wipe"}) /\ Append(q, x) # <<>>
  <2>1. Append(q, x) \in Seq({"refresh", "wipe"}) /\ Len(Append(q, x)) = Len(q) + 1 /\ Len(q) \in Nat
    OBVIOUS
  <2>2. Len(Append(q, x)) # 0
    BY <2>1
  <2>3. Len(<<>>) = 0
    OBVIOUS
  <2> QED BY <2>1, <2>2, <2>3
<1>2. AddRefresh(q) \in {q, Append(q, "refresh")} /\ (AddRefresh(q) = q => q # <<>> \/ q = Append(q, "refresh"))
  BY DEF AddRefresh
<1> QED BY <1>1, <1>2

LEMMA TasksStep ==
    ASSUME TasksOk, StreamsOk, LogOk, [Next]_vars
    PROVE  TasksOk'
<1> USE DEF hubVars, readVars, userVars, TasksOk
<1>2. CASE ServeRead \/ LandRead \/ FailRead \/ StrayLands
  BY <1>2 DEF ServeRead, LandRead, FailRead, StrayLands
<1>3. CASE RunTask
  BY <1>3 DEF RunTask
<1>4. CASE Probe \/ FlushFrame
  BY <1>4, TasksIs DEF Probe, FlushFrame
<1>5. ASSUME NEW s \in Stream, Connect(s) \/ Break(s) PROVE TasksOk'
  BY <1>5, TasksIs DEF Connect, RefreshOnConnect, Break
<1>6. ASSUME NEW s \in Stream, Handle(s) PROVE TasksOk'
  <2> DEFINE e == log[stream[s].done + 1]
  <2>1. e.type \in EventType
    BY <1>6, ReceivedIs DEF Handle
  <2>2. CASE e.type = "received"
    <3>1. Receive(e.row) \/ UNCHANGED tasks
      BY <1>6, <2>2 DEF Handle
    <3>2. tasks' \in {tasks, AddRefresh(tasks)}
      BY <3>1 DEF Receive
    <3> QED BY <3>2, TasksIs
  <2>3. CASE e.type \in {"consumed", "cancelled"}
    BY <1>6, <2>3 DEF Handle
  <2>4. CASE e.type = "invalidated"
    <3>1. tasks' \in {tasks, Append(tasks, "wipe")}
      BY <1>6, <2>4 DEF Handle
    <3> QED BY <3>1, TasksIs
  <2> QED BY <2>1, <2>2, <2>3, <2>4 DEF EventType
<1>7. ASSUME NEW kind \in {"older", "newer"}, AskPage(kind) PROVE TasksOk'
  BY <1>7 DEF AskPage
<1>8. CASE ServePage \/ LandPage \/ FailPage
  BY <1>8 DEF ServePage, LandPage, FailPage
<1>9. CASE ScrollAway \/ ToBottom \/ Leave \/ Return
  BY <1>9 DEF ScrollAway, ToBottom, Leave, Return
<1>10. CASE Output \/ MoveIn \/ HubRestart
  BY <1>10 DEF Output, Insert, MoveIn, HubRestart
<1>11. ASSUME NEW k \in Turn, Send(k) \/ Answer(k) \/ FailPost(k) \/ CancelClick(k)
                              \/ CancelAnswer(k) \/ CancelFails(k)
       PROVE  TasksOk'
  BY <1>11 DEF Send, Answer, FailPost, CancelClick, CancelAnswer, CancelFails
<1>12. ASSUME NEW k \in Turn, Store(k) \/ StoreElsewhere(k) \/ Consume(k) \/ CancelServed(k)
       PROVE  TasksOk'
  BY <1>12 DEF Store, StoreElsewhere, Insert, Consume, CancelServed
<1>13. CASE UNCHANGED vars
  BY <1>13 DEF vars
<1> QED BY <1>2, <1>3, <1>4, <1>5, <1>6, <1>7, <1>8, <1>9, <1>10, <1>11, <1>12, <1>13 DEF Next

\* A read that ends leaves the window v, with the frame queue read if a refresh waits.
LEMMA EndReadKeeps ==
    ASSUME MaxTurns = 0, AgentTable, AgentFrame, NEW v, Faithful(v, clock), NEW lost, EndRead(v, lost)
    PROVE  /\ frame' \in Seq(Known(clock)) /\ Faithful(w', clock) /\ (w'.hasNewer <=> v.hasNewer)
           /\ Shows(v, clock) \/ (\E i \in 1..Len(frame) : frame[i].id = Top)
              => (\E i \in 1..Len(frame') : frame'[i].id = Top) \/ Shows(w', clock)
<1>1. frame \in Seq(Known(clock))
  BY DEF AgentFrame
<1>2. CASE forced
  <2>1. w' = (IF frame = <<>> THEN v ELSE Ingest(v, FrameRows)) /\ frame' = <<>>
    BY <1>2 DEF EndRead
  <2> QED BY <2>1, FlushedTakes
<1>3. CASE ~forced
  <2>1. w' = v /\ frame' = frame
    BY <1>3 DEF EndRead
  <2> QED BY <1>1, <2>1
<1> QED BY <1>2, <1>3

LEMMA SameKeeps ==
    ASSUME AgentFrame, Faithful(w, clock), UNCHANGED <<w, frame>>
    PROVE  Keeps
BY DEF AgentFrame, Keeps, Here

LEMMA WindowKeeps ==
    ASSUME MaxTurns = 0, AgentTable, StreamsOk, LogOk, AgentLog, AgentFrame, Faithful(w, clock),
           [Next]_vars, ~LandRead, ~LandPage, ~(RunTask /\ Wipe)
    PROVE  Keeps
<1> USE DEF hubVars, readVars, userVars
<1>1. CASE ServeRead \/ Probe \/ ServePage \/ FailPage
  BY <1>1, SameKeeps DEF ServeRead, Probe, ServePage, FailPage
<1>2. CASE FailRead
  <2>1. EndRead(w, TRUE)
    BY <1>2 DEF FailRead
  <2> QED BY <2>1, EndReadKeeps DEF Keeps, Here
<1>3. CASE StrayLands \/ FlushFrame
  <2>1. (w' = Flushed /\ frame' = <<>>) \/ UNCHANGED <<w, frame>>
    BY <1>3 DEF StrayLands, FlushFrame
  <2> QED BY <2>1, FlushKeeps, SameKeeps
<1>4. CASE RunTask /\ Refresh
  <2>1. (w' = Flushed /\ frame' = <<>>) \/ UNCHANGED <<w, frame>>
    BY <1>4 DEF Refresh
  <2> QED BY <2>1, FlushKeeps, SameKeeps
<1>5. ASSUME NEW s \in Stream, Connect(s) \/ Break(s) PROVE Keeps
  BY <1>5, SameKeeps DEF Connect, Break
<1>6. ASSUME NEW s \in Stream, Handle(s) PROVE Keeps
  <2> DEFINE e == log[stream[s].done + 1]
  <2>1. w' = w /\ EventOf(e, clock)
        /\ (UNCHANGED frame \/ (e.type = "received" /\ frame' = Append(frame, e.row)))
    BY <1>6, HandledIs
  <2> HIDE DEF e
  <2>2. CASE UNCHANGED frame
    BY <2>1, <2>2, SameKeeps
  <2>3. CASE e.type = "received" /\ frame' = Append(frame, e.row)
    <3>1. e.row \in Known(clock) /\ frame \in Seq(Known(clock))
      BY <2>1, <2>3 DEF EventOf, AgentFrame
    <3>2. frame' \in Seq(Known(clock))
      BY <2>3, <3>1
    <3>3. \A i \in 1..Len(frame) : i \in 1..Len(frame') /\ frame'[i] = frame[i]
      BY <2>3, <3>1
    <3> QED BY <2>1, <3>2, <3>3 DEF Keeps, Here
  <2> QED BY <2>1, <2>2, <2>3
<1>7. ASSUME NEW kind \in {"older", "newer"}, AskPage(kind) PROVE Keeps
  BY <1>7, FlushKeeps DEF AskPage
<1>8. ASSUME NEW b \in BOOLEAN, frame' = <<>>
      PROVE  LET v == [Flushed EXCEPT !.atBottom = b] IN
             /\ Faithful(v, clock) /\ (v.hasNewer <=> w.hasNewer) /\ (Here => Shows(v, clock))
  <2>1. Faithful(Flushed, clock) /\ (Flushed.hasNewer <=> w.hasNewer) /\ (Here => Shows(Flushed, clock))
    BY <1>8, FlushKeeps
  <2>2. Takes(Flushed, [Flushed EXCEPT !.atBottom = b], {}, clock)
    BY <2>1, PositionTakes
  <2> QED BY <2>1, <2>2 DEF Takes
<1>9. frame' = <<>> => frame' \in Seq(Known(clock))
  OBVIOUS
<1>10. CASE ScrollAway
  <2>1. w' = [Flushed EXCEPT !.atBottom = FALSE] /\ frame' = <<>>
    BY <1>10 DEF ScrollAway
  <2> QED BY <1>8, <1>9, <2>1 DEF Keeps
<1>11. CASE Return
  <2>1. w' = [Flushed EXCEPT !.atBottom = TRUE] /\ frame' = <<>>
    BY <1>11 DEF Return
  <2> QED BY <1>8, <1>9, <2>1 DEF Keeps
<1>12. CASE ToBottom
  <2> DEFINE v == [Flushed EXCEPT !.atBottom = TRUE]
  <2>1. w' = FlushPending(v) /\ frame' = <<>>
    BY <1>12 DEF ToBottom
  <2>2. Faithful(v, clock) /\ (v.hasNewer <=> w.hasNewer) /\ (Here => Shows(v, clock))
    BY <1>8, <2>1
  <2>3. clock \in 0..MaxOutput
    BY DEF AgentTable
  <2> HIDE DEF v
  <2>4. Takes(v, FlushPending(v), {}, clock)
    BY <2>2, <2>3, FlushPendingTakes
  <2> QED BY <1>9, <2>1, <2>2, <2>4 DEF Takes, Keeps
<1>13. CASE Leave \/ Output \/ MoveIn \/ HubRestart
  BY <1>13, SameKeeps DEF Leave, Output, Insert, MoveIn, HubRestart
<1>14. CASE UNCHANGED vars
  BY <1>14, SameKeeps DEF vars
<1>15. RunTask => Refresh \/ Wipe
  BY DEF RunTask
<1> QED BY <1>1, <1>2, <1>3, <1>4, <1>5, <1>6, <1>7, <1>10, <1>11, <1>12, <1>13, <1>14, <1>15, NoTurns DEF Next

\* A latest page that lands shows the newest row if it has it.
LEMMA LandReadKeeps ==
    ASSUME MaxTurns = 0, AgentTable, AgentFrame, AgentReads, Faithful(w, clock), LandRead
    PROVE  /\ frame' \in Seq(Known(clock)) /\ Faithful(w', clock)
           /\ Here \/ Top \in Ids(read.snap)
              => (\E i \in 1..Len(frame') : frame'[i].id = Top) \/ Shows(w', clock)
<1> DEFINE v == ApplyLatest(w)
<1>1. clock \in 0..MaxOutput /\ read.snap \in SUBSET Known(clock) /\ read.more \in BOOLEAN
  BY DEF AgentTable, AgentReads
<1>2. Faithful(v, clock) /\ (Shows(w, clock) \/ Top \in Ids(read.snap) => Shows(v, clock))
  BY <1>1, LatestTakes DEF Top
<1>3. EndRead(v, FALSE)
  BY DEF LandRead
<1> HIDE DEF v
<1> QED BY <1>2, <1>3, EndReadKeeps DEF Here

LEMMA LandPageKeeps ==
    ASSUME MaxTurns = 0, AgentTable, AgentFrame, AgentPages, Faithful(w, clock), LandPage
    PROVE  /\ frame' = frame /\ frame' \in Seq(Known(clock)) /\ Faithful(w', clock)
           /\ page.kind = "older" => /\ w.hasNewer => w'.hasNewer
                                     /\ Shows(w, clock) => Shows(w', clock) \/ w'.hasNewer
           /\ page.kind = "newer" => /\ w'.hasNewer <=> page.more
                                     /\ Shows(w, clock) \/ Top \in Ids(page.snap) => Shows(w', clock)
           /\ page.kind \in {"older", "newer"} /\ page' = NoPage
<1>1. /\ clock \in 0..MaxOutput /\ page.snap \in SUBSET Known(clock) /\ page.more \in BOOLEAN
      /\ page.kind \in {"none", "older", "newer"}
  BY DEF AgentTable, AgentPages
<1>2. page.kind \in {"older", "newer"} /\ frame' = frame /\ frame \in Seq(Known(clock)) /\ page' = NoPage
  BY <1>1 DEF LandPage, AgentPages, AgentFrame
<1>3. CASE page.kind = "older"
  <2>1. w' = OlderLanded(w)
    BY <1>3 DEF LandPage
  <2>2. \A r \in page.snap : r.at < clock
    BY <1>3 DEF AgentPages
  <2> QED BY <1>1, <1>2, <1>3, <2>1, <2>2, OlderTakes
<1>4. CASE page.kind = "newer"
  <2>1. w' = NewerLanded(w)
    BY <1>4 DEF LandPage
  <2>2. w.hasNewer /\ (page.more => \A r \in page.snap : r.at < clock)
    BY <1>4 DEF AgentPages
  <2> QED BY <1>1, <1>2, <1>4, <2>1, <2>2, NewerTakes DEF Top
<1> QED BY <1>2, <1>3, <1>4

LEMMA AgentWindowStep ==
    ASSUME MaxTurns = 0, Agent, [Next]_vars
    PROVE  AgentFrame' /\ Faithful(w', clock')
<1> USE DEF Agent, Basics
<1>1. frame' \in Seq(Known(clock)) /\ Faithful(w', clock)
  <2>1. CASE LandRead
    BY <2>1, LandReadKeeps
  <2>2. CASE LandPage
    BY <2>2, LandPageKeeps
  <2>3. CASE RunTask /\ Wipe
    <3>1. w' = FreshWindow /\ frame' = <<>>
      BY <2>3 DEF Wipe
    <3> QED BY <3>1, ClockIs, FreshFaithful
  <2>4. CASE ~LandRead /\ ~LandPage /\ ~(RunTask /\ Wipe)
    BY <2>4, WindowKeeps DEF Keeps
  <2> QED BY <2>1, <2>2, <2>3, <2>4
<1>2. clock \in Nat /\ clock' \in Nat /\ clock <= clock'
  <2>1. AgentTable' /\ clock <= clock'
    BY TableLater
  <2> QED BY <2>1, ClockIs, WindowAssumption DEF AgentTable
<1>3. Known(clock) \subseteq Known(clock')
  BY <1>2, KnownMore
<1>4. frame' \in Seq(Known(clock'))
  BY <1>1, <1>3
<1>5. Faithful(w', clock')
  BY <1>1, <1>2, FaithfulLater
<1>6. TasksOk'
  BY TasksStep DEF AgentFrame
<1> QED BY <1>4, <1>5, <1>6 DEF AgentFrame

-----------------------------------------------------------------------------
(* Reads and pages of such a session.                                      *)

LEMMA BegunIs ==
    ASSUME Begun
    PROVE  read'.phase = "asked" /\ read'.snap = {} /\ read'.more = FALSE /\ read'.eligible = Waiting(w')
<1> DEFINE E == Waiting(w')
<1>1. read' = [NoRead EXCEPT !.phase = "asked", !.eligible = E]
  BY DEF Begun
<1> HIDE DEF E
<1>2. NoRead \in [phase : {"idle", "asked"}, snap : {{}}, more : {FALSE}, eligible : {{}, E}]
  BY DEF NoRead
<1>3. read'.phase = "asked" /\ read'.snap = {} /\ read'.more = FALSE /\ read'.eligible = E
  BY <1>1, <1>2
<1> QED BY <1>3 DEF E

LEMMA ServedIs ==
    ASSUME ReadOk, ServeRead
    PROVE  /\ read'.phase = "served" /\ read'.more = (table # Newest(table, PageSize))
           /\ read'.eligible = read.eligible
           /\ Newest(table, PageSize) \subseteq read'.snap /\ read'.snap \subseteq table
<1> DEFINE rows == Newest(table, PageSize)
           x == rows \cup {r \in table : IsQueued(r)}
           y == table # rows
<1>1. read' = [read EXCEPT !.phase = "served", !.snap = x, !.more = y]
  BY DEF ServeRead
<1>2. x \in SUBSET table /\ rows \subseteq x
  BY NewestIn
<1> HIDE DEF x, y, rows
<1>3. read \in [phase : {read.phase, "served"}, snap : {read.snap, x}, more : {read.more, y},
                eligible : {read.eligible}]
  BY DEF ReadOk
<1>4. read'.phase = "served" /\ read'.snap = x /\ read'.more = y /\ read'.eligible = read.eligible
  BY <1>1, <1>3
<1> QED BY <1>2, <1>4 DEF rows, y

LEMMA LostIs ==
    ASSUME ReadOk, HubRestart
    PROVE  /\ page' = NoPage /\ UNCHANGED <<forced, reconciling>>
           /\ read' = read \/ (read'.phase = "lost" /\ read'.snap = read.snap /\ read'.more = read.more
                               /\ read'.eligible = read.eligible)
           /\ read.phase # "idle" => read'.phase = "lost"
<1>1. read = [phase |-> read.phase, snap |-> read.snap, more |-> read.more, eligible |-> read.eligible]
  BY DEF ReadOk
<1>2. LET r == [read EXCEPT !.phase = "lost"] IN
      r.phase = "lost" /\ r.snap = read.snap /\ r.more = read.more /\ r.eligible = read.eligible
  BY <1>1
<1> QED BY <1>2 DEF HubRestart

LEMMA RefreshStep ==
    ASSUME RefreshOk, ReadOk, [Next]_vars,
           page = [kind |-> page.kind, served |-> page.served, from |-> page.from,
                   snap |-> page.snap, more |-> page.more]
    PROVE  RefreshOk'
<1> USE DEF hubVars, userVars
<1> DEFINE By == [on : BOOLEAN, by : SUBSET {"read", "forced"}]
<1>2. ASSUME Begun, page' = NoPage, reconciling' \in By, forced' \in BOOLEAN,
             forced' <=> "forced" \in reconciling'.by
      PROVE  RefreshOk'
  <2>1. read'.phase = "asked"
    BY <1>2, BegunIs
  <2>2. page'.kind = "none"
    BY <1>2 DEF NoPage
  <2> QED BY <1>2, <2>1, <2>2 DEF RefreshOk
<1>3. ASSUME read' = NoRead, forced' = FALSE, reconciling' \in By, "forced" \notin reconciling'.by
      PROVE  RefreshOk'
  <2>1. read'.phase = "idle"
    BY <1>3 DEF NoRead
  <2> QED BY <1>3, <2>1 DEF RefreshOk
<1>4. ASSUME UNCHANGED read, reconciling' \in By, forced' \in BOOLEAN, forced' <=> "forced" \in reconciling'.by,
             forced' => read.phase # "idle", page'.kind # "none" => read.phase = "idle"
      PROVE  RefreshOk'
  BY <1>4 DEF RefreshOk
<1>5. ASSUME UNCHANGED <<read, forced, reconciling>>, page'.kind # "none" => read.phase = "idle"
      PROVE  RefreshOk'
  BY <1>4, <1>5 DEF RefreshOk
<1>6. ASSUME UNCHANGED <<read, forced, reconciling, page>>
      PROVE  RefreshOk'
  BY <1>5, <1>6 DEF RefreshOk
<1>7. reconciling \in By /\ forced \in BOOLEAN /\ (forced <=> "forced" \in reconciling.by)
  BY DEF RefreshOk
<1>8. ASSUME NEW v, NEW lost, EndRead(v, lost) PROVE RefreshOk'
  <2>1. reconciling' = [on |-> reconciling.on /\ "read" \notin reconciling.by,
                        by |-> IF "forced" \in reconciling.by THEN {"read"} ELSE {}]
    BY <1>8 DEF EndRead
  <2>2. reconciling' \in By /\ "forced" \notin reconciling'.by
    BY <1>7, <2>1
  <2>3. CASE forced
    <3>1. BeginRead(w') /\ forced' = FALSE
      BY <1>8, <2>3 DEF EndRead
    <3> QED BY <1>2, <2>2, <3>1, BeginReadIs
  <2>4. CASE ~forced
    <3>1. read' = NoRead /\ forced' = forced
      BY <1>8, <2>4 DEF EndRead
    <3> QED BY <1>3, <1>7, <2>2, <2>4, <3>1
  <2> QED BY <2>3, <2>4
<1>9. CASE ServeRead
  <2>1. read.phase = "asked" /\ UNCHANGED <<forced, reconciling, page>>
    BY <1>9 DEF ServeRead
  <2>2. read'.phase = "served"
    BY <1>9, ServedIs
  <2> QED BY <2>1, <2>2 DEF RefreshOk
<1>10. CASE LandRead
  <2>1. EndRead(ApplyLatest(w), FALSE)
    BY <1>10 DEF LandRead
  <2> QED BY <1>8, <2>1
<1>11. CASE FailRead
  <2>1. EndRead(w, TRUE)
    BY <1>11 DEF FailRead
  <2> QED BY <1>8, <2>1
<1>12. CASE StrayLands
  <2>1. PICK kind \in {"waited", "other"} :
           reconciling' = [on |-> /\ reconciling.on /\ kind # "waited"
                                  /\ ~(forced /\ "forced" \in reconciling.by),
                           by |-> reconciling.by \ {"forced"}]
    BY <1>12 DEF StrayLands
  <2>2. reconciling' \in By /\ "forced" \notin reconciling'.by
    BY <1>7, <2>1
  <2>3. forced' = FALSE /\ UNCHANGED <<read, page>>
    BY <1>7, <1>12 DEF StrayLands
  <2>4. page'.kind # "none" => read.phase = "idle"
    BY <2>3 DEF RefreshOk
  <2> QED BY <1>4, <2>2, <2>3, <2>4
<1>13. CASE RunTask /\ Refresh
  <2>1. CASE reconciling.on
    BY <1>6, <1>13, <2>1 DEF Refresh
  <2>2. CASE ~reconciling.on /\ read.phase # "idle"
    <3>1. forced' = TRUE /\ reconciling' = [on |-> TRUE, by |-> reconciling.by \cup {"forced"}]
          /\ UNCHANGED <<read, page>>
      BY <1>13, <2>2 DEF Refresh
    <3>2. reconciling' \in By /\ "forced" \in reconciling'.by
      BY <1>7, <3>1
    <3>3. page'.kind # "none" => read.phase = "idle"
      BY <3>1 DEF RefreshOk
    <3> QED BY <1>4, <2>2, <3>1, <3>2, <3>3
  <2>3. CASE ~reconciling.on /\ read.phase = "idle"
    <3>1. BeginRead(w') /\ reconciling' = [on |-> TRUE, by |-> {"read"}] /\ forced' = forced
      BY <1>13, <2>3 DEF Refresh
    <3>2. forced = FALSE
      BY <1>7, <2>3 DEF RefreshOk
    <3> QED BY <1>2, <3>1, <3>2, BeginReadIs
  <2> QED BY <2>1, <2>2, <2>3
<1>14. CASE RunTask /\ Wipe
  <2>1. CASE reconciling.on
    <3>1. read' = NoRead /\ forced' = FALSE
          /\ reconciling' = [on |-> "forced" \notin reconciling.by, by |-> {}]
      BY <1>14, <2>1 DEF Wipe
    <3> QED BY <1>3, <3>1
  <2>2. CASE ~reconciling.on
    <3>1. BeginRead(w') /\ reconciling' = [on |-> TRUE, by |-> {"read"}] /\ forced' = FALSE
      BY <1>14, <2>2 DEF Wipe
    <3> QED BY <1>2, <3>1, BeginReadIs
  <2> QED BY <2>1, <2>2
<1>15. CASE Probe \/ FlushFrame
  BY <1>6, <1>15 DEF Probe, FlushFrame, readVars
<1>16. ASSUME NEW s \in Stream, Connect(s) \/ Break(s) PROVE RefreshOk'
  BY <1>6, <1>16 DEF Connect, Break, readVars
<1>17. ASSUME NEW s \in Stream, Handle(s) PROVE RefreshOk'
  BY <1>6, <1>17 DEF Handle, readVars
<1>18. ASSUME NEW kind \in {"older", "newer"}, AskPage(kind) PROVE RefreshOk'
  BY <1>5, <1>18 DEF AskPage, readVars
<1>19. CASE ServePage
  <2>1. page'.kind = page.kind
    BY <1>19 DEF ServePage
  <2>2. page'.kind # "none" => read.phase = "idle"
    BY <2>1 DEF RefreshOk
  <2> QED BY <1>5, <1>19, <2>2 DEF ServePage, readVars
<1>20. CASE LandPage \/ FailPage
  <2>1. page'.kind = "none"
    BY <1>20 DEF LandPage, FailPage, NoPage
  <2> QED BY <1>5, <1>20, <2>1 DEF LandPage, FailPage, readVars
<1>21. CASE ScrollAway \/ Leave
  BY <1>6, <1>21 DEF ScrollAway, Leave, readVars
<1>22. ASSUME ReadUnlessReading(w') \/ UNCHANGED <<read, page>>, reconciling' \in By, forced' = forced,
              reconciling'.by = reconciling.by
       PROVE  RefreshOk'
  <2>1. CASE UNCHANGED <<read, page>>
    <3>1. forced => read.phase # "idle"
      BY DEF RefreshOk
    <3>2. page'.kind # "none" => read.phase = "idle"
      BY <2>1 DEF RefreshOk
    <3> QED BY <1>4, <1>7, <1>22, <2>1, <3>1, <3>2
  <2>2. CASE BeginRead(w')
    BY <1>2, <1>7, <1>22, <2>2, BeginReadIs
  <2> QED BY <1>22, <2>1, <2>2 DEF ReadUnlessReading
<1>23. CASE ToBottom
  <2>1. ReadUnlessReading(w') \/ UNCHANGED <<read, page>>
    BY <1>23 DEF ToBottom
  <2>2. UNCHANGED <<reconciling, forced>>
    BY <1>23 DEF ToBottom
  <2> QED BY <1>7, <1>22, <2>1, <2>2
<1>24. CASE Return
  <2>1. ReadUnlessReading(w') /\ forced' = forced /\ reconciling' = [reconciling EXCEPT !.on = FALSE]
    BY <1>24 DEF Return
  <2>2. reconciling' \in By /\ reconciling'.by = reconciling.by
    BY <1>7, <2>1
  <2> QED BY <1>22, <2>1, <2>2
<1>25. CASE Output \/ MoveIn
  BY <1>6, <1>25 DEF Output, Insert, MoveIn, readVars
<1>26. CASE HubRestart
  <2>1. page'.kind = "none" /\ UNCHANGED <<forced, reconciling>>
        /\ (read' = read \/ read'.phase = "lost")
    BY <1>26, LostIs DEF NoPage
  <2> QED BY <2>1 DEF RefreshOk
<1>27. CASE UNCHANGED vars
  BY <1>6, <1>27 DEF vars, readVars
<1>28. RunTask => Refresh \/ Wipe
  BY DEF RunTask
<1>29. ASSUME NEW k \in Turn, Send(k) \/ Answer(k) \/ FailPost(k) \/ CancelClick(k)
                              \/ CancelAnswer(k) \/ CancelFails(k)
       PROVE  RefreshOk'
  BY <1>6, <1>29 DEF Send, Answer, FailPost, CancelClick, CancelAnswer, CancelFails, readVars
<1>30. ASSUME NEW k \in Turn, Store(k) \/ StoreElsewhere(k) \/ Consume(k) \/ CancelServed(k)
       PROVE  RefreshOk'
  BY <1>6, <1>30 DEF Store, StoreElsewhere, Insert, Consume, CancelServed, readVars
<1> QED BY <1>9, <1>10, <1>11, <1>12, <1>13, <1>14, <1>15, <1>16, <1>17, <1>18, <1>19, <1>20, <1>21,
        <1>23, <1>24, <1>25, <1>26, <1>27, <1>28, <1>29, <1>30 DEF Next

LEMMA AgentReadsStep ==
    ASSUME MaxTurns = 0, AgentTable, TableOk, ReadOk, AgentReads, AgentPages, [Next]_vars
    PROVE  AgentReads'
<1>1. Known(clock) \subseteq Known(clock')
  <2>1. AgentTable' /\ clock <= clock'
    BY TableLater
  <2>2. clock \in Nat /\ clock' \in Nat
    BY <2>1, ClockIs, WindowAssumption DEF AgentTable
  <2> QED BY <2>1, <2>2, KnownMore
<1>2. RefreshOk'
  <2>1. page = [kind |-> page.kind, served |-> page.served, from |-> page.from,
                snap |-> page.snap, more |-> page.more]
    BY DEF AgentPages
  <2> QED BY <2>1, RefreshStep DEF AgentReads
<1>3. ASSUME Begun PROVE read'.snap \subseteq Known(clock') /\ read'.more \in BOOLEAN
  BY <1>3, BegunIs
<1>4. CASE UNCHANGED read
  BY <1>1, <1>2, <1>4 DEF AgentReads
<1>5. CASE read' = NoRead
  BY <1>2, <1>5 DEF AgentReads, NoRead
<1>6. CASE ServeRead
  BY <1>1, <1>2, <1>6, ServedIs DEF AgentReads, AgentTable, ServeRead, hubVars
<1>7. CASE HubRestart
  BY <1>1, <1>2, <1>7, LostIs DEF AgentReads
<1> QED BY <1>2, <1>3, <1>4, <1>5, <1>6, <1>7, ReadChange, WhoChanges DEF AgentReads

\* A page has the rows beyond the end of the thread, the newest one if it is a
\* newer page and there are no more.
LEMMA PageServed ==
    ASSUME MaxTurns = 0, AgentTable, AgentPages, ServePage
    PROVE  /\ page'.kind = page.kind /\ page'.from = page.from /\ page'.served = TRUE
           /\ page.kind # "none"
           /\ page'.snap \subseteq Known(clock) /\ page'.more \in BOOLEAN
           /\ page' \in [kind : {"none", "older", "newer"}, served : BOOLEAN, from : (-1)..clock,
                         snap : SUBSET Known(clock), more : BOOLEAN]
           /\ page.kind = "older" \/ page'.more => \A r \in page'.snap : r.at < clock
           /\ page.kind = "newer" /\ ~page'.more /\ table # {} => Top \in Ids(page'.snap)
<1> DEFINE beyond == {r \in table : IF page.kind = "older" THEN r.at < page.from ELSE r.at > page.from}
           rows == IF page.kind = "older" THEN Newest(beyond, PageSize) ELSE Oldest(beyond, PageSize)
           x == beyond # rows
<1>1. page' = [page EXCEPT !.served = TRUE, !.snap = rows, !.more = x]
  BY DEF ServePage
<1>2. page.kind # "none" /\ page.kind \in {"none", "older", "newer"} /\ page.from \in (-1)..clock
  BY DEF ServePage, AgentPages
<1>3. clock \in 0..MaxOutput /\ clock \in Nat /\ PageSize \in Nat \ {0}
  BY ClockIs, WindowAssumption DEF AgentTable
<1>4. beyond \in SUBSET Known(clock) /\ beyond \in SUBSET table
  BY DEF AgentTable
<1>5. rows \in SUBSET beyond
  BY NewestIn DEF Oldest
<1>6. x \in BOOLEAN
  OBVIOUS
<1>7. CASE page.kind = "older"
  <2>1. \A r \in rows : r.at < page.from
    BY <1>5, <1>7
  <2>2. \A r \in rows : r.at \in Int
    <3> HIDE DEF rows, beyond
    <3>1. \A r \in rows : r.at \in 0..clock
      BY <1>3, <1>4, <1>5, KnownIs
    <3> QED BY <3>1
  <2> HIDE DEF rows
  <2>3. \A r \in rows : r.at < clock
    BY <1>2, <1>3, <2>1, <2>2
  <2> QED
    <3> HIDE DEF x, beyond
    <3> QED BY <1>1, <1>2, <1>4, <1>5, <1>6, <1>7, <2>3 DEF AgentPages
<1>8. CASE page.kind = "newer"
  <2>1. rows = Oldest(beyond, PageSize)
    BY <1>8
  <2>2. page.from < clock
    BY <1>8 DEF AgentPages
  <2>3. ASSUME table # {} PROVE Top \in Ids(beyond)
    <3>1. Top \in Ids(table)
      BY <2>3, TopOfTable
    <3>2. PICK t \in table : t.id = Top
      BY <3>1 DEF Ids
    <3>3. t \in Known(clock)
      BY DEF AgentTable
    <3>4. t.at = clock
      BY <1>3, <3>2, <3>3, KnownIs DEF Top
    <3>5. t \in beyond
      BY <1>2, <1>3, <1>8, <2>2, <3>4
    <3> HIDE DEF beyond
    <3> QED BY <3>2, <3>5 DEF Ids
  <2> HIDE DEF rows, beyond
  <2>4. ASSUME x PROVE \A r \in rows : r.at < clock
    BY <1>3, <1>4, <2>1, <2>4, OldestLacksTop
  <2>5. table # {} /\ ~x => Top \in Ids(rows)
    BY <2>3
  <2> HIDE DEF x
  <2> QED BY <1>1, <1>2, <1>4, <1>5, <1>6, <1>8, <2>4, <2>5 DEF AgentPages
<1> QED BY <1>2, <1>7, <1>8

LEMMA PagesNext ==
    ASSUME [Next]_vars
    PROVE  /\ page' = NoPage \/ UNCHANGED page \/ ServePage
              \/ \E kind \in {"older", "newer"} : AskPage(kind)
           /\ LandPage \/ (RunTask /\ Wipe) => page' = NoPage
<1>1. ASSUME NEW v, BeginRead(v)
      PROVE  page' = NoPage
  BY <1>1 DEF BeginRead
<1>2. ASSUME NEW v, NEW lost, EndRead(v, lost)
      PROVE  page' = NoPage \/ UNCHANGED page
  BY <1>2 DEF EndRead, BeginRead
<1>3. LandRead \/ FailRead => page' = NoPage \/ UNCHANGED page
  BY <1>2 DEF LandRead, FailRead
<1>4. ToBottom \/ Return => page' = NoPage \/ UNCHANGED page
  BY DEF ToBottom, Return, ReadUnlessReading, BeginRead
<1>5. Wipe => page' = NoPage
  BY DEF Wipe, BeginRead
<1>6. Refresh => page' = NoPage \/ UNCHANGED page
  BY DEF Refresh, BeginRead
<1>7. RunTask => Refresh \/ Wipe
  BY DEF RunTask
<1>8. LandPage \/ FailPage \/ HubRestart => page' = NoPage
  BY DEF LandPage, FailPage, HubRestart
<1>9. ServeRead => UNCHANGED page
  BY DEF ServeRead
<1> QED BY <1>3, <1>4, <1>5, <1>6, <1>7, <1>8, <1>9, WhoChanges DEF Pages, Reads

LEMMA AgentPagesStep ==
    ASSUME MaxTurns = 0, Agent, [Next]_vars
    PROVE  AgentPages'
<1> USE DEF Agent, Basics
<1>1. clock \in Nat /\ clock' \in Nat /\ clock <= clock'
  <2>1. AgentTable' /\ clock <= clock'
    BY TableLater
  <2> QED BY <2>1, ClockIs, WindowAssumption DEF AgentTable
<1>2. Known(clock) \subseteq Known(clock')
  BY <1>1, KnownMore
<1> DEFINE Page(c) == [kind : {"none", "older", "newer"}, served : BOOLEAN, from : (-1)..c,
                       snap : SUBSET Known(c), more : BOOLEAN]
<1>3. \A p \in Page(clock) : p \in Page(clock')
  BY <1>1, <1>2
<1>4. \A r \in Known(clock) : r.at \in Int
  <2> TAKE r \in Known(clock)
  <2>1. r.at \in 0..clock
    BY KnownIs DEF AgentTable
  <2> QED BY <2>1
<1>5. ASSUME page' \in Page(clock), page'.served => page'.kind # "none",
             page'.kind = "newer" => w'.hasNewer /\ page'.from < clock,
             page'.kind = "older" \/ page'.more => \A r \in page'.snap : r.at < clock
      PROVE  AgentPages'
  <2>1. page' \in Page(clock')
    BY <1>3, <1>5
  <2>2. page'.kind = "newer" => page'.from < clock'
    <3>1. page'.from \in Int
      BY <1>5
    <3> QED BY <1>1, <1>5, <3>1
  <2>3. page'.snap \subseteq Known(clock)
    BY <1>5
  <2>4. page'.kind = "older" \/ page'.more => \A r \in page'.snap : r.at < clock'
    BY <1>1, <1>4, <1>5, <2>3
  <2> QED BY <1>5, <2>1, <2>2, <2>4 DEF AgentPages
<1>6. CASE page' = NoPage
  <2>1. NoPage \in Page(clock) /\ ~NoPage.served /\ ~NoPage.more /\ NoPage.kind = "none"
    BY <1>1 DEF NoPage, None
  <2> HIDE DEF Page
  <2> QED BY <1>5, <1>6, <2>1
<1>7. ASSUME page.kind = "newer", page'.kind = "newer", page' # NoPage
      PROVE  w'.hasNewer
  <2>1. ~LandPage /\ ~(RunTask /\ Wipe)
    BY <1>7, PagesNext
  <2>2. ~LandRead
    BY <1>7 DEF LandRead, AgentReads, RefreshOk
  <2>3. w'.hasNewer <=> w.hasNewer
    BY <2>1, <2>2, WindowKeeps DEF Keeps
  <2> QED BY <1>7, <2>3 DEF AgentPages
<1>8. page \in Page(clock) /\ (page.served => page.kind # "none")
      /\ (page.kind = "newer" => page.from < clock)
      /\ (page.kind = "older" \/ page.more => \A r \in page.snap : r.at < clock)
  BY DEF AgentPages
<1>9. CASE UNCHANGED page
  <2> HIDE DEF Page
  <2> QED BY <1>5, <1>6, <1>7, <1>8, <1>9
<1>10. CASE ServePage
  <2>1. page'.kind = page.kind /\ page'.from = page.from /\ page'.served = TRUE /\ page.kind # "none"
        /\ page' \in Page(clock)
        /\ (page.kind = "older" \/ page'.more => \A r \in page'.snap : r.at < clock)
    BY <1>10, PageServed
  <2>2. NoPage.kind = "none"
    BY DEF NoPage
  <2> HIDE DEF Page
  <2> QED BY <1>5, <1>7, <1>8, <2>1, <2>2
<1>11. ASSUME NEW kind \in {"older", "newer"}, AskPage(kind) PROVE AgentPages'
  <2> DEFINE from == IF kind = "older" THEN Flushed.oldest ELSE Flushed.newest
  <2>1. /\ w' = Flushed /\ frame' = <<>> /\ page' = [NoPage EXCEPT !.kind = kind, !.from = from]
        /\ kind = "newer" => Flushed.hasNewer
    BY <1>11 DEF AskPage
  <2>2. Faithful(Flushed, clock)
    BY <2>1, FlushKeeps
  <2>3. PICK F : Flushed \in WindowSet(clock, F)
    BY <2>2 DEF Faithful
  <2>4. from \in (-1)..clock /\ (kind = "newer" => from < clock)
    BY <2>1, <2>2, <2>3 DEF WindowSet, Faithful, EndsBefore
  <2> HIDE DEF from
  <2>5. NoPage \in Page(clock) /\ ~NoPage.served /\ ~NoPage.more /\ NoPage.snap = {}
    BY <1>1 DEF NoPage, None
  <2>6. page' \in Page(clock) /\ ~page'.served /\ ~page'.more /\ page'.snap = {} /\ page'.kind = kind
        /\ page'.from = from
    BY <2>1, <2>4, <2>5
  <2> HIDE DEF Page
  <2> QED BY <1>5, <2>1, <2>4, <2>6
<1> QED BY <1>6, <1>9, <1>10, <1>11, PagesNext

-----------------------------------------------------------------------------
(* The newest row stays on its way.                                        *)

OnItsWay == Told \/ Reading \/ Paging

LEMMA HereKept ==
    ASSUME Keeps, clock' = clock, Here
    PROVE  Here'
BY DEF Keeps, Here, Top

LEMMA WayKept ==
    ASSUME Keeps, UNCHANGED <<clock, log, read, forced>>, stream'["session"] = stream["session"],
           tasks # <<>> => tasks' # <<>>,
           UNCHANGED page \/ ~page'.served, OnItsWay
    PROVE  OnItsWay'
<1>1. Top' = Top
  BY DEF Top
<1>2. OnStream => OnStream'
  BY <1>1 DEF OnStream
<1>3. Told => Told'
  BY <1>2, HereKept DEF Told
<1>4. Reading => Reading'
  BY <1>1 DEF Reading
<1>5. Paging => Paging'
  BY <1>1 DEF Paging, Keeps
<1> QED BY <1>3, <1>4, <1>5 DEF OnItsWay

LEMMA BegunWay ==
    ASSUME Begun
    PROVE  OnItsWay'
BY BegunIs DEF OnItsWay, Reading

LEMMA TellsWay ==
    ASSUME StreamsOk, LogOk, BehindLog, Tells
    PROVE  OnItsWay'
<1>1. PICK e : log' = Append(log, e) /\ (e.type = "invalidated" \/ e.row.id = Top')
  BY DEF Tells
<1>2. stream' = stream
  BY DEF Tells, Output, Insert, MoveIn
<1>3. "session" \in Stream
  BY WindowAssumption
<1>4. stream["session"].done \in Nat /\ Len(log) \in Nat /\ stream["session"].done <= Len(log)
  BY <1>3 DEF StreamsOk, LogOk, BehindLog
<1>5. Len(log') = Len(log) + 1 /\ log'[Len(log) + 1] = e
  BY <1>1 DEF LogOk
<1>6. Len(log) + 1 \in (stream["session"].done + 1)..Len(log')
  BY <1>4, <1>5
<1>7. stream'["session"].up => OnStream'
  BY <1>1, <1>2, <1>5, <1>6 DEF OnStream
<1> QED BY <1>7 DEF OnItsWay, Told

LEMMA LandReadWay ==
    ASSUME MaxTurns = 0, Agent, LandRead, ~owed', ~owed => OnItsWay
    PROVE  OnItsWay'
<1> USE DEF Agent, Basics, hubVars
<1>1. EndRead(ApplyLatest(w), FALSE) /\ read.phase = "served"
  BY DEF LandRead
<1>2. CASE forced
  <2>1. BeginRead(w')
    BY <1>1, <1>2 DEF EndRead
  <2> QED BY <2>1, BeginReadIs, BegunWay
<1>3. CASE ~forced
  <2>1. owed' = (owed \/ FALSE)
    BY <1>1, <1>3 DEF EndRead
  <2>2. OnItsWay
    BY <2>1
  <2>3. UNCHANGED <<clock, log, stream, tasks>>
    BY DEF LandRead
  <2>4. Top' = Top
    BY <2>3 DEF Top
  <2>5. Here \/ Top \in Ids(read.snap) => Here'
    BY <2>3, <2>4, LandReadKeeps DEF Here
  <2>6. OnStream => OnStream'
    BY <2>3, <2>4 DEF OnStream
  <2>7. Told => Told'
    BY <1>3, <2>3, <2>5, <2>6 DEF Told
  <2>8. Reading => Told'
    BY <1>1, <2>5 DEF Reading, Told
  <2>9. ~Paging
    BY <1>1 DEF Paging
  <2> QED BY <2>2, <2>7, <2>8, <2>9 DEF OnItsWay
<1> QED BY <1>2, <1>3

LEMMA LandPageWay ==
    ASSUME MaxTurns = 0, Agent, LandPage, OnItsWay
    PROVE  OnItsWay'
<1> USE DEF Agent, Basics, hubVars
<1>1. UNCHANGED <<clock, log, stream, tasks, read, forced, frame>> /\ page.served
  BY DEF LandPage, readVars
<1>2. Top' = Top
  BY <1>1 DEF Top
<1>3. read.phase = "idle" /\ page.kind \in {"older", "newer"} /\ page' = NoPage
  BY LandPageKeeps DEF AgentReads, RefreshOk
<1>4. ~page'.served
  BY <1>3 DEF NoPage
<1>5. w'.hasNewer => Paging'
  BY <1>1, <1>3, <1>4 DEF Paging
<1>6. Shows(w', clock) => Told'
  BY <1>1 DEF Told, Here
<1>7. OnStream => OnStream'
  BY <1>1, <1>2 DEF OnStream
<1>8. ASSUME Told, ~Shows(w, clock) PROVE Told'
  BY <1>1, <1>2, <1>7, <1>8 DEF Told, Here
<1>9. CASE page.kind = "older"
  <2>1. (w.hasNewer => w'.hasNewer) /\ (Shows(w, clock) => Shows(w', clock) \/ w'.hasNewer)
    BY <1>9, LandPageKeeps
  <2>2. Paging => w.hasNewer
    BY DEF Paging
  <2>3. ~Reading
    BY <1>3 DEF Reading
  <2> QED BY <1>5, <1>6, <1>8, <2>1, <2>2, <2>3 DEF OnItsWay
<1>10. CASE page.kind = "newer"
  <2>1. (w'.hasNewer <=> page.more) /\ (Shows(w, clock) \/ Top \in Ids(page.snap) => Shows(w', clock))
    BY <1>10, LandPageKeeps
  <2>2. Paging /\ ~page.more => Top \in Ids(page.snap)
    BY <1>1, <1>10 DEF Paging
  <2>3. ~Reading
    BY <1>3 DEF Reading
  <2> QED BY <1>5, <1>6, <1>8, <2>1, <2>2, <2>3 DEF OnItsWay
<1> QED BY <1>3, <1>9, <1>10

LEMMA HandleWay ==
    ASSUME MaxTurns = 0, Agent, Keeps, NEW s \in Stream, Handle(s), selected, OnItsWay
    PROVE  OnItsWay'
<1> USE DEF Agent, Basics, hubVars
<1> DEFINE n == stream[s].done + 1
           e == log[n]
<1>1. /\ n \in 1..Len(log) /\ EventOf(e, clock)
      /\ stream' = [stream EXCEPT ![s].done = n, ![s].cursor = n]
      /\ UNCHANGED <<table, clock, log, readVars, page, userVars>>
      /\ \/ /\ e.type = "received" /\ frame' = Append(frame, e.row) /\ tasks' \in {tasks, AddRefresh(tasks)}
         \/ e.type = "received" /\ UNCHANGED <<frame, tasks>> /\ s # "session"
         \/ e.type = "invalidated" /\ UNCHANGED frame /\ tasks' = Append(tasks, "wipe")
  BY HandledIs
<1>2. UNCHANGED <<clock, log, read, forced, page>> /\ Top' = Top
  BY <1>1 DEF readVars, Top
<1>3. tasks \in Seq({"refresh", "wipe"})
  BY DEF AgentFrame, TasksOk
<1>4. tasks # <<>> => tasks' # <<>>
  BY <1>1, <1>3, TasksIs
<1>5. CASE e.type = "invalidated"
  <2>1. tasks' # <<>>
    BY <1>1, <1>3, <1>5, TasksIs DEF EventOf
  <2> QED BY <2>1 DEF OnItsWay, Told
<1> DEFINE T == [up : BOOLEAN, done : Nat, cursor : Nat \cup {None}, epoch : Int]
<1>6. stream \in [Stream -> T] /\ "session" \in Stream
  BY WindowAssumption DEF StreamsOk
<1>7. n \in Nat
  BY <1>1
<1> HIDE DEF n
<1>8. s # "session" => stream'["session"] = stream["session"]
  BY <1>1, <1>6
<1>9. CASE s # "session"
  BY <1>2, <1>4, <1>8, <1>9, WayKept
<1>10. CASE s = "session" /\ e.type = "received"
  <2>1. stream'["session"].done = n /\ (stream'["session"].up <=> stream["session"].up)
    <3> DEFINE one == [stream EXCEPT ![s].done = n]
    <3>1. one \in [Stream -> T] /\ one["session"].done = n /\ (one["session"].up <=> stream["session"].up)
      BY <1>6, <1>7, <1>10
    <3>2. stream' = [one EXCEPT ![s].cursor = n]
      BY <1>1
    <3> HIDE DEF one
    <3> QED BY <1>6, <1>7, <1>10, <3>1, <3>2
  <2>2. frame' = Append(frame, e.row)
    BY <1>1, <1>10
  <2>3. OnStream => OnStream' \/ Here'
    <3> SUFFICES ASSUME OnStream PROVE OnStream' \/ Here'
      OBVIOUS
    <3>1. PICK i \in n..Len(log) : log[i].type = "invalidated" \/ log[i].row.id = Top
      BY <1>10 DEF OnStream, n
    <3>2. CASE i = n
      <4>1. e.row.id = Top
        BY <1>10, <3>1, <3>2
      <4>2. Len(frame') = Len(frame) + 1 /\ Len(frame) \in Nat /\ frame'[Len(frame) + 1] = e.row
        BY <2>2 DEF AgentFrame
      <4>3. Len(frame) + 1 \in 1..Len(frame')
        BY <4>2
      <4> QED BY <1>2, <4>1, <4>2, <4>3 DEF Here
    <3>3. CASE i # n
      <4>1. i \in (n + 1)..Len(log)
        BY <1>7, <3>1, <3>3
      <4> QED BY <1>2, <2>1, <3>1, <4>1 DEF OnStream
    <3> QED BY <3>2, <3>3
  <2>4. Told => Told'
    BY <1>2, <1>4, <2>1, <2>3, HereKept DEF Told
  <2>5. Reading => Reading'
    BY <1>2 DEF Reading
  <2>6. Paging => Paging'
    BY <1>2 DEF Paging, Keeps
  <2> QED BY <2>4, <2>5, <2>6 DEF OnItsWay
<1> QED BY <1>1, <1>5, <1>9, <1>10 DEF EventOf

LEMMA ComingStep ==
    ASSUME MaxTurns = 0, Agent, Coming, [Next]_vars
    PROVE  Coming'
<1> USE DEF Agent, Basics, hubVars, userVars
<1> SUFFICES ASSUME selected', ~owed', table' # {}
             PROVE  OnItsWay'
  BY DEF Coming, OnItsWay
<1>1. ASSUME selected, ~owed, table # {} PROVE OnItsWay
  BY <1>1 DEF Coming, OnItsWay
<1>2. CASE Tells
  BY <1>2, TellsWay
<1>3. CASE HubRestart
  <2>1. stream' = [s \in Stream |-> [stream[s] EXCEPT !.up = FALSE, !.done = 0]] /\ "session" \in Stream
    BY <1>3, WindowAssumption DEF HubRestart
  <2>2. stream["session"] \in [up : BOOLEAN, done : Nat, cursor : Nat \cup {None}, epoch : Int]
    BY <2>1 DEF StreamsOk
  <2>3. ~stream'["session"].up
    BY <2>1, <2>2
  <2> QED BY <2>3 DEF OnItsWay, Told
<1>4. ASSUME UNCHANGED <<table, clock, log>>, ~HubRestart PROVE OnItsWay'
  <2>1. ASSUME selected, ~owed PROVE OnItsWay
    BY <1>1, <1>4, <2>1
  <2>2. ASSUME BeginRead(w') PROVE OnItsWay'
    BY <2>2, BeginReadIs, BegunWay
  <2>3. CASE ServeRead
    <3>1. Top \in Ids(table) /\ table \in SUBSET Known(clock) /\ clock \in 0..MaxOutput
      BY <1>4, TopOfTable DEF AgentTable
    <3>2. PageSize \in Nat \ {0}
      BY WindowAssumption
    <3>3. Top \in Ids(Newest(table, PageSize))
      BY <3>1, <3>2, NewestKeeps DEF Top
    <3>4. read'.phase = "served" /\ Newest(table, PageSize) \subseteq read'.snap
      BY <2>3, ServedIs
    <3>5. Top' \in Ids(read'.snap)
      BY <1>4, <3>3, <3>4 DEF Top, Ids
    <3> QED BY <3>4, <3>5 DEF OnItsWay, Reading
  <2>4. CASE LandRead
    <3>1. UNCHANGED selected
      BY <2>4 DEF LandRead
    <3> QED BY <2>1, <2>4, <3>1, LandReadWay
  <2>5. CASE FailRead
    <3>1. EndRead(w, TRUE)
      BY <2>5 DEF FailRead
    <3>2. forced
      BY <3>1 DEF EndRead
    <3>3. BeginRead(w')
      BY <3>1, <3>2 DEF EndRead
    <3> QED BY <2>2, <3>3
  <2>6. CASE LandPage
    <3>1. UNCHANGED <<selected, owed>>
      BY <2>6 DEF LandPage, readVars
    <3> QED BY <2>1, <2>6, <3>1, LandPageWay
  <2>7. CASE RunTask /\ Wipe
    <3>1. ~reconciling.on
      BY <2>7 DEF Wipe
    <3>2. BeginRead(w')
      BY <2>7, <3>1 DEF Wipe
    <3> QED BY <2>2, <3>2
  <2> DEFINE Else == ~LandRead /\ ~LandPage /\ ~(RunTask /\ Wipe)
  <2>8. ASSUME Else PROVE Keeps
    <3>1. ~LandRead /\ ~LandPage /\ ~(RunTask /\ Wipe)
      BY <2>8
    <3> QED BY <3>1, WindowKeeps
  <2> HIDE DEF Else
  <2>9. ASSUME Else, UNCHANGED <<clock, log, read, forced, owed>>,
               stream'["session"] = stream["session"], selected,
               tasks # <<>> => tasks' # <<>>, UNCHANGED page \/ ~page'.served
        PROVE  OnItsWay'
    BY <2>1, <2>8, <2>9, WayKept
  <2>10. tasks \in Seq({"refresh", "wipe"}) /\ "session" \in Stream
    BY WindowAssumption DEF AgentFrame, TasksOk
  <2>11. CASE StrayLands /\ Else
    <3>1. ~forced
      BY <2>11 DEF StrayLands
    <3>2. UNCHANGED <<clock, log, read, forced, owed, stream, selected, tasks, page>>
      BY <2>11, <3>1 DEF StrayLands
    <3> QED BY <2>9, <2>11, <3>2
  <2>12. CASE RunTask /\ Refresh
    <3>1. CASE reconciling.on
      <4>1. "forced" \in reconciling.by /\ forced' = forced
        BY <2>12, <3>1 DEF Refresh
      <4> QED BY <4>1 DEF AgentReads, RefreshOk, OnItsWay, Told
    <3>2. CASE ~reconciling.on /\ read.phase # "idle"
      <4>1. forced'
        BY <2>12, <3>2 DEF Refresh
      <4> QED BY <4>1 DEF OnItsWay, Told
    <3>3. CASE ~reconciling.on /\ read.phase = "idle"
      <4>1. BeginRead(w')
        BY <2>12, <3>3 DEF Refresh
      <4> QED BY <2>2, <4>1
    <3> QED BY <3>1, <3>2, <3>3
  <2>13. CASE Probe
    <3>1. tasks' # <<>>
      BY <2>10, <2>13, TasksIs DEF Probe
    <3> QED BY <3>1 DEF OnItsWay, Told
  <2>14. CASE FlushFrame /\ Else
    BY <2>9, <2>14 DEF FlushFrame, readVars
  <2>15. ASSUME NEW s \in Stream, Connect(s) PROVE OnItsWay'
    <3>1. tasks' # <<>>
      BY <2>10, <2>15, TasksIs DEF Connect, RefreshOnConnect
    <3> QED BY <3>1 DEF OnItsWay, Told
  <2>16. ASSUME NEW s \in Stream, Break(s), Else PROVE OnItsWay'
    <3> DEFINE T == [up : BOOLEAN, done : Nat, cursor : Nat \cup {None}, epoch : Int]
               t == [stream[s] EXCEPT !.up = FALSE, !.done = 0]
    <3>1. stream \in [Stream -> T] /\ stream' = [stream EXCEPT ![s] = t] /\ ~t.up
      BY <2>16 DEF StreamsOk, Break
    <3> HIDE DEF t, T
    <3>2. CASE s = "session"
      <4>1. stream'["session"] = t
        BY <2>10, <3>1, <3>2
      <4> QED BY <3>1, <4>1 DEF OnItsWay, Told
    <3>3. CASE s # "session"
      <4>1. stream'["session"] = stream["session"]
        BY <2>10, <3>1, <3>3
      <4>2. UNCHANGED <<clock, log, read, forced, owed, selected, tasks, page>>
        BY <2>16 DEF Break, readVars
      <4> QED BY <2>9, <2>16, <4>1, <4>2
    <3> QED BY <3>2, <3>3
  <2>17. ASSUME NEW s \in Stream, Handle(s), Else PROVE OnItsWay'
    <3>1. UNCHANGED <<selected, owed>>
      BY <2>17 DEF Handle, readVars
    <3> QED BY <2>1, <2>8, <2>17, <3>1, HandleWay
  <2>18. ASSUME NEW kind \in {"older", "newer"}, AskPage(kind), Else PROVE OnItsWay'
    <3> DEFINE from == IF kind = "older" THEN Flushed.oldest ELSE Flushed.newest
    <3>1. page' = [NoPage EXCEPT !.kind = kind, !.from = from]
      BY <2>18 DEF AskPage
    <3> HIDE DEF from
    <3>2. ~page'.served
      BY <3>1 DEF NoPage
    <3>3. UNCHANGED <<clock, log, read, forced, owed, stream, selected, tasks>>
      BY <2>18 DEF AskPage, readVars
    <3> QED BY <2>9, <2>18, <3>2, <3>3
  <2>19. CASE ServePage /\ Else
    <3>1. /\ page'.kind = page.kind /\ page'.served = TRUE
          /\ page.kind = "newer" /\ ~page'.more /\ table # {} => Top \in Ids(page'.snap)
      BY <2>19, PageServed
    <3>2. UNCHANGED <<clock, log, read, forced, owed, stream, selected, tasks, w, frame>> /\ table # {}
      BY <1>4, <2>19 DEF ServePage, readVars
    <3>3. OnItsWay
      BY <2>1, <3>2
    <3>4. Top' = Top
      BY <3>2 DEF Top
    <3>5. Told => Told'
      BY <3>2, <3>4 DEF Told, OnStream, Here
    <3>6. Reading => Reading'
      BY <3>2, <3>4 DEF Reading
    <3>7. Paging => Paging'
      BY <3>1, <3>2, <3>4 DEF Paging
    <3> QED BY <3>3, <3>5, <3>6, <3>7 DEF OnItsWay
  <2>20. CASE FailPage /\ Else
    <3>1. ~page'.served
      BY <2>20 DEF FailPage, NoPage
    <3> QED BY <2>9, <2>20, <3>1 DEF FailPage, readVars
  <2>21. CASE ScrollAway /\ Else
    BY <2>9, <2>21 DEF ScrollAway, readVars
  <2>22. CASE ToBottom /\ Else
    <3>1. ReadUnlessReading(w') \/ UNCHANGED <<read, page, owed>>
      BY <2>22 DEF ToBottom
    <3>2. UNCHANGED <<clock, log, forced, stream, selected, tasks>>
      BY <2>22 DEF ToBottom
    <3>3. CASE UNCHANGED <<read, page, owed>>
      BY <2>9, <2>22, <3>2, <3>3
    <3>4. CASE ReadUnlessReading(w')
      <4>1. BeginRead(w')
        BY <3>4 DEF ReadUnlessReading
      <4> QED BY <2>2, <4>1
    <3> QED BY <3>1, <3>3, <3>4
  <2>23. ~Leave
    BY DEF Leave
  <2>24. CASE Return
    <3>1. BeginRead(w')
      BY <2>24 DEF Return, ReadUnlessReading
    <3> QED BY <2>2, <3>1
  <2>25. CASE UNCHANGED vars /\ Else
    BY <2>9, <2>25 DEF vars, readVars
  <2>26. RunTask => Refresh \/ Wipe
    BY DEF RunTask
  <2>27. ~Output /\ ~MoveIn
    <3>1. Output => clock' = clock + 1 /\ clock \in Nat
      BY OutputIs, ClockIs
    <3>2. MoveIn => LastId \notin Ids(table) /\ LastId \in Ids(table')
      <4>1. NoRow.id = LastId /\ [NoRow EXCEPT !.seq = 1, !.inv = TRUE] = AgentRow(LastId, 1)
        BY MovedRow
      <4>2. AgentRow(LastId, 1).id = LastId
        BY DEF AgentRow, NewRow
      <4>3. MoveIn => NoRow.id \notin Ids(table) /\ [NoRow EXCEPT !.seq = 1, !.inv = TRUE] \in table'
        BY DEF MoveIn
      <4> QED BY <4>1, <4>2, <4>3 DEF Ids
    <3> QED BY <1>4, <3>1, <3>2
  <2> QED
    BY <1>4, <2>3, <2>4, <2>5, <2>6, <2>7, <2>11, <2>12, <2>13, <2>14, <2>15, <2>16, <2>17, <2>18,
       <2>19, <2>20, <2>21, <2>22, <2>23, <2>24, <2>25, <2>26, <2>27, NoTurns DEF Next, Else
<1> QED BY <1>2, <1>3, <1>4, LogNext

LEMMA AgentInitially ==
    ASSUME MaxTurns = 0, Init
    PROVE  Agent /\ Coming
<1>1. Basics
  BY ShowInitially DEF ShowInv, Basics
<1>2. clock = OldRows /\ OldRows \in Nat /\ MaxOutput \in Nat /\ OldRows <= MaxOutput /\ LastId = MaxOutput + 1
  BY WindowAssumption DEF Init, LastId
<1>3. table = {AgentRow(n, n) : n \in 1..OldRows}
  <2>1. \A n \in 1..OldRows : NewRow(MaxTurns + n, n, TRUE, n) = AgentRow(n, n)
    <3> TAKE n \in 1..OldRows
    <3>1. MaxTurns + n = n /\ n # LastId
      BY <1>2
    <3> QED BY <3>1 DEF AgentRow
  <2> QED BY <2>1 DEF Init
<1>4. \A n \in 1..OldRows : AgentRow(n, n).id = n /\ AgentRow(n, n).seq = n
  BY DEF AgentRow, NewRow
<1>5. AgentTable
  <2>1. table \subseteq Known(clock)
    <3>1. \A n \in 1..OldRows : n \in (1..clock) \cup {LastId} /\ n \in 1..LastId
      BY <1>2
    <3> QED BY <1>3, <3>1 DEF Known
  <2>2. 1..clock \subseteq Ids(table)
    BY <1>2, <1>3, <1>4 DEF Ids
  <2>3. \A r \in table : r.seq <= clock + Moved
    <3>1. Moved \in {0, 1}
      BY DEF Moved
    <3>2. \A n \in 1..OldRows : n <= clock + Moved
      BY <1>2, <3>1
    <3> QED BY <1>3, <1>4, <3>2
  <2>4. clock \in 0..MaxOutput
    BY <1>2
  <2> QED BY <2>1, <2>2, <2>3, <2>4 DEF AgentTable
<1>6. AgentLog /\ BehindLog
  <2>1. log = <<>> /\ epoch = 0 /\ \A s \in Stream : stream[s] = ClosedStream
    BY DEF Init
  <2>2. Len(log) = 0 /\ 1..Len(log) = {}
    BY <2>1
  <2> QED BY <2>1, <2>2 DEF AgentLog, BehindLog, ClosedStream, None
<1>7. AgentFrame
  BY DEF Init, AgentFrame, TasksOk
<1>8. Faithful(w, clock)
  BY <1>2, FreshFaithful DEF Init
<1>9. read.phase = "asked" /\ read.snap = {} /\ read.more = FALSE
  BY DEF Init, NoRead
<1>10. AgentReads
  <2>1. reconciling = [on |-> FALSE, by |-> {}] /\ forced = FALSE /\ page.kind = "none"
    BY DEF Init, NoPage
  <2> QED BY <1>9, <2>1 DEF AgentReads, RefreshOk
<1>11. AgentPages
  BY <1>2 DEF Init, AgentPages, NoPage, None
<1>12. Coming
  BY <1>9 DEF Coming, Reading
<1> QED BY <1>1, <1>5, <1>6, <1>7, <1>8, <1>10, <1>11, <1>12 DEF Agent

LEMMA AgentStep ==
    ASSUME MaxTurns = 0, Agent, [Next]_vars
    PROVE  Agent'
<1> USE DEF Agent, Basics
<1>1. PostsOk'
  BY PostsStep DEF Onward
<1>2. TableOk' /\ LogOk' /\ StreamsOk' /\ ReadOk'
  BY HubStep, StreamsStep, ReadStep
<1>3. AgentTable' /\ AgentLog' /\ BehindLog'
  BY TableLater, LogStep, BehindStep
<1>4. AgentFrame' /\ Faithful(w', clock')
  BY AgentWindowStep
<1>5. AgentReads' /\ AgentPages'
  BY AgentReadsStep, AgentPagesStep
<1> QED BY <1>1, <1>2, <1>3, <1>4, <1>5

\* At rest nothing but the window can have the newest row.
LEMMA AgentShows ==
    ASSUME MaxTurns = 0, Agent, Coming
    PROVE  LatestInReach
<1> USE DEF Agent, Basics
<1> SUFFICES ASSUME Quiet, ~owed, NEW r \in Newest(table, 1)
             PROVE  Reachable(r)
  BY DEF LatestInReach
<1>1. r \in table
  BY NewestIn
<1>2. Top \in Ids(table) /\ clock \in 0..MaxOutput /\ table \in SUBSET Known(clock)
  BY <1>1, TopOfTable DEF AgentTable
<1>3. r.id = Top /\ r.at = clock
  BY <1>2, NewestIsTop DEF Top
<1>4. Told \/ Reading \/ Paging
  BY <1>1 DEF Coming, Quiet
<1>5. stream["session"].up /\ stream["session"].done = Len(log)
  BY WindowAssumption DEF Quiet
<1>6. ~OnStream
  <2>1. Len(log) \in Nat
    BY DEF LogOk
  <2>2. (Len(log) + 1)..Len(log) = {}
    BY <2>1
  <2> QED BY <1>5, <2>2 DEF OnStream
<1>7. ~Reading /\ ~forced
  BY DEF Quiet, Reading, AgentReads, RefreshOk
<1>8. Here => Shows(w, clock)
  BY FrameHas DEF Quiet, Here
<1>9. CASE Shows(w, clock)
  BY <1>3, <1>9 DEF Shows, Top, Reachable
<1>10. CASE Paging
  <2>1. PICK F : w \in WindowSet(clock, F)
    BY DEF Faithful
  <2>2. w.hasNewer /\ w.newest < clock /\ w.newest \in Int
    BY <1>10, <2>1 DEF Faithful, EndsBefore, WindowSet, Paging
  <2>3. r.at > w.newest
    BY <1>3, <2>2, ClockIs
  <2> QED BY <2>2, <2>3 DEF Reachable
<1> QED BY <1>4, <1>5, <1>6, <1>7, <1>8, <1>9, <1>10 DEF Told, Quiet

\* In a session in which only the agent writes, the newest row of the hub stays
\* in reach of the thread: on the screen, kept back, or past an end that pages,
\* whatever pages were lost or landed late, whatever rows were given up for
\* others and however often the streams broke (LatestInReach).
THEOREM LatestStaysInReach ==
    ASSUME MaxTurns = 0
    PROVE  Spec => []LatestInReach
<1>1. Init => Agent /\ Coming
  BY AgentInitially
<1>2. Agent /\ Coming /\ [Next]_vars => (Agent /\ Coming)'
  BY AgentStep, ComingStep
<1>3. Agent /\ Coming => LatestInReach
  BY AgentShows
<1> QED BY <1>1, <1>2, <1>3, PTL DEF Spec

-----------------------------------------------------------------------------
(* A session that fits on a page: its rows.                                *)

\* A page has room for every row of the session and for the optimistic copies
\* of its turns.
Fits == /\ 2 * MaxTurns + MaxOutput + 2 < PageSize
        /\ PageSize <= WindowSize /\ PageSize <= PendingSize

EveryId == (-MaxTurns)..(MaxTurns + MaxOutput + 1)

\* Rows with ids in P, one for each.
Few(R, P) == /\ \A r \in R : IsRow(r) /\ r.id \in P
             /\ \A q, r \in R : q.id = r.id => q = r

LEMMA FewLess ==
    ASSUME NEW P, NEW R, Few(R, P), NEW S, S \subseteq R
    PROVE  Few(S, P)
BY DEF Few

LEMMA FewMore ==
    ASSUME NEW P, NEW R, Few(R, P), NEW Q, P \subseteq Q
    PROVE  Few(R, Q)
BY DEF Few

LEMMA FewAre ==
    ASSUME NEW P \in SUBSET EveryId, NEW R, Few(R, P)
    PROVE  IsFiniteSet(R) /\ Cardinality(R) \in Nat /\ Cardinality(R) <= 2 * MaxTurns + MaxOutput + 2
<1> DEFINE f == [r \in R |-> r.id]
<1>1. MaxTurns \in Nat /\ MaxOutput \in Nat
  BY WindowAssumption
<1>2. IsFiniteSet(EveryId) /\ Cardinality(EveryId) = 2 * MaxTurns + MaxOutput + 2
  <2> DEFINE a == -MaxTurns
             b == MaxTurns + MaxOutput + 1
  <2>1. a \in Int /\ b \in Int /\ ~(a > b) /\ b - a + 1 = 2 * MaxTurns + MaxOutput + 2
    BY <1>1
  <2> HIDE DEF a, b
  <2>2. IsFiniteSet(a..b) /\ Cardinality(a..b) = IF a > b THEN 0 ELSE b - a + 1
    BY <2>1, FS_Interval
  <2>3. IsFiniteSet(a..b) /\ Cardinality(a..b) = 2 * MaxTurns + MaxOutput + 2
    BY <2>1, <2>2
  <2> QED BY <2>3 DEF EveryId, a, b
<1>3. f \in [R -> EveryId]
  BY DEF Few
<1>4. \A q, r \in R : f[q] = f[r] => q = r
  BY DEF Few
<1> HIDE DEF f
<1>5. f \in Injection(R, EveryId)
  BY <1>3, <1>4 DEF Injection, IsInjective
<1>6. IsFiniteSet(R) /\ Cardinality(R) <= Cardinality(EveryId)
  BY <1>2, <1>5, FS_Injection
<1>7. Cardinality(R) \in Nat
  BY <1>6, FS_CardinalityType
<1> QED BY <1>2, <1>6, <1>7

LEMMA AllNewest ==
    ASSUME Fits, NEW P \in SUBSET EveryId, NEW R, Few(R, P), NEW n \in Nat, PageSize <= n
    PROVE  Newest(R, n) = R
<1>1. ASSUME NEW r \in R PROVE Cardinality({q \in R : After(q, r)}) < n
  <2> DEFINE S == {q \in R : After(q, r)}
  <2>1. S \subseteq R
    OBVIOUS
  <2> HIDE DEF S
  <2>2. Cardinality(S) \in Nat /\ Cardinality(S) <= 2 * MaxTurns + MaxOutput + 2
    BY <2>1, FewLess, FewAre
  <2>3. PageSize \in Nat /\ MaxTurns \in Nat /\ MaxOutput \in Nat
    BY WindowAssumption
  <2>4. Cardinality(S) < n
    BY <2>2, <2>3 DEF Fits
  <2> QED BY <2>4 DEF S
<1> QED BY <1>1 DEF Newest

LEMMA Sizes ==
    ASSUME Fits
    PROVE  /\ PageSize \in Nat /\ WindowSize \in Nat /\ PendingSize \in Nat
           /\ PageSize <= PageSize /\ PageSize <= WindowSize /\ PageSize <= PendingSize
BY WindowAssumption DEF Fits

LEMMA ByIdFew ==
    ASSUME NEW P, NEW E, NEW I, Few(E, P), Few(I, P)
    PROVE  Few(ById(E, I), P) /\ Ids(ById(E, I)) = Ids(E) \cup Ids(I)
<1> DEFINE F(i) == LET same == {e \in E : e.id = i.id} IN
                   IF same = {} THEN i ELSE Newer(CHOOSE e \in same : TRUE, i)
           B == ById(E, I)
<1>1. B = {e \in E : e.id \notin Ids(I)} \cup {F(i) : i \in I}
  BY DEF ById
<1>2. \A i \in I : IsRow(F(i)) /\ F(i).id = i.id
  BY NewerIs DEF Few
<1> HIDE DEF F, B
<1>3. ASSUME NEW b \in B
      PROVE  \/ b \in E /\ b.id \notin Ids(I)
             \/ \E i \in I : b = F(i) /\ b.id = i.id /\ b.id \in Ids(I)
  BY <1>1, <1>2 DEF Ids
<1>4. \A b \in B : IsRow(b) /\ b.id \in P
  <2> TAKE b \in B
  <2>1. CASE b \in E
    BY <2>1 DEF Few
  <2>2. ASSUME NEW i \in I, b = F(i), b.id = i.id PROVE IsRow(b) /\ b.id \in P
    BY <1>2, <2>2 DEF Few
  <2> QED BY <1>3, <2>1, <2>2
<1>5. ASSUME NEW q \in B, NEW r \in B, q.id = r.id PROVE q = r
  <2>1. CASE q.id \in Ids(I)
    <3>1. PICK i \in I : q = F(i) /\ q.id = i.id
      BY <1>3, <2>1
    <3>2. PICK j \in I : r = F(j) /\ r.id = j.id
      BY <1>3, <1>5, <2>1
    <3>3. i = j
      BY <1>5, <3>1, <3>2 DEF Few
    <3> QED BY <3>1, <3>2, <3>3
  <2>2. CASE q.id \notin Ids(I)
    <3>1. q \in E /\ r \in E
      BY <1>3, <1>5, <2>2
    <3> QED BY <1>5, <3>1 DEF Few
  <2> QED BY <2>1, <2>2
<1>6. Ids(B) \subseteq Ids(E) \cup Ids(I)
  BY <1>3 DEF Ids
<1>7. ASSUME NEW x \in Ids(E) \cup Ids(I) PROVE x \in Ids(B)
  <2>1. CASE x \in Ids(I)
    <3>1. PICK i \in I : x = i.id
      BY <2>1 DEF Ids
    <3>2. F(i) \in B /\ F(i).id = x
      BY <1>1, <1>2, <3>1
    <3> QED BY <3>2 DEF Ids
  <2>2. CASE x \in Ids(E) /\ x \notin Ids(I)
    <3>1. PICK e \in E : x = e.id
      BY <2>2 DEF Ids
    <3>2. e \in B
      BY <1>1, <2>2, <3>1
    <3> QED BY <3>1, <3>2 DEF Ids
  <2> QED BY <2>1, <2>2
<1> QED BY <1>4, <1>5, <1>6, <1>7 DEF Few, B

LEMMA AdoptIs ==
    ASSUME NEW r, IsRow(r), NEW o
    PROVE  IsRow(Adopt(r, o)) /\ Adopt(r, o).id = r.id /\ ((r.inv \/ o.inv) => Adopt(r, o).inv)
<1> DEFINE t == r.sent \/ o.sent
           s == [r EXCEPT !.sent = t]
<1> HIDE DEF t
<1>1. IsRow(s) /\ s.id = r.id /\ s.inv = r.inv
  BY Changed
<1> HIDE DEF s
<1>2. LET q == [s EXCEPT !.inv = TRUE, !.at = o.at] IN IsRow(q) /\ q.id = s.id /\ q.inv
  BY <1>1, Changed
<1>3. Adopt(r, o) = IF o.inv /\ ~r.inv THEN [s EXCEPT !.inv = TRUE, !.at = o.at] ELSE s
  BY DEF Adopt, s, t
<1> QED BY <1>1, <1>2, <1>3

\* Settling gives up optimistic copies only.
LEMMA SettleFew ==
    ASSUME NEW P, NEW B, Few(B, P), NEW T
    PROVE  /\ Few(Settle(B, T), P) /\ Ids(Settle(B, T)) \subseteq Ids(B)
           /\ \A i \in Ids(B) : i > 0 => i \in Ids(Settle(B, T))
<1> DEFINE gone == {r \in B : IsOptimistic(r) /\ Local(r) \in T}
           F(r) == IF \E o \in gone : Local(o) = Local(r)
                   THEN Adopt(r, CHOOSE o \in gone : Local(o) = Local(r))
                   ELSE r
           M == Settle(B, T)
<1>1. \A m \in M : \E r \in B \ gone : m = F(r)
  BY DEF Settle
<1>2. \A r \in B \ gone : ~IsOptimistic(F(r)) => F(r) \in M
  BY DEF Settle
<1>3. \A r \in B : IsRow(F(r)) /\ F(r).id = r.id
  BY AdoptIs DEF Few
<1>4. \A r \in gone : r.id < 0
  BY DEF IsOptimistic
<1>5. gone \subseteq B
  OBVIOUS
<1> HIDE DEF F, M, gone
<1>6. \A m \in M : \E r \in B : m = F(r) /\ m.id = r.id /\ IsRow(m)
  BY <1>1, <1>3
<1>7. Few(M, P)
  <2>1. \A m \in M : IsRow(m) /\ m.id \in P
    BY <1>6 DEF Few
  <2>2. ASSUME NEW q \in M, NEW r \in M, q.id = r.id PROVE q = r
    <3>1. PICK a \in B : q = F(a) /\ q.id = a.id
      BY <1>6
    <3>2. PICK b \in B : r = F(b) /\ r.id = b.id
      BY <1>6
    <3>3. a = b
      BY <2>2, <3>1, <3>2 DEF Few
    <3> QED BY <3>1, <3>2, <3>3
  <2> QED BY <2>1, <2>2 DEF Few
<1>8. Ids(M) \subseteq Ids(B)
  BY <1>6 DEF Ids
<1>9. ASSUME NEW i \in Ids(B), i > 0 PROVE i \in Ids(M)
  <2>1. PICK b \in B : b.id = i /\ i \in Int
    BY DEF Ids, Few, IsRow
  <2>2. b \notin gone /\ ~(i < 0)
    BY <1>4, <1>9, <2>1
  <2>3. F(b).id = i /\ ~IsOptimistic(F(b))
    BY <1>3, <2>1, <2>2 DEF IsOptimistic
  <2>4. F(b) \in M
    BY <1>2, <2>1, <2>2, <2>3
  <2> QED BY <2>3, <2>4 DEF Ids
<1> QED BY <1>7, <1>8, <1>9 DEF M

LEMMA MergeFew ==
    ASSUME NEW P, NEW E, NEW I, Few(E, P), Few(I, P)
    PROVE  /\ Few(MergeRows(E, I), P) /\ Ids(MergeRows(E, I)) \subseteq Ids(E) \cup Ids(I)
           /\ \A i \in Ids(E) \cup Ids(I) : i > 0 => i \in Ids(MergeRows(E, I))
<1>1. CASE I = {}
  BY <1>1 DEF MergeRows, Ids
<1>2. CASE I # {}
  <2> DEFINE B == ById(E, I)
             T == StoredLocals(I)
  <2>1. Few(B, P) /\ Ids(B) = Ids(E) \cup Ids(I)
    BY ByIdFew
  <2>2. MergeRows(E, I) = Settle(B, T)
    BY <1>2 DEF MergeRows
  <2> HIDE DEF B, T
  <2> QED BY <2>1, <2>2, SettleFew
<1> QED BY <1>1, <1>2

-----------------------------------------------------------------------------
(* Its window, which gives up no row.                                      *)

Small(v, P) == /\ IsWindow(v) /\ Few(v.msgs, P) /\ Few(v.pending, P)
               /\ ~v.hasMore /\ ~v.hasNewer /\ ~v.spilled
Has(v) == Ids(v.msgs \cup v.pending)

\* What was in window v, and the ids of I, are in window u, optimistic copies aside.
Gets(v, u, I, P) == /\ Small(u, P)
                    /\ \A i \in Has(v) \cup I : i > 0 => i \in Has(u)

LEMMA HasIs == ASSUME NEW v PROVE Has(v) = Ids(v.msgs) \cup Ids(v.pending)
BY DEF Has, Ids

LEMMA GetsGets ==
    ASSUME NEW P, NEW v, NEW u, NEW t, NEW I, NEW J, Gets(v, u, I, P), Gets(u, t, J, P)
    PROVE  Gets(v, t, I \cup J, P)
BY DEF Gets

LEMMA SmallSame ==
    ASSUME NEW P, NEW v, Small(v, P)
    PROVE  Gets(v, v, {}, P)
BY DEF Gets

LEMMA SmallBuild ==
    ASSUME NEW P, NEW v, Small(v, P)
    PROVE  Gets(v, Build(v), {}, P) /\ Build(v).msgs = v.msgs /\ Build(v).pending = v.pending
<1>1. LET u == Build(v) IN
      IsWindow(u) /\ u.msgs = v.msgs /\ u.pending = v.pending /\ (u.hasNewer <=> v.hasNewer)
      /\ (u.hasMore <=> v.hasMore) /\ (u.spilled <=> v.spilled)
  BY BuildIs DEF Small
<1> QED BY <1>1 DEF Small, Gets, Has

LEMMA SmallPosition ==
    ASSUME NEW P, NEW v, Small(v, P), NEW b
    PROVE  Gets(v, [v EXCEPT !.atBottom = b], {}, P)
<1>1. LET u == [v EXCEPT !.atBottom = b] IN
      IsWindow(u) /\ u.msgs = v.msgs /\ u.pending = v.pending /\ (u.hasNewer <=> v.hasNewer)
      /\ (u.hasMore <=> v.hasMore) /\ (u.spilled <=> v.spilled)
  BY PositionSet DEF Small
<1> QED BY <1>1 DEF Small, Gets, Has

LEMMA SmallFrontier ==
    ASSUME NEW P, NEW v, Small(v, P), NEW b
    PROVE  Gets(v, [v EXCEPT !.frontier = b], {}, P)
<1>1. LET u == [v EXCEPT !.frontier = b] IN
      IsWindow(u) /\ u.msgs = v.msgs /\ u.pending = v.pending /\ (u.hasNewer <=> v.hasNewer)
      /\ (u.hasMore <=> v.hasMore) /\ (u.spilled <=> v.spilled)
  BY FrontierSet DEF Small
<1> QED BY <1>1 DEF Small, Gets, Has

LEMMA SmallTrim ==
    ASSUME Fits, NEW P \in SUBSET EveryId, NEW v, Small(v, P), NEW merged, Few(merged, P)
    PROVE  LET u == AppendTrim(v, merged) IN Small(u, P) /\ u.msgs = merged /\ u.pending = v.pending
<1>1. Newest(merged, WindowSize) = merged
  BY Sizes, AllNewest
<1>2. LET u == AppendTrim(v, merged) IN
      IsWindow(u) /\ u.msgs = Newest(merged, WindowSize) /\ u.pending = v.pending /\ ~u.hasNewer
      /\ (u.hasMore <=> v.hasMore \/ merged # Newest(merged, WindowSize)) /\ (u.spilled <=> v.spilled)
  BY AppendTrimIs DEF Small
<1> QED BY <1>1, <1>2 DEF Small

LEMMA SmallAppend ==
    ASSUME Fits, NEW P \in SUBSET EveryId, NEW v, Small(v, P), NEW rows, Few(rows, P)
    PROVE  Gets(v, Append2(v, rows), Ids(rows), P)
<1> DEFINE merged == MergeRows(v.msgs, rows)
           u == AppendTrim(v, merged)
           p == {r \in v.pending : r.id \notin Ids(u.msgs)}
           t == [u EXCEPT !.pending = p]
<1>1. /\ Few(merged, P)
      /\ \A i \in Ids(v.msgs) \cup Ids(rows) : i > 0 => i \in Ids(merged)
  BY MergeFew DEF Small
<1> HIDE DEF merged
<1>2. Small(u, P) /\ u.msgs = merged /\ u.pending = v.pending
  BY <1>1, SmallTrim
<1>3. Append2(v, rows) = Build(t)
  BY DEF Append2, u, merged, t, p
<1> HIDE DEF u
<1>4. p \subseteq v.pending /\ \A i \in Ids(v.pending) : i \in Ids(u.msgs) \/ i \in Ids(p)
  BY DEF Ids
<1>5. Few(p, P)
  BY <1>4, FewLess DEF Small
<1> HIDE DEF p
<1>6. IsWindow(t) /\ t.msgs = u.msgs /\ t.pending = p /\ (t.hasNewer <=> u.hasNewer)
      /\ (t.hasMore <=> u.hasMore) /\ (t.spilled <=> u.spilled)
  BY <1>2, PendingSet DEF Small
<1> HIDE DEF t
<1>7. Small(t, P)
  BY <1>2, <1>5, <1>6 DEF Small
<1>8. Gets(t, Build(t), {}, P)
  BY <1>7, SmallBuild
<1>9. \A i \in Has(v) \cup Ids(rows) : i > 0 => i \in Has(t)
  BY <1>1, <1>2, <1>4, <1>6, HasIs
<1> QED BY <1>3, <1>8, <1>9 DEF Gets

LEMMA SmallPending ==
    ASSUME Fits, NEW P \in SUBSET EveryId, NEW v, Small(v, P), NEW rows, Few(rows, P)
    PROVE  Gets(v, IntoPending(v, rows), Ids(rows), P)
<1> DEFINE merged == MergeRows(v.pending, rows)
           all == {r \in merged : r.id \notin Ids(v.msgs)}
           kept == Newest(all, PendingSize)
           b == v.spilled \/ all # kept
           t == [v EXCEPT !.pending = kept, !.spilled = b]
<1>1. CASE rows = {}
  <2>1. IntoPending(v, rows) = v /\ Ids(rows) = {}
    BY <1>1 DEF IntoPending, Ids
  <2> QED BY <2>1, SmallSame
<1>2. CASE rows # {}
  <2>1. /\ Few(merged, P)
        /\ \A i \in Ids(v.pending) \cup Ids(rows) : i > 0 => i \in Ids(merged)
    BY MergeFew DEF Small
  <2>2. IntoPending(v, rows) = Build(t)
    BY <1>2 DEF IntoPending
  <2> HIDE DEF merged
  <2>3. all \subseteq merged /\ \A i \in Ids(merged) : i \in Ids(v.msgs) \/ i \in Ids(all)
    BY DEF Ids
  <2>4. Few(all, P)
    BY <2>1, <2>3, FewLess
  <2> HIDE DEF all
  <2>5. kept = all
    BY <2>4, Sizes, AllNewest
  <2>6. ~b
    BY <2>5 DEF Small
  <2> HIDE DEF kept, b
  <2>7. \A q, c : LET u == [v EXCEPT !.pending = q, !.spilled = c] IN
                  IsWindow(u) /\ u.msgs = v.msgs /\ u.pending = q /\ (u.hasNewer <=> v.hasNewer)
                  /\ (u.hasMore <=> v.hasMore) /\ u.spilled = c
    BY SpilledSet DEF Small
  <2>8. IsWindow(t) /\ t.msgs = v.msgs /\ t.pending = kept /\ (t.hasNewer <=> v.hasNewer)
        /\ (t.hasMore <=> v.hasMore) /\ t.spilled = b
    BY <2>7
  <2> HIDE DEF t
  <2>9. Small(t, P)
    BY <2>4, <2>5, <2>6, <2>8 DEF Small
  <2>10. Gets(t, Build(t), {}, P)
    BY <2>9, SmallBuild
  <2>11. \A i \in Has(v) \cup Ids(rows) : i > 0 => i \in Has(t)
    BY <2>1, <2>3, <2>5, <2>8, HasIs
  <2> QED BY <2>2, <2>10, <2>11 DEF Gets
<1> QED BY <1>1, <1>2

LEMMA SmallIngest ==
    ASSUME Fits, NEW P \in SUBSET EveryId, NEW v, Small(v, P), NEW rows, Few(rows, P)
    PROVE  Gets(v, Ingest(v, rows), Ids(rows), P)
<1> DEFINE shown == {r \in rows : \/ r.id \in Ids(v.msgs)
                                  \/ IsUser(r) /\ Local(r) \in {Local(m) : m \in v.msgs}}
           turns == {r \in rows : IsUser(r)}
           output == rows \ turns
           rest == rows \ shown
           late == v.hasNewer \/ (~v.atBottom /\ Cardinality(v.msgs) + Cardinality(rest) > WindowSize)
           m == MergeRows(v.msgs, shown)
           t == [v EXCEPT !.msgs = m]
           back == IF output = {} THEN v ELSE Append2(v, output)
<1>1. Ingest(v, rows) = IF late THEN IntoPending(Build(t), rest)
                        ELSE IF v.atBottom THEN Append2(v, rows)
                        ELSE IntoPending(back, turns)
  BY DEF Ingest
<1>2. shown \subseteq rows /\ rest \subseteq rows /\ Ids(rows) = Ids(shown) \cup Ids(rest)
      /\ turns \subseteq rows /\ output \subseteq rows /\ Ids(rows) = Ids(output) \cup Ids(turns)
  BY DEF Ids
<1> HIDE DEF shown, turns, output, rest, late
<1>3. Few(shown, P) /\ Few(rest, P) /\ Few(turns, P) /\ Few(output, P)
  BY <1>2, FewLess
<1>4. Few(m, P) /\ \A i \in Ids(v.msgs) \cup Ids(shown) : i > 0 => i \in Ids(m)
  BY <1>3, MergeFew DEF Small
<1> HIDE DEF m
<1>5. IsWindow(t) /\ t.msgs = m /\ t.pending = v.pending /\ (t.hasNewer <=> v.hasNewer)
      /\ (t.hasMore <=> v.hasMore) /\ (t.spilled <=> v.spilled)
  BY ThreadSet DEF Small
<1> HIDE DEF t
<1>6. Small(t, P)
  BY <1>4, <1>5 DEF Small
<1>7. Gets(v, t, Ids(shown), P)
  BY <1>4, <1>5, <1>6, HasIs DEF Gets
<1>8. Gets(t, Build(t), {}, P)
  BY <1>6, SmallBuild
<1>9. Gets(Build(t), IntoPending(Build(t), rest), Ids(rest), P)
  BY <1>3, <1>8, SmallPending DEF Gets
<1>10. Gets(v, IntoPending(Build(t), rest), Ids(rows), P)
  BY <1>2, <1>7, <1>8, <1>9 DEF Gets
<1>11. Gets(v, Append2(v, rows), Ids(rows), P)
  BY SmallAppend
<1>12. Gets(v, back, Ids(output), P)
  <2>1. CASE output = {}
    BY <2>1, SmallSame DEF Ids
  <2>2. CASE output # {}
    BY <1>3, <2>2, SmallAppend
  <2> QED BY <2>1, <2>2
<1> HIDE DEF back
<1>13. Gets(back, IntoPending(back, turns), Ids(turns), P)
  BY <1>3, <1>12, SmallPending DEF Gets
<1>14. Gets(v, IntoPending(back, turns), Ids(rows), P)
  BY <1>2, <1>12, <1>13 DEF Gets
<1> QED BY <1>1, <1>10, <1>11, <1>14

LEMMA MappedFew ==
    ASSUME NEW P, NEW R, Few(R, P), NEW f, \A r \in R : IsRow(f[r]) /\ f[r].id = r.id
    PROVE  LET U == {f[r] : r \in R} IN Few(U, P) /\ Ids(U) = Ids(R)
<1> DEFINE U == {f[r] : r \in R}
<1>1. \A u \in U : \E r \in R : u = f[r] /\ u.id = r.id /\ IsRow(u)
  OBVIOUS
<1>2. \A r \in R : f[r] \in U /\ f[r].id = r.id
  OBVIOUS
<1> HIDE DEF U
<1>3. \A u \in U : IsRow(u) /\ u.id \in P
  BY <1>1 DEF Few
<1>4. ASSUME NEW q \in U, NEW r \in U, q.id = r.id PROVE q = r
  <2>1. PICK a \in R : q = f[a] /\ q.id = a.id
    BY <1>1
  <2>2. PICK b \in R : r = f[b] /\ r.id = b.id
    BY <1>1
  <2>3. a = b
    BY <1>4, <2>1, <2>2 DEF Few
  <2> QED BY <2>1, <2>2, <2>3
<1>5. Ids(U) = Ids(R)
  BY <1>1, <1>2 DEF Ids
<1> QED BY <1>3, <1>4, <1>5 DEF Few, U

LEMMA SmallConsumed ==
    ASSUME Fits, NEW P \in SUBSET EveryId, NEW v, Small(v, P), NEW k, NEW at
    PROVE  Gets(v, Consumed(v, k, at), {}, P)
<1> DEFINE x(r) == IF r.inv THEN r.at ELSE at
           g(r) == IF Local(r) = k THEN [r EXCEPT !.sent = TRUE, !.inv = TRUE, !.at = x(r)] ELSE r
           upd(R) == {g(r) : r \in R}
           moved == {r \in upd(v.pending) : Local(r) = k /\ r.at = at}
           rest == upd(v.pending) \ moved
           p == MergeRows({}, rest)
           m == MergeRows(upd(v.msgs), moved)
           t == [v EXCEPT !.pending = p]
           u == AppendTrim(t, m)
<1>1. ASSUME NEW R, Few(R, P)
      PROVE  Few(upd(R), P) /\ Ids(upd(R)) = Ids(R)
  <2> DEFINE f == [r \in R |-> g(r)]
  <2>1. \A r \in R : IsRow(g(r)) /\ g(r).id = r.id
    <3> SUFFICES ASSUME NEW r \in R PROVE IsRow(g(r)) /\ g(r).id = r.id
      OBVIOUS
    <3>1. IsRow(r)
      BY <1>1 DEF Few
    <3> HIDE DEF x
    <3>2. IsRow([r EXCEPT !.sent = TRUE, !.inv = TRUE, !.at = x(r)])
          /\ [r EXCEPT !.sent = TRUE, !.inv = TRUE, !.at = x(r)].id = r.id
      BY <3>1, Changed
    <3> QED BY <3>1, <3>2
  <2> HIDE DEF g
  <2>2. \A r \in R : IsRow(f[r]) /\ f[r].id = r.id
    BY <2>1
  <2>3. upd(R) = {f[r] : r \in R}
    OBVIOUS
  <2> HIDE DEF f, upd
  <2> QED BY <1>1, <2>2, <2>3, MappedFew
<1>2. Consumed(v, k, at)
        = IF \A r \in v.msgs \cup v.pending : Local(r) = k => r.inv /\ r.sent THEN v ELSE Build(u)
  BY DEF Consumed
<1> HIDE DEF g, upd
<1>3. /\ Few(upd(v.msgs), P) /\ Ids(upd(v.msgs)) = Ids(v.msgs)
      /\ Few(upd(v.pending), P) /\ Ids(upd(v.pending)) = Ids(v.pending)
  BY <1>1 DEF Small
<1>4. moved \subseteq upd(v.pending) /\ rest \subseteq upd(v.pending)
      /\ Ids(upd(v.pending)) = Ids(moved) \cup Ids(rest)
  BY DEF Ids
<1> HIDE DEF moved, rest
<1>5. Few(moved, P) /\ Few(rest, P) /\ Few({}, P)
  BY <1>3, <1>4, FewLess
<1>6. Few(m, P) /\ \A i \in Ids(v.msgs) \cup Ids(moved) : i > 0 => i \in Ids(m)
  BY <1>3, <1>5, MergeFew
<1>7. Few(p, P) /\ \A i \in Ids(rest) : i > 0 => i \in Ids(p)
  BY <1>5, MergeFew
<1> HIDE DEF m, p
<1>8. IsWindow(t) /\ t.msgs = v.msgs /\ t.pending = p /\ (t.hasNewer <=> v.hasNewer)
      /\ (t.hasMore <=> v.hasMore) /\ (t.spilled <=> v.spilled)
  BY PendingSet DEF Small
<1> HIDE DEF t
<1>9. Small(t, P)
  BY <1>7, <1>8 DEF Small
<1>10. Small(u, P) /\ u.msgs = m /\ u.pending = p
  BY <1>6, <1>8, <1>9, SmallTrim
<1> HIDE DEF u
<1>11. Gets(u, Build(u), {}, P)
  BY <1>10, SmallBuild
<1>12. \A i \in Has(v) : i > 0 => i \in Has(u)
  BY <1>3, <1>4, <1>6, <1>7, <1>10, HasIs
<1>13. Gets(v, Build(u), {}, P)
  BY <1>11, <1>12 DEF Gets
<1>14. Gets(v, v, {}, P)
  BY SmallSame
<1> QED BY <1>2, <1>13, <1>14

LEMMA SmallWithout ==
    ASSUME NEW P, NEW v, Small(v, P), NEW ids
    PROVE  LET u == Without(v, ids) IN
           Small(u, P) /\ \A i \in Has(v) : i \notin ids => i \in Has(u)
<1> DEFINE m == {r \in v.msgs : r.id \notin ids}
           p == {r \in v.pending : r.id \notin ids}
           t == [v EXCEPT !.msgs = m, !.pending = p]
<1>1. m \subseteq v.msgs /\ p \subseteq v.pending
      /\ \A i \in Ids(v.msgs) \cup Ids(v.pending) : i \notin ids => i \in Ids(m) \cup Ids(p)
  BY DEF Ids
<1>2. Without(v, ids) = Build(t)
  BY DEF Without
<1> HIDE DEF m, p
<1>3. Few(m, P) /\ Few(p, P)
  BY <1>1, FewLess DEF Small
<1>4. IsWindow(t) /\ t.msgs = m /\ t.pending = p /\ (t.hasNewer <=> v.hasNewer)
      /\ (t.hasMore <=> v.hasMore) /\ (t.spilled <=> v.spilled)
  BY BothSet DEF Small
<1> HIDE DEF t
<1>5. Small(t, P)
  BY <1>3, <1>4 DEF Small
<1>6. Gets(t, Build(t), {}, P) /\ Build(t).msgs = m /\ Build(t).pending = p
  BY <1>4, <1>5, SmallBuild
<1>7. \A i \in Has(v) : i \notin ids => i \in Has(Build(t))
  BY <1>1, <1>6, HasIs
<1> QED BY <1>2, <1>6, <1>7 DEF Gets

LEMMA SmallFlush ==
    ASSUME Fits, NEW P \in SUBSET EveryId, NEW v, Small(v, P)
    PROVE  Gets(v, FlushPending(v), {}, P)
<1> DEFINE merged == MergeRows(v.msgs, v.pending)
           u == AppendTrim(v, merged)
           t == [u EXCEPT !.pending = {}, !.spilled = FALSE]
<1>1. Few(merged, P) /\ \A i \in Ids(v.msgs) \cup Ids(v.pending) : i > 0 => i \in Ids(merged)
  BY MergeFew DEF Small
<1>2. FlushPending(v) = IF v.hasNewer \/ (v.pending = {} /\ ~v.spilled) THEN v ELSE Build(t)
  BY DEF FlushPending
<1> HIDE DEF merged
<1>3. Small(u, P) /\ u.msgs = merged
  BY <1>1, SmallTrim
<1> HIDE DEF u
<1>4. IsWindow(t) /\ t.msgs = u.msgs /\ t.pending = {} /\ (t.hasNewer <=> u.hasNewer)
      /\ (t.hasMore <=> u.hasMore) /\ ~t.spilled
  BY <1>3, EmptiedSet DEF Small
<1> HIDE DEF t
<1>5. Few({}, P)
  BY DEF Few
<1>6. Small(t, P)
  BY <1>3, <1>4, <1>5 DEF Small
<1>7. \A i \in Has(v) : i > 0 => i \in Has(t)
  BY <1>1, <1>3, <1>4, HasIs
<1>8. Gets(t, Build(t), {}, P)
  BY <1>6, SmallBuild
<1>9. Gets(v, Build(t), {}, P)
  BY <1>7, <1>8 DEF Gets
<1>10. Gets(v, v, {}, P)
  BY SmallSame
<1> QED BY <1>2, <1>9, <1>10

LEMMA SmallOptimistic ==
    ASSUME Fits, NEW P \in SUBSET EveryId, NEW v, Small(v, P), NEW r, IsRow(r), r.id \in P
    PROVE  Gets(v, AppendOptimistic(v, r), {r.id}, P)
<1> DEFINE u == IF v.hasNewer THEN IntoPending(v, {r}) ELSE Append2(v, {r})
<1>1. Few({r}, P) /\ Ids({r}) = {r.id}
  BY DEF Few, Ids
<1>2. Gets(v, u, {r.id}, P)
  BY <1>1, SmallPending, SmallAppend
<1>3. AppendOptimistic(v, r) = [u EXCEPT !.atBottom = TRUE]
  BY DEF AppendOptimistic
<1> HIDE DEF u
<1>4. Gets(u, [u EXCEPT !.atBottom = TRUE], {}, P)
  BY <1>2, SmallPosition DEF Gets
<1> QED BY <1>2, <1>3, <1>4, GetsGets

LEMMA SmallMarked ==
    ASSUME NEW P, NEW v, Small(v, P), NEW k, NEW sent \in BOOLEAN
    PROVE  LET mark(R) == {IF Local(r) = k THEN [r EXCEPT !.sent = sent] ELSE r : r \in R} IN
           Gets(v, Build([v EXCEPT !.msgs = mark(v.msgs), !.pending = mark(v.pending)]), {}, P)
<1> DEFINE g(r) == IF Local(r) = k THEN [r EXCEPT !.sent = sent] ELSE r
           mark(R) == {g(r) : r \in R}
           m == mark(v.msgs)
           p == mark(v.pending)
           t == [v EXCEPT !.msgs = m, !.pending = p]
<1>1. ASSUME NEW R, Few(R, P)
      PROVE  Few(mark(R), P) /\ Ids(mark(R)) = Ids(R)
  <2> DEFINE f == [r \in R |-> g(r)]
  <2>1. \A r \in R : IsRow(g(r)) /\ g(r).id = r.id
    BY <1>1, Changed DEF Few
  <2> HIDE DEF g
  <2>2. \A r \in R : IsRow(f[r]) /\ f[r].id = r.id
    BY <2>1
  <2>3. mark(R) = {f[r] : r \in R}
    OBVIOUS
  <2> HIDE DEF f, mark
  <2> QED BY <1>1, <2>2, <2>3, MappedFew
<1> HIDE DEF g, mark
<1>2. Few(m, P) /\ Ids(m) = Ids(v.msgs) /\ Few(p, P) /\ Ids(p) = Ids(v.pending)
  BY <1>1 DEF Small
<1> HIDE DEF m, p
<1>3. IsWindow(t) /\ t.msgs = m /\ t.pending = p /\ (t.hasNewer <=> v.hasNewer)
      /\ (t.hasMore <=> v.hasMore) /\ (t.spilled <=> v.spilled)
  BY BothSet DEF Small
<1> HIDE DEF t
<1>4. Small(t, P)
  BY <1>2, <1>3 DEF Small
<1>5. Gets(t, Build(t), {}, P)
  BY <1>4, SmallBuild
<1>6. \A i \in Has(v) : i > 0 => i \in Has(t)
  BY <1>2, <1>3, HasIs
<1>7. Gets(v, Build(t), {}, P)
  BY <1>5, <1>6 DEF Gets
<1> QED BY <1>7 DEF t, m, p, mark, g

LEMMA SmallFresh == ASSUME NEW P PROVE Small(FreshWindow, P)
BY DEF FreshWindow, IsWindow, Small, Few

\* A latest page that has every row shows them all, and takes turns out of the
\* thread only that it knew when it was asked for and the page has not.
LEMMA SmallLatest ==
    ASSUME Fits, NEW P \in SUBSET EveryId, NEW v, Small(v, P), Few(read.snap, P), ~read.more
    PROVE  LET u == ApplyLatest(v) IN
           /\ Small(u, P)
           /\ \A i \in Ids(read.snap) : i > 0 => i \in Has(u)
           /\ \A i \in Has(v) \ read.eligible : i > 0 => i \in Has(u)
<1> DEFINE snap == read.snap
           incoming == v.pending \cup snap
           B1 == ById(v.msgs, v.pending)
           B == ById(B1, snap)
           T == StoredLocals(incoming)
           merged == IF incoming = {} THEN v.msgs ELSE Settle(B, T)
           left == DropGhosts(merged, snap, read.eligible)
           kept == Newest(left, WindowSize)
           top == Highest(Seqs(snap))
           f == IF top = None THEN v.frontier ELSE top
           based == [v EXCEPT !.frontier = f]
           x == IF Stamps(kept) = {} THEN Lowest(Stamps(snap)) ELSE Lowest(Stamps(kept))
           y == Highest(Stamps(kept))
           u == Replaced(based, kept, {}, read.more, x, y)
           t == IntoPending(v, snap)
<1>1. ApplyLatest(v) = IF v.atBottom THEN Build(u) ELSE Build([t EXCEPT !.frontier = based.frontier])
  BY DEF ApplyLatest, Small, Replaced
<1>2. Few(merged, P)
      /\ \A i \in Ids(v.msgs) \cup Ids(v.pending) \cup Ids(snap) : i > 0 => i \in Ids(merged)
  <2> HIDE DEF snap, T
  <2>1. Few(v.msgs, P) /\ Few(v.pending, P) /\ Few(snap, P)
    BY DEF Small, snap
  <2>2. Few(B1, P) /\ Ids(B1) = Ids(v.msgs) \cup Ids(v.pending)
    <3> DEFINE a == v.msgs
               b == v.pending
    <3>1. Few(a, P) /\ Few(b, P)
      BY <2>1
    <3> HIDE DEF a, b
    <3>2. Few(ById(a, b), P) /\ Ids(ById(a, b)) = Ids(a) \cup Ids(b)
      BY <3>1, ByIdFew, ZenonT(60)
    <3> QED BY <3>2 DEF a, b
  <2> HIDE DEF B1
  <2>3. Few(B, P) /\ Ids(B) = Ids(v.msgs) \cup Ids(v.pending) \cup Ids(snap)
    <3>1. Few(B1, P) /\ Few(snap, P)
      BY <2>1, <2>2
    <3>2. Few(ById(B1, snap), P) /\ Ids(ById(B1, snap)) = Ids(B1) \cup Ids(snap)
      BY <3>1, ByIdFew, ZenonT(60)
    <3> QED BY <2>2, <3>2
  <2> HIDE DEF B
  <2>4. Few(Settle(B, T), P) /\ \A i \in Ids(B) : i > 0 => i \in Ids(Settle(B, T))
    BY <2>3, SettleFew
  <2>5. CASE incoming = {}
    <3>1. Ids(v.pending) = {} /\ Ids(snap) = {}
      BY <2>5 DEF Ids
    <3>2. merged = v.msgs
      BY <2>5
    <3> HIDE DEF merged
    <3> QED BY <2>1, <3>1, <3>2
  <2>6. CASE incoming # {}
    <3>1. merged = Settle(B, T)
      BY <2>6
    <3> HIDE DEF merged
    <3> QED BY <2>3, <2>4, <3>1
  <2> QED BY <2>5, <2>6
<1> HIDE DEF merged, incoming, B1, B, T
<1>3. left \subseteq merged /\ \A i \in Ids(merged) : i \in Ids(left) \/ (i \in read.eligible /\ i \notin Ids(snap))
  BY DEF DropGhosts, Ids
<1>4. Few(left, P)
  BY <1>2, <1>3, FewLess
<1> HIDE DEF left
<1>5. kept = left
  BY <1>4, Sizes, AllNewest
<1> HIDE DEF kept, f, x, y, snap
<1>6. IsWindow(based)
  BY FrontierSet DEF Small
<1> HIDE DEF based
<1>7. IsWindow(u) /\ u.msgs = kept /\ u.pending = {} /\ ~u.hasNewer
      /\ (u.hasMore <=> read.more) /\ ~u.spilled
  BY <1>6, ReplacedSet
<1> HIDE DEF u
<1>8. Few({}, P)
  BY DEF Few
<1>9. Small(u, P)
  BY <1>4, <1>5, <1>7, <1>8 DEF Small
<1>10. Gets(u, Build(u), {}, P)
  BY <1>9, SmallBuild
<1>11. /\ \A i \in Ids(snap) : i > 0 => i \in Has(u)
       /\ \A i \in Has(v) \ read.eligible : i > 0 => i \in Has(u)
  BY <1>2, <1>3, <1>5, <1>7, HasIs
<1>12. Few(snap, P)
  BY DEF snap
<1>13. Gets(v, t, Ids(snap), P)
  BY <1>12, SmallPending
<1> HIDE DEF t
<1>14. Gets(t, [t EXCEPT !.frontier = based.frontier], {}, P)
  BY <1>13, SmallFrontier DEF Gets
<1> DEFINE z == [t EXCEPT !.frontier = based.frontier]
<1>15. Gets(t, z, {}, P)
  BY <1>14
<1> HIDE DEF z
<1>16. Gets(z, Build(z), {}, P)
  BY <1>15, SmallBuild DEF Gets
<1>17. Small(Build(z), P) /\ (\A i \in Has(v) \cup Ids(snap) : i > 0 => i \in Has(Build(z)))
  BY <1>13, <1>15, <1>16 DEF Gets
<1>18. CASE v.atBottom
  <2>1. ApplyLatest(v) = Build(u)
    BY <1>1, <1>18
  <2> QED BY <1>10, <1>11, <2>1 DEF Gets, snap
<1>19. CASE ~v.atBottom
  <2>1. ApplyLatest(v) = Build(z)
    BY <1>1, <1>19 DEF z
  <2> QED BY <1>17, <2>1 DEF snap
<1> QED BY <1>18, <1>19

-----------------------------------------------------------------------------
(* Its state.                                                              *)

\* Every id but those of turns the hub has not stored yet.
Stocked == {k \in Turn : posts[k] \notin {"unused", "posting"}}
Present == (EveryId \ Turn) \cup Stocked

OutputIds == (MaxTurns + 1)..(MaxTurns + MaxOutput)
FitTable == /\ Few(table, Present)
            /\ \E c \in 0..MaxOutput : Ids(table) \cap OutputIds = (MaxTurns + 1)..(MaxTurns + c)

\* A turn that was cancelled does not come back.
FitLog == \A n \in 1..Len(log) :
             /\ IsRow(log[n].row) /\ log[n].row.id \in Present
             /\ log[n].type = "cancelled" => log[n].row.id \in Turn /\ log[n].row.id \notin Ids(table)
FitFrame == \A n \in 1..Len(frame) : IsRow(frame[n]) /\ frame[n].id \in Present

\* A page that was served has the turns that were in the thread when it was
\* asked for and that are in the table now.
FitRead ==
    /\ Few(read.snap, Present) /\ ~read.more /\ read.eligible \subseteq Stocked
    /\ read.phase = "served" => read.eligible \cap Ids(table) \subseteq Ids(read.snap)
FitCancels ==
    \A k \in Turn : cancels[k].phase \in Pending =>
       /\ IsRow(cancels[k].row) /\ cancels[k].row.id = k /\ k \in Stocked
       /\ cancels[k].phase = "cancelled" => k \notin Ids(table)
FitWindow == Small(w, Present)
FitInv == /\ ShowInv /\ RefreshOk /\ TasksOk /\ BehindLog
          /\ FitTable /\ FitLog /\ FitFrame /\ FitRead /\ FitCancels /\ FitWindow

\* Where a row of the table is, or what will bring it.
Queued(i) == \E n \in 1..Len(frame) : frame[n].id = i
Shown(i) == Queued(i) \/ i \in Has(w)
Announced(i) ==
    /\ stream["session"].up
    /\ \E n \in (stream["session"].done + 1)..Len(log) :
          log[n].type = "invalidated" \/ (log[n].type = "received" /\ log[n].row.id = i)
Asked(i) == read.phase \in {"asked", "lost"} \/ (read.phase = "served" /\ i \in Ids(read.snap))
Undone(i) == i \in Turn /\ cancels[i].phase \in {"asked", "invoked", "lost"}
OnWay(i) == \/ tasks # <<>> \/ forced \/ ~stream["session"].up
            \/ Announced(i) \/ Shown(i) \/ Asked(i) \/ Undone(i)
Carried == selected /\ ~owed => \A i \in Ids(table) : OnWay(i)

LEMMA TurnIds ==
    /\ \A k \in Turn : k \in Int /\ k > 0 /\ -k \in Int /\ k \in EveryId /\ -k \in EveryId \ Turn
    /\ MaxTurns \in Nat /\ MaxOutput \in Nat
    /\ OutputIds \subseteq EveryId \ Turn /\ OutputIds \subseteq Int
    /\ NoRow.id = MaxTurns + MaxOutput + 1 /\ NoRow.id \in EveryId \ Turn /\ NoRow.id \notin OutputIds
<1>1. MaxTurns \in Nat /\ MaxOutput \in Nat
  BY WindowAssumption
<1>2. NoRow.id = MaxTurns + MaxOutput + 1
  BY DEF NoRow, NewRow
<1>3. \A k \in Turn : k \in Int /\ k > 0 /\ -k \in Int /\ k \in EveryId /\ -k \in EveryId \ Turn
  BY <1>1 DEF Turn, EveryId
<1>4. OutputIds \subseteq EveryId \ Turn /\ OutputIds \subseteq Int
  BY <1>1 DEF Turn, EveryId, OutputIds
<1>5. NoRow.id \in EveryId \ Turn /\ NoRow.id \notin OutputIds
  BY <1>1, <1>2 DEF Turn, EveryId, OutputIds
<1> QED BY <1>1, <1>2, <1>3, <1>4, <1>5

LEMMA PresentIs ==
    /\ Present \in SUBSET EveryId
    /\ Onward => Present \subseteq Present' /\ Stocked \subseteq Stocked'
<1>1. Turn \subseteq EveryId
  BY TurnIds
<1>2. Present \in SUBSET EveryId
  BY <1>1 DEF Present, Stocked
<1>3. Onward => Stocked \subseteq Stocked'
  BY DEF Onward, Stocked
<1>4. Onward => Present \subseteq Present'
  BY <1>3 DEF Present
<1> QED BY <1>2, <1>3, <1>4

LEMMA SmallMore ==
    ASSUME NEW P, NEW v, Small(v, P), NEW Q, P \subseteq Q
    PROVE  Small(v, Q)
BY FewMore DEF Small

\* What the hub adds to its log says what became of its table.
Writes(e) ==
    /\ log' = Append(log, e) /\ IsRow(e.row) /\ e.row.id \in Present'
    /\ \/ e.type = "received" /\ e.row.id \notin Stocked /\ Ids(table') = Ids(table) \cup {e.row.id}
       \/ e.type = "consumed" /\ Ids(table') = Ids(table)
       \/ e.type = "cancelled" /\ e.row.id \in Turn /\ Ids(table') = Ids(table) \ {e.row.id}
       \/ e.type = "invalidated" /\ Ids(table') = Ids(table) \cup {NoRow.id}

LEMMA InsertFits ==
    ASSUME FitTable, Onward, NEW id \in Int, id \notin Ids(table), id \in Present', id \notin Stocked,
           NEW inv \in BOOLEAN, Insert(id, inv)
    PROVE  /\ Few(table', Present') /\ Ids(table') = Ids(table) \cup {id}
           /\ \E e : Writes(e)
<1> DEFINE r == NewRow(id, LastSeq + 1, inv, clock + 1)
           e == [type |-> "received", row |-> r]
<1>1. IsRow(r) /\ r.id = id
  BY NewRowIs
<1>2. table' = table \cup {r} /\ log' = Append(log, e) /\ e.type = "received" /\ e.row = r
  BY DEF Insert, Tell
<1> HIDE DEF r, e
<1>3. Ids(table') = Ids(table) \cup {id}
  BY <1>1, <1>2 DEF Ids
<1>4. Few(table, Present')
  BY PresentIs, FewMore DEF FitTable
<1>5. \A q \in table : q.id # r.id
  BY <1>1 DEF Ids
<1>6. Few(table', Present')
  BY <1>1, <1>2, <1>4, <1>5 DEF Few
<1>7. Writes(e)
  BY <1>1, <1>2, <1>3 DEF Writes
<1> QED BY <1>3, <1>6, <1>7

LEMMA InvokeFits ==
    ASSUME FitTable, Onward, NEW k, NEW r \in table, Invoke(k, r)
    PROVE  /\ Few(table', Present') /\ Ids(table') = Ids(table)
           /\ \E e : Writes(e)
<1> DEFINE i == [r EXCEPT !.inv = TRUE, !.at = clock + 1]
           e == [type |-> "consumed", row |-> i]
<1>1. Few(table, Present')
  BY PresentIs, FewMore DEF FitTable
<1>2. IsRow(i) /\ i.id = r.id
  BY <1>1, Changed DEF Few
<1>3. table' = (table \ {r}) \cup {i} /\ log' = Append(log, e) /\ e.type = "consumed" /\ e.row = i
  BY DEF Invoke, Tell
<1> HIDE DEF i, e
<1>4. Ids(table') = Ids(table)
  BY <1>2, <1>3 DEF Ids
<1>5. Few(table', Present')
  BY <1>1, <1>2, <1>3 DEF Few
<1>6. Writes(e)
  BY <1>1, <1>2, <1>3, <1>4 DEF Writes, Few
<1> QED BY <1>4, <1>5, <1>6

LEMMA OutputLeft ==
    ASSUME FitTable, Ids(table') \cap OutputIds = Ids(table) \cap OutputIds
    PROVE  \E c \in 0..MaxOutput : Ids(table') \cap OutputIds = (MaxTurns + 1)..(MaxTurns + c)
BY DEF FitTable

LEMMA HubFits ==
    ASSUME PostsOk, TableOk, FitTable, [Next]_vars
    PROVE  /\ FitTable'
           /\ \/ UNCHANGED <<table, log>>
              \/ HubRestart /\ UNCHANGED table /\ log' = <<>>
              \/ HubWrites /\ \E e : Writes(e)
<1>0. Onward
  BY PostsStep
<1>a. Few(table, Present') /\ Few(table, Present)
  BY <1>0, PresentIs, FewMore DEF FitTable
<1>1. ASSUME NEW k \in Turn, Store(k) \/ StoreElsewhere(k)
      PROVE  FitTable' /\ HubWrites /\ \E e : Writes(e)
  <2>1. posts[k] \in {"unused", "posting"} /\ posts'[k] \in {"stored", "done"} /\ Insert(k, FALSE)
    BY <1>1 DEF Store, StoreElsewhere, PostsOk
  <2>2. k \notin Ids(table) /\ k \in Present' /\ k \notin Stocked
    BY <2>1 DEF TableOk, Present, Stocked
  <2>3. k \in Int /\ k \notin OutputIds
    BY TurnIds
  <2>4. /\ Few(table', Present') /\ Ids(table') = Ids(table) \cup {k}
        /\ \E e : Writes(e)
    BY <1>0, <2>1, <2>2, <2>3, InsertFits
  <2>5. Ids(table') \cap OutputIds = Ids(table) \cap OutputIds
    BY <2>3, <2>4
  <2> QED BY <1>1, <2>4, <2>5, OutputLeft DEF FitTable, HubWrites
<1>2. ASSUME NEW k \in Turn, Consume(k)
      PROVE  FitTable' /\ HubWrites /\ \E e : Writes(e)
  <2>1. PICK r \in table : Invoke(k, r)
    BY <1>2 DEF Consume
  <2>2. /\ Few(table', Present') /\ Ids(table') = Ids(table)
        /\ \E e : Writes(e)
    BY <1>0, <2>1, InvokeFits
  <2> QED BY <1>2, <2>2, OutputLeft DEF FitTable, HubWrites
<1>3. ASSUME NEW k \in Turn, CancelServed(k)
      PROVE  FitTable' /\ (UNCHANGED <<table, log>> \/ (HubWrites /\ \E e : Writes(e)))
  <2>1. PICK r \in table :
           /\ r.id = k
           /\ \/ UNCHANGED hubVars
              \/ table' = table \ {r} /\ Tell("cancelled", r)
              \/ Invoke(k, r)
    BY <1>3 DEF CancelServed
  <2>2. CASE UNCHANGED hubVars
    BY <1>a, <2>2, OutputLeft DEF hubVars, FitTable
  <2>3. CASE table' = table \ {r} /\ Tell("cancelled", r)
    <3> DEFINE e == [type |-> "cancelled", row |-> r]
    <3>1. e.type = "cancelled" /\ e.row = r /\ log' = Append(log, e)
      BY <2>3 DEF Tell
    <3> HIDE DEF e
    <3>2. Few(table', Present')
      BY <1>a, <2>3, FewLess
    <3>3. Ids(table') = Ids(table) \ {k}
      BY <1>a, <2>1, <2>3 DEF Ids, Few
    <3>4. k \notin OutputIds
      BY TurnIds
    <3>5. Ids(table') \cap OutputIds = Ids(table) \cap OutputIds
      BY <3>3, <3>4
    <3>6. IsRow(r) /\ r.id \in Present'
      BY <1>a DEF Few
    <3>7. Writes(e)
      BY <2>1, <3>1, <3>3, <3>6 DEF Writes
    <3> QED BY <1>3, <3>2, <3>5, <3>7, OutputLeft DEF FitTable, HubWrites
  <2>4. CASE Invoke(k, r)
    <3>1. /\ Few(table', Present') /\ Ids(table') = Ids(table)
          /\ \E e : Writes(e)
      BY <1>0, <2>4, InvokeFits
    <3> QED BY <1>3, <3>1, OutputLeft DEF FitTable, HubWrites
  <2> QED BY <2>1, <2>2, <2>3, <2>4
<1>4. CASE Output
  <2>1. PICK c \in 0..MaxOutput : Ids(table) \cap OutputIds = (MaxTurns + 1)..(MaxTurns + c)
    BY DEF FitTable
  <2>2. MaxTurns \in Nat /\ MaxOutput \in Nat /\ c \in Nat
    BY TurnIds
  <2> DEFINE n == MaxTurns + c + 1
  <2>3. Cardinality((MaxTurns + 1)..(MaxTurns + c)) = c
    <3> DEFINE a == MaxTurns + 1
               b == MaxTurns + c
    <3>1. a \in Int /\ b \in Int /\ (IF a > b THEN 0 ELSE b - a + 1) = c
      BY <2>2
    <3> HIDE DEF a, b
    <3>2. Cardinality(a..b) = IF a > b THEN 0 ELSE b - a + 1
      BY <3>1, FS_Interval
    <3>3. Cardinality(a..b) = c
      BY <3>1, <3>2
    <3> QED BY <3>3 DEF a, b
  <2>4. Insert(n, TRUE) /\ n <= MaxTurns + MaxOutput
    BY <1>4, <2>1, <2>3 DEF Output, OutputIds
  <2>5. n \in OutputIds /\ n \notin (MaxTurns + 1)..(MaxTurns + c) /\ n \in Int
    BY <2>2, <2>4 DEF OutputIds
  <2>6. n \notin Ids(table)
    BY <2>1, <2>5
  <2>7. n \in Present' /\ n \notin Stocked
    BY <2>5, TurnIds DEF Present, Stocked
  <2>8. c + 1 \in 0..MaxOutput /\ (MaxTurns + 1)..(MaxTurns + (c + 1)) = ((MaxTurns + 1)..(MaxTurns + c)) \cup {n}
    BY <2>2, <2>4
  <2> HIDE DEF n
  <2>9. /\ Few(table', Present') /\ Ids(table') = Ids(table) \cup {n}
        /\ \E e : Writes(e)
    BY <1>0, <2>4, <2>5, <2>6, <2>7, InsertFits
  <2>10. Ids(table') \cap OutputIds = ((MaxTurns + 1)..(MaxTurns + c)) \cup {n}
    BY <2>1, <2>5, <2>9
  <2>11. Ids(table') \cap OutputIds = (MaxTurns + 1)..(MaxTurns + (c + 1))
    BY <2>8, <2>10
  <2> QED BY <1>4, <2>8, <2>9, <2>11 DEF FitTable, HubWrites
<1>5. CASE MoveIn
  <2> DEFINE old == [NoRow EXCEPT !.seq = 1, !.inv = TRUE]
             e == [type |-> "invalidated", row |-> old]
             f == [r \in table |-> [r EXCEPT !.seq = r.seq + 1]]
             moved == {f[r] : r \in table}
  <2>1. IsRow(old) /\ old.id = NoRow.id
    <3> DEFINE i == NoRow.id
               Row == [id : {i}, seq : {0, 1}, inv : BOOLEAN, at : {0}, sent : {FALSE}]
    <3>1. i \in Int
      BY TurnIds
    <3>2. NoRow \in Row
      BY DEF NoRow, NewRow
    <3> HIDE DEF i
    <3>3. old \in Row
      BY <3>2
    <3>4. \A r \in Row : IsRow(r) /\ r.id = i
      BY <3>1 DEF IsRow
    <3> QED BY <3>3, <3>4 DEF i
  <2>2. table' = moved \cup {old} /\ log' = Append(log, e) /\ e.type = "invalidated" /\ e.row = old
        /\ NoRow.id \notin Ids(table)
    BY <1>5 DEF MoveIn, Tell
  <2> HIDE DEF old, e
  <2>3. \A r \in table : IsRow(f[r]) /\ f[r].id = r.id
    BY <1>a, Changed DEF Few
  <2> HIDE DEF f
  <2> DEFINE P == Present'
  <2>4. Few(table, P)
    BY <1>a
  <2> HIDE DEF P
  <2>5. Few(moved, P) /\ Ids(moved) = Ids(table)
    BY <2>3, <2>4, MappedFew
  <2> HIDE DEF moved
  <2>6. NoRow.id \in P
    BY TurnIds DEF P, Present
  <2>7. Ids(table') = Ids(table) \cup {NoRow.id}
    BY <2>1, <2>2, <2>5 DEF Ids
  <2>8. \A q \in moved : q.id # old.id
    BY <2>1, <2>2, <2>5 DEF Ids
  <2>9. Few(table', P)
    BY <2>1, <2>2, <2>5, <2>6, <2>8 DEF Few
  <2>10. Ids(table') \cap OutputIds = Ids(table) \cap OutputIds
    BY <2>7, TurnIds
  <2>11. Writes(e)
    BY <2>1, <2>2, <2>6, <2>7 DEF Writes, P
  <2> QED BY <1>5, <2>9, <2>10, <2>11, OutputLeft DEF FitTable, HubWrites, P
<1>6. CASE HubRestart
  <2>1. UNCHANGED table /\ log' = <<>>
    BY <1>6 DEF HubRestart
  <2> QED BY <1>6, <1>a, <2>1, OutputLeft DEF FitTable
<1>7. CASE UNCHANGED <<table, log>>
  BY <1>7, <1>a, OutputLeft DEF FitTable
<1> QED BY <1>1, <1>2, <1>3, <1>4, <1>5, <1>6, <1>7, WhoChanges DEF HubWrites

\* A row that is new in the table is none of a turn stored before.
LEMMA NewIds ==
    ASSUME NEW e, Writes(e)
    PROVE  \A i \in Ids(table') : i \in Ids(table) \/ i \notin Stocked
BY TurnIds DEF Writes, Stocked

LEMMA IdsLater ==
    ASSUME PostsOk, TableOk, FitTable, [Next]_vars, NEW i \in Stocked, i \notin Ids(table)
    PROVE  i \notin Ids(table')
BY HubFits, NewIds

LEMMA LogFits ==
    ASSUME PostsOk, TableOk, FitTable, LogOk, FitLog, [Next]_vars
    PROVE  FitLog'
<1>0. Onward
  BY PostsStep
<1>1. \A n \in 1..Len(log) :
         /\ IsRow(log[n].row) /\ log[n].row.id \in Present'
         /\ log[n].type = "cancelled" => log[n].row.id \in Turn /\ log[n].row.id \notin Ids(table')
  <2> SUFFICES ASSUME NEW n \in 1..Len(log)
               PROVE  /\ IsRow(log[n].row) /\ log[n].row.id \in Present'
                      /\ log[n].type = "cancelled" => log[n].row.id \in Turn /\ log[n].row.id \notin Ids(table')
    OBVIOUS
  <2>1. IsRow(log[n].row) /\ log[n].row.id \in Present /\ log[n].row.id \in Present'
    BY <1>0, PresentIs DEF FitLog
  <2>2. ASSUME log[n].type = "cancelled"
        PROVE  log[n].row.id \in Turn /\ log[n].row.id \notin Ids(table')
    <3>1. log[n].row.id \in Turn /\ log[n].row.id \notin Ids(table)
      BY <2>2 DEF FitLog
    <3>2. log[n].row.id \in Stocked
      BY <2>1, <3>1 DEF Present
    <3> QED BY <3>1, <3>2, IdsLater
  <2> QED BY <2>1, <2>2
<1>2. PICK S : log \in Seq(S)
  BY DEF LogOk
<1>3. ASSUME NEW e, Writes(e) PROVE FitLog'
  <2>1. IsRow(e.row) /\ e.row.id \in Present'
        /\ (e.type = "cancelled" => e.row.id \in Turn /\ e.row.id \notin Ids(table'))
    BY <1>3 DEF Writes
  <2>2. log' = Append(log, e)
    BY <1>3 DEF Writes
  <2>3. \A n \in 1..Len(log') : (n \in 1..Len(log) /\ log'[n] = log[n]) \/ log'[n] = e
    BY <1>2, <2>2
  <2> QED BY <1>1, <2>1, <2>3 DEF FitLog
<1>4. CASE log' = <<>>
  <2>1. 1..Len(log') = {}
    BY <1>4
  <2> QED BY <2>1 DEF FitLog
<1>5. CASE UNCHANGED log
  BY <1>1, <1>5 DEF FitLog
<1> QED BY <1>3, <1>4, <1>5, HubFits

-----------------------------------------------------------------------------
(* Its browser.                                                            *)

\* Of several copies of a row in the frame queue one is read.
LEMMA FewFrame ==
    ASSUME FrameOk, FitFrame
    PROVE  /\ Few(FrameRows, Present)
           /\ \A i : Queued(i) => i \in Ids(FrameRows)
           /\ frame = <<>> => \A i : ~Queued(i)
<1>1. Len(frame) \in Nat
  BY DEF FrameOk
<1>2. \A r \in FrameRows : IsRow(r) /\ r.id \in Present
  BY DEF FrameRows, FitFrame
<1>3. ASSUME NEW q \in FrameRows, NEW r \in FrameRows, q.id = r.id PROVE q = r
  <2>1. PICK j \in 1..Len(frame) : q = frame[j] /\ \A k \in (j + 1)..Len(frame) : frame[k].id # frame[j].id
    BY DEF FrameRows
  <2>2. PICK l \in 1..Len(frame) : r = frame[l] /\ \A k \in (l + 1)..Len(frame) : frame[k].id # frame[l].id
    BY DEF FrameRows
  <2>3. ~(l \in (j + 1)..Len(frame)) /\ ~(j \in (l + 1)..Len(frame))
    BY <1>3, <2>1, <2>2
  <2>4. j = l
    BY <1>1, <2>3
  <2> QED BY <2>1, <2>2, <2>4
<1>4. ASSUME NEW i, Queued(i) PROVE i \in Ids(FrameRows)
  <2> DEFINE D == {k \in 1..Len(frame) : frame[k].id = i}
             j == Highest(D)
  <2>1. D \in SUBSET (0..Len(frame)) /\ D # {}
    BY <1>1, <1>4 DEF Queued
  <2>2. j \in D /\ \A k \in D : k <= j
    <3> HIDE DEF D
    <3> QED BY <1>1, <2>1, EndsAre
  <2>3. j \in 1..Len(frame) /\ frame[j].id = i
    BY <2>2
  <2>4. \A k \in (j + 1)..Len(frame) : frame[k].id # i
    BY <1>1, <2>2, <2>3
  <2> HIDE DEF j
  <2>5. frame[j] \in FrameRows
    BY <2>3, <2>4 DEF FrameRows
  <2> QED BY <2>3, <2>5 DEF Ids
<1>5. frame = <<>> => 1..Len(frame) = {}
  OBVIOUS
<1> QED BY <1>2, <1>3, <1>4, <1>5 DEF Few, Queued

LEMMA FlushedGets ==
    ASSUME Fits, FrameOk, FitFrame, NEW v, Small(v, Present)
    PROVE  LET u == IF frame = <<>> THEN v ELSE Ingest(v, FrameRows) IN
           /\ Small(u, Present)
           /\ \A i : i > 0 /\ (Queued(i) \/ i \in Has(v)) => i \in Has(u)
<1>1. Gets(v, Ingest(v, FrameRows), Ids(FrameRows), Present)
  BY PresentIs, FewFrame, SmallIngest
<1>2. CASE frame = <<>>
  BY <1>2, FewFrame
<1>3. CASE frame # <<>>
  BY <1>1, <1>3, FewFrame DEF Gets
<1> QED BY <1>2, <1>3

LEMMA FlushedSmall ==
    ASSUME Fits, FrameOk, FitFrame, FitWindow
    PROVE  Small(Flushed, Present) /\ \A i : i > 0 /\ Shown(i) => i \in Has(Flushed)
BY FlushedGets DEF Flushed, FitWindow, Shown

\* No page is asked for: the thread has no end that pages.
LEMMA AskNever ==
    ASSUME Fits, FrameOk, FitFrame, FitWindow, NEW kind \in {"older", "newer"}, AskPage(kind)
    PROVE  FALSE
BY FlushedSmall DEF AskPage, Small

LEMMA PageNever ==
    ASSUME Fits, FrameOk, FitFrame, FitWindow, page = NoPage, [Next]_vars
    PROVE  page' = NoPage
BY AskNever, PageKept

LEMMA FitShow ==
    ASSUME Fits, FitInv, [Next]_vars
    PROVE  ShowInv' /\ RefreshOk' /\ TasksOk' /\ BehindLog'
<1> USE DEF FitInv, ShowInv
<1>1. page' = NoPage
  BY PageNever
<1>2. page'.kind # "older"
  BY <1>1 DEF NoPage
<1>3. ShowInv'
  BY <1>2, ShowStep
<1>4. RefreshOk'
  BY RefreshStep DEF NoPage
<1> QED BY <1>3, <1>4, TasksStep, BehindStep

LEMMA FitFrameStep ==
    ASSUME Fits, FitInv, [Next]_vars
    PROVE  FitFrame'
<1> USE DEF FitInv
<1>0. Onward
  BY PostsStep DEF ShowInv
<1>1. \A n \in 1..Len(frame) : IsRow(frame[n]) /\ frame[n].id \in Present'
  BY <1>0, PresentIs DEF FitFrame
<1>2. page'.kind # "older"
  BY FitShow DEF ShowInv, NoPage
<1>3. CASE frame' = frame
  BY <1>1, <1>3 DEF FitFrame
<1>4. CASE frame' = <<>>
  <2>1. 1..Len(frame') = {}
    BY <1>4
  <2> QED BY <2>1 DEF FitFrame
<1>5. ASSUME NEW s \in Stream, Handle(s), frame' = Append(frame, log[stream[s].done + 1].row)
      PROVE  FitFrame'
  <2> DEFINE r == log[stream[s].done + 1].row
  <2>1. frame' = Append(frame, r)
    BY <1>5
  <2>2. stream[s].done + 1 \in 1..Len(log)
    BY <1>5 DEF Handle, ShowInv, StreamsOk, LogOk
  <2>3. IsRow(r) /\ r.id \in Present'
    BY <1>0, <2>2, PresentIs DEF FitLog
  <2> HIDE DEF r
  <2>4. \A n \in 1..Len(frame') : (n \in 1..Len(frame) /\ frame'[n] = frame[n]) \/ frame'[n] = r
    BY <2>1 DEF ShowInv, FrameOk
  <2> QED BY <1>1, <2>3, <2>4 DEF FitFrame
<1> QED BY <1>2, <1>3, <1>4, <1>5, FrameChange DEF ShowInv

\* Window v has the rows of the table that the browser has got, but for those of
\* the ids in L.
Retains(v, L) == /\ Small(v, Present)
                 /\ \A i \in Ids(table) : Shown(i) => i \in Has(v) \/ i \in L
Keeping(L) == /\ Small(w', Present)
              /\ \A i \in Ids(table) : Shown(i) => Shown(i)' \/ i \in L

LEMMA RetainsMore ==
    ASSUME TableOk, NEW v, NEW L, Retains(v, L), NEW u, NEW I, Gets(v, u, I, Present)
    PROVE  Retains(u, L)
BY DEF Retains, Gets, TableOk, FromHub, Stored, Ids

LEMMA FlushedRetains ==
    ASSUME Fits, FitInv
    PROVE  Retains(Flushed, {})
BY FlushedSmall DEF FitInv, ShowInv, Retains, TableOk, FromHub, Stored, Ids

LEMMA KeepingIs ==
    ASSUME NEW v, NEW L, Retains(v, L), w' = v
    PROVE  Keeping(L)
BY DEF Retains, Keeping, Shown, Has

LEMMA KeepingSame ==
    ASSUME FitInv, UNCHANGED <<w, frame>>
    PROVE  Keeping({})
BY DEF FitInv, FitWindow, Keeping, Shown, Queued, Has

LEMMA EndReadFits ==
    ASSUME Fits, FitInv, NEW v, Small(v, Present), NEW lost, EndRead(v, lost)
    PROVE  /\ Small(w', Present)
           /\ \A i \in Ids(table) : Queued(i) \/ i \in Has(v) => Shown(i)'
<1> USE DEF FitInv, ShowInv
<1>1. CASE forced
  <2>1. w' = (IF frame = <<>> THEN v ELSE Ingest(v, FrameRows))
    BY <1>1 DEF EndRead
  <2>2. /\ Small(w', Present)
        /\ \A i : i > 0 /\ (Queued(i) \/ i \in Has(v)) => i \in Has(w')
    BY <2>1, FlushedGets
  <2>3. \A i \in Ids(table) : i > 0
    BY DEF TableOk, FromHub, Stored, Ids
  <2> QED BY <2>2, <2>3 DEF Shown, Has
<1>2. CASE ~forced
  <2>1. w' = v /\ frame' = frame
    BY <1>2 DEF EndRead
  <2> QED BY <2>1 DEF Shown, Queued, Has
<1> QED BY <1>1, <1>2

LEMMA LandReadFits ==
    ASSUME Fits, FitInv, LandRead
    PROVE  Keeping({}) /\ \A i \in Ids(table) : i \in Ids(read.snap) => Shown(i)'
<1> USE DEF FitInv, ShowInv
<1> DEFINE v == ApplyLatest(w)
<1>1. /\ Small(v, Present)
      /\ \A i \in Ids(read.snap) : i > 0 => i \in Has(v)
      /\ \A i \in Has(w) \ read.eligible : i > 0 => i \in Has(v)
  BY PresentIs, SmallLatest DEF FitWindow, FitRead
<1>2. EndRead(v, FALSE) /\ read.phase = "served"
  BY DEF LandRead
<1> HIDE DEF v
<1>3. \A i \in Ids(table) : i > 0
  BY DEF TableOk, FromHub, Stored, Ids
<1>4. \A i \in Ids(table) : i \in Has(w) \/ i \in Ids(read.snap) => i \in Has(v)
  BY <1>1, <1>2, <1>3 DEF FitRead
<1> QED BY <1>1, <1>2, <1>4, EndReadFits DEF Keeping, Shown

LEMMA HandleFits ==
    ASSUME Fits, FitInv, NEW s \in Stream, Handle(s)
    PROVE  Keeping({})
<1> USE DEF FitInv, ShowInv
<1> DEFINE n == stream[s].done + 1
           e == log[n]
<1>1. e.type \in EventType
  BY ReceivedIs DEF Handle
<1>2. Retains(Flushed, {})
  BY FlushedRetains
<1>3. CASE e.type = "received"
  <2>1. Receive(e.row) \/ UNCHANGED <<frame, w, tasks>>
    BY <1>3 DEF Handle
  <2>2. UNCHANGED w /\ (frame' = frame \/ frame' = Append(frame, e.row))
    BY <2>1 DEF Receive
  <2>3. \A i : Queued(i) => Queued(i)'
    <3>1. frame' = frame \/ (Len(frame') = Len(frame) + 1 /\ Len(frame) \in Nat
                             /\ \A j \in 1..Len(frame) : frame'[j] = frame[j])
      BY <2>2 DEF FrameOk
    <3> QED BY <3>1 DEF Queued
  <2> QED BY <2>2, <2>3 DEF Keeping, Shown, FitWindow, Has
<1>4. CASE e.type = "consumed"
  <2>1. w' = Consumed(Flushed, Local(e.row), e.row.at)
    BY <1>4 DEF Handle
  <2>2. Gets(Flushed, Consumed(Flushed, Local(e.row), e.row.at), {}, Present)
    BY <1>2, PresentIs, SmallConsumed DEF Retains
  <2> QED BY <1>2, <2>1, <2>2, RetainsMore, KeepingIs
<1>5. CASE e.type = "cancelled"
  <2>1. w' = Without(Flushed, {e.row.id})
    BY <1>5 DEF Handle
  <2>2. n \in 1..Len(log)
    BY DEF Handle, StreamsOk, LogOk
  <2>3. e.row.id \notin Ids(table)
    BY <1>5, <2>2 DEF FitLog
  <2>4. LET u == Without(Flushed, {e.row.id}) IN
        Small(u, Present) /\ \A i \in Has(Flushed) : i \notin {e.row.id} => i \in Has(u)
    BY <1>2, SmallWithout DEF Retains
  <2>5. Retains(w', {})
    BY <1>2, <2>1, <2>3, <2>4 DEF Retains
  <2> QED BY <2>5, KeepingIs
<1>6. CASE e.type = "invalidated"
  <2>1. UNCHANGED <<frame, w>>
    BY <1>6 DEF Handle
  <2> QED BY <2>1, KeepingSame
<1> QED BY <1>1, <1>3, <1>4, <1>5, <1>6 DEF EventType

LEMMA SendFits ==
    ASSUME Fits, FitInv, NEW k \in Turn, Send(k)
    PROVE  Keeping({})
<1> DEFINE r == NewRow(-k, 0, FALSE, clock + 1)
           i == -k
<1>1. i \in Int /\ i \in Present
  BY TurnIds DEF Present
<1>2. w' = AppendOptimistic(Flushed, r)
  BY DEF Send
<1>3. IsRow(r) /\ r.id = i
  <2>1. r = NewRow(i, 0, FALSE, clock + 1)
    OBVIOUS
  <2> HIDE DEF i, r
  <2> QED BY <1>1, <2>1, OwnRowIs
<1> HIDE DEF i, r
<1>4. Retains(Flushed, {})
  BY FlushedRetains
<1>5. Gets(Flushed, AppendOptimistic(Flushed, r), {r.id}, Present)
  BY <1>1, <1>3, <1>4, PresentIs, SmallOptimistic DEF Retains
<1> QED BY <1>2, <1>4, <1>5, RetainsMore, KeepingIs DEF FitInv, ShowInv

LEMMA AnswerFits ==
    ASSUME Fits, FitInv, NEW k \in Turn, Answer(k)
    PROVE  Keeping({})
<1>1. PICK sent \in BOOLEAN :
         LET mark(R) == {IF Local(r) = k THEN [r EXCEPT !.sent = sent] ELSE r : r \in R} IN
         w' = Build([Flushed EXCEPT !.msgs = mark(Flushed.msgs), !.pending = mark(Flushed.pending)])
  BY DEF Answer
<1>2. Retains(Flushed, {})
  BY FlushedRetains
<1>3. LET mark(R) == {IF Local(r) = k THEN [r EXCEPT !.sent = sent] ELSE r : r \in R} IN
      Gets(Flushed, Build([Flushed EXCEPT !.msgs = mark(Flushed.msgs), !.pending = mark(Flushed.pending)]),
           {}, Present)
  BY <1>2, SmallMarked DEF Retains
<1>4. Gets(Flushed, w', {}, Present)
  BY <1>1, <1>3
<1> QED BY <1>2, <1>4, RetainsMore, KeepingIs DEF FitInv, ShowInv

\* A turn is taken out of the thread.
LEMMA TakenOut ==
    ASSUME Fits, FitInv, NEW k \in Turn, w' = Without(Flushed, {k, -k})
    PROVE  Keeping({k})
<1>1. Retains(Flushed, {})
  BY FlushedRetains
<1>2. LET u == Without(Flushed, {k, -k}) IN
      Small(u, Present) /\ \A i \in Has(Flushed) : i \notin {k, -k} => i \in Has(u)
  BY <1>1, SmallWithout DEF Retains
<1>3. \A i \in Ids(table) : i > 0
  BY DEF FitInv, ShowInv, TableOk, FromHub, Stored, Ids
<1>4. -k \notin Ids(table)
  BY <1>3, TurnIds
<1>5. Retains(w', {k})
  BY <1>1, <1>2, <1>4 DEF Retains
<1> QED BY <1>5, KeepingIs

\* A turn whose cancel came to nothing is back in the thread.
LEMMA CancelFits ==
    ASSUME Fits, FitInv, NEW k \in Turn, CancelAnswer(k) \/ CancelFails(k)
    PROVE  /\ Keeping({})
           /\ (CancelAnswer(k) /\ cancels[k].phase = "cancelled") \/ Shown(k)'
<1> USE DEF FitInv, ShowInv
<1> DEFINE r == cancels[k].row
           q == [r EXCEPT !.sent = TRUE]
<1>1. Retains(Flushed, {})
  BY FlushedRetains
<1>2. cancels[k].phase \in Pending
  BY DEF CancelAnswer, CancelFails, Pending
<1>3. IsRow(r) /\ r.id = k /\ k \in Present
  BY <1>2 DEF FitCancels, Present
<1>4. ASSUME NEW p, IsRow(p), p.id = k, w' = AppendOptimistic(Flushed, p)
      PROVE  Keeping({}) /\ Shown(k)'
  <2>1. Gets(Flushed, AppendOptimistic(Flushed, p), {p.id}, Present)
    BY <1>1, <1>3, <1>4, PresentIs, SmallOptimistic DEF Retains
  <2>2. Keeping({})
    BY <1>1, <1>4, <2>1, RetainsMore, KeepingIs
  <2>3. k \in Has(w')
    BY <1>4, <2>1, TurnIds DEF Gets
  <2> QED BY <2>2, <2>3 DEF Shown, Has
<1>5. CASE CancelFails(k)
  <2>1. w' = AppendOptimistic(Flushed, r)
    BY <1>5 DEF CancelFails
  <2> QED BY <1>3, <1>4, <2>1
<1>6. CASE CancelAnswer(k) /\ cancels[k].phase = "invoked"
  <2>1. w' = AppendOptimistic(Flushed, q)
    BY <1>6 DEF CancelAnswer
  <2>2. IsRow(q) /\ q.id = k
    BY <1>3, Changed
  <2> QED BY <1>4, <2>1, <2>2
<1>7. CASE CancelAnswer(k) /\ cancels[k].phase # "invoked"
  <2>1. UNCHANGED <<w, frame>> /\ cancels[k].phase = "cancelled"
    BY <1>7 DEF CancelAnswer
  <2> QED BY <1>7, <2>1, KeepingSame
<1> QED BY <1>5, <1>6, <1>7

\* The thread is moved to its end.
LEMMA ToEndFits ==
    ASSUME Fits, FitInv, ScrollAway \/ ToBottom \/ Return
    PROVE  Keeping({})
<1>1. Retains(Flushed, {})
  BY FlushedRetains
<1>2. CASE ScrollAway
  <2>1. w' = [Flushed EXCEPT !.atBottom = FALSE]
    BY <1>2 DEF ScrollAway
  <2>2. Gets(Flushed, [Flushed EXCEPT !.atBottom = FALSE], {}, Present)
    BY <1>1, SmallPosition DEF Retains
  <2> QED BY <1>1, <2>1, <2>2, RetainsMore, KeepingIs DEF FitInv, ShowInv
<1>3. CASE ToBottom \/ Return
  <2> DEFINE v == [Flushed EXCEPT !.atBottom = TRUE]
  <2>1. Gets(Flushed, v, {}, Present)
    BY <1>1, SmallPosition DEF Retains
  <2>2. w' = v \/ w' = FlushPending(v)
    BY <1>3 DEF ToBottom, Return
  <2> HIDE DEF v
  <2>3. Retains(v, {})
    BY <1>1, <2>1, RetainsMore DEF FitInv, ShowInv
  <2>4. Gets(v, FlushPending(v), {}, Present)
    BY <2>3, PresentIs, SmallFlush DEF Retains
  <2>5. Retains(FlushPending(v), {})
    BY <2>3, <2>4, RetainsMore DEF FitInv, ShowInv
  <2> QED BY <2>2, <2>3, <2>5, KeepingIs
<1> QED BY <1>2, <1>3

LEMMA RefreshKeeps ==
    ASSUME Fits, FitInv, FailRead \/ StrayLands \/ (RunTask /\ Refresh) \/ FlushFrame
    PROVE  Keeping({})
<1>1. w' = Flushed => Keeping({})
  BY FlushedRetains, KeepingIs
<1>2. UNCHANGED <<w, frame>> => Keeping({})
  BY KeepingSame
<1>3. CASE FailRead
  <2>1. EndRead(w, TRUE)
    BY <1>3 DEF FailRead
  <2> QED BY <2>1, EndReadFits DEF FitInv, FitWindow, Keeping, Shown
<1>4. CASE StrayLands
  BY <1>1, <1>2, <1>4 DEF StrayLands
<1>5. CASE RunTask /\ Refresh
  BY <1>1, <1>2, <1>5 DEF Refresh
<1>6. CASE FlushFrame
  BY <1>1, <1>6 DEF FlushFrame
<1> QED BY <1>3, <1>4, <1>5, <1>6

\* Only a wipe empties the window; a turn leaves it when its POST fails or when
\* the person cancels it.
LEMMA FitKeeps ==
    ASSUME Fits, FitInv, [Next]_vars, ~(RunTask /\ Wipe)
    PROVE  Keeping({}) \/ \E k \in Turn : Keeping({k}) /\ (FailPost(k) \/ CancelClick(k))
<1>1. CASE LandRead
  BY <1>1, LandReadFits
<1>2. CASE FailRead \/ StrayLands \/ RunTask \/ FlushFrame
  <2>1. RunTask => Refresh
    BY DEF RunTask
  <2> QED BY <1>2, <2>1, RefreshKeeps
<1>3. CASE LandPage
  BY <1>3 DEF LandPage, NoPage, FitInv, ShowInv
<1>4. ASSUME NEW s \in Stream, Handle(s) PROVE Keeping({})
  BY <1>4, HandleFits
<1>5. ASSUME NEW kind \in {"older", "newer"}, AskPage(kind) PROVE Keeping({})
  <2>1. w' = Flushed
    BY <1>5 DEF AskPage
  <2> QED BY <2>1, FlushedRetains, KeepingIs
<1>6. CASE ScrollAway \/ ToBottom \/ Return
  BY <1>6, ToEndFits
<1>7. ASSUME NEW k \in Turn, Send(k) \/ Answer(k) PROVE Keeping({})
  BY <1>7, SendFits, AnswerFits
<1>8. ASSUME NEW k \in Turn, FailPost(k) \/ CancelClick(k) PROVE Keeping({k})
  <2>1. w' = Without(Flushed, {k, -k})
    BY <1>8 DEF FailPost, CancelClick
  <2> QED BY <2>1, TakenOut
<1>9. ASSUME NEW k \in Turn, CancelAnswer(k) \/ CancelFails(k) PROVE Keeping({})
  BY <1>9, CancelFits
<1>10. CASE UNCHANGED <<w, frame>>
  BY <1>10, KeepingSame
<1> QED BY <1>1, <1>2, <1>3, <1>4, <1>5, <1>6, <1>7, <1>8, <1>9, <1>10, WhoChanges DEF Browses

LEMMA FitWindowStep ==
    ASSUME Fits, FitInv, [Next]_vars
    PROVE  FitWindow'
<1>0. Present \subseteq Present'
  BY PostsStep, PresentIs DEF FitInv, ShowInv
<1>1. Small(w', Present)
  <2>1. CASE RunTask /\ Wipe
    BY <2>1, SmallFresh DEF Wipe
  <2>2. CASE ~(RunTask /\ Wipe)
    BY <2>2, FitKeeps DEF Keeping
  <2> QED BY <2>1, <2>2
<1> DEFINE P == Present'
<1> HIDE DEF P
<1>2. Small(w', P)
  BY <1>0, <1>1, SmallMore DEF P
<1> QED BY <1>2 DEF FitWindow, P, Small

\* A turn that is in the thread is one the hub has stored.
LEMMA ThreadStocked ==
    ASSUME NEW S, NEW v, Small(v, (EveryId \ Turn) \cup S)
    PROVE  Waiting(v) \subseteq S
<1> SUFFICES ASSUME NEW r \in v.msgs \cup v.pending, IsUser(r), ~IsOptimistic(r)
             PROVE  r.id \in S
  BY DEF Waiting, Ids, IsQueued
<1>1. IsRow(r) /\ r.id \in (EveryId \ Turn) \cup S
  BY DEF Small, Few
<1>2. r.id \in Turn
  BY <1>1, LocalIs DEF IsRow
<1> QED BY <1>1, <1>2

LEMMA FitReadStep ==
    ASSUME Fits, FitInv, [Next]_vars
    PROVE  FitRead'
<1> USE DEF FitInv, ShowInv
<1>0. Present \subseteq Present' /\ Stocked \subseteq Stocked'
  BY PostsStep, PresentIs
<1> DEFINE P == Present'
<1> HIDE DEF P
<1>1. /\ Few(read.snap, P) /\ Few(table, P)
      /\ read.eligible \subseteq Stocked'
  BY <1>0, FewMore DEF FitRead, FitTable, P
<1>2. \A i \in Stocked : i \notin Ids(table) => i \notin Ids(table')
  BY IdsLater
<1>3. ASSUME Few(read'.snap, P), ~read'.more, read'.eligible \subseteq Stocked',
             read'.phase = "served" => read'.eligible \cap Ids(table') \subseteq Ids(read'.snap)
      PROVE  FitRead'
  BY <1>3 DEF FitRead, P, Few
<1>4. Few({}, P)
  BY DEF Few
<1>5. read.phase = "served" => read.eligible \cap Ids(table') \subseteq Ids(read.snap)
  BY <1>2 DEF FitRead
<1>6. CASE UNCHANGED read
  BY <1>1, <1>3, <1>5, <1>6 DEF FitRead
<1>7. CASE read' = NoRead
  <2>1. read'.phase = "idle" /\ read'.snap = {} /\ ~read'.more /\ read'.eligible = {}
    BY <1>7 DEF NoRead
  <2> QED BY <1>3, <1>4, <2>1
<1>8. CASE Begun
  <2>1. read'.phase = "asked" /\ read'.snap = {} /\ ~read'.more /\ read'.eligible = Waiting(w')
    BY <1>8, BegunIs
  <2>2. Waiting(w') \subseteq Stocked'
    <3> DEFINE S == Stocked'
               v == w'
    <3>1. Small(v, (EveryId \ Turn) \cup S)
      BY FitWindowStep DEF FitWindow, Present, Small
    <3> HIDE DEF S, v
    <3>2. Waiting(v) \subseteq S
      BY <3>1, ThreadStocked
    <3> QED BY <3>2 DEF S, v
  <2> QED BY <1>3, <1>4, <2>1, <2>2
<1>9. CASE ServeRead
  <2>1. /\ read'.phase = "served" /\ read'.more = (table # Newest(table, PageSize))
        /\ read'.eligible = read.eligible
        /\ Newest(table, PageSize) \subseteq read'.snap /\ read'.snap \subseteq table
    BY <1>9, ServedIs
  <2>2. Newest(table, PageSize) = table
    BY Sizes, AllNewest, PresentIs DEF FitTable
  <2>3. read'.snap = table /\ ~read'.more
    BY <2>1, <2>2
  <2>4. table' = table
    BY <1>9 DEF ServeRead, hubVars
  <2> QED BY <1>1, <1>3, <2>1, <2>3, <2>4
<1>10. CASE HubRestart
  <2>1. \/ read' = read
        \/ (read'.phase = "lost" /\ read'.snap = read.snap /\ read'.more = read.more
            /\ read'.eligible = read.eligible)
    BY <1>10, LostIs
  <2> QED BY <1>1, <1>3, <1>6, <2>1 DEF FitRead
<1> QED BY <1>6, <1>7, <1>8, <1>9, <1>10, ReadChange, WhoChanges

LEMMA FitCancelsStep ==
    ASSUME Fits, FitInv, [Next]_vars
    PROVE  FitCancels'
<1> USE DEF FitInv, ShowInv
<1>0. Present \subseteq Present' /\ Stocked \subseteq Stocked'
  BY PostsStep, PresentIs
<1>1. \A k \in Turn : cancels[k].phase \in Pending =>
         /\ IsRow(cancels[k].row) /\ cancels[k].row.id = k /\ k \in Stocked'
         /\ cancels[k].phase = "cancelled" => k \notin Ids(table')
  BY <1>0, IdsLater DEF FitCancels
<1>2. PICK S : cancels \in [Turn -> [phase : Pending \cup {"none", "done"}, row : S]]
  BY DEF CancelsOk
<1> DEFINE Put(k, p, r) == cancels' = [cancels EXCEPT ![k] = [phase |-> p, row |-> r]]
<1>3. ASSUME NEW k \in Turn, NEW p, NEW r, Put(k, p, r),
             p \in Pending => IsRow(r) /\ r.id = k /\ k \in Stocked',
             p = "cancelled" => k \notin Ids(table')
      PROVE  FitCancels'
  <2> DEFINE c == [phase |-> p, row |-> r]
  <2>1. c.phase = p /\ c.row = r
    OBVIOUS
  <2>2. \A j \in Turn : cancels'[j] = IF j = k THEN c ELSE cancels[j]
    BY <1>2, <1>3
  <2> HIDE DEF c
  <2> QED BY <1>1, <1>3, <2>1, <2>2 DEF FitCancels
<1>4. ASSUME NEW k \in Turn, CancelClick(k) PROVE FitCancels'
  <2>1. PICK r \in w.msgs \cup w.pending : r.id = k /\ Put(k, "asked", r)
    BY <1>4 DEF CancelClick
  <2>2. IsRow(r) /\ k \in Present
    BY <2>1 DEF FitWindow, Small, Few
  <2>3. k \in Stocked'
    BY <1>0, <2>2 DEF Present
  <2> HIDE DEF Put
  <2> QED BY <1>3, <2>1, <2>2, <2>3
<1>5. ASSUME NEW k \in Turn, CancelAnswer(k) \/ CancelFails(k) PROVE FitCancels'
  <2>1. Put(k, "done", NoRow)
    BY <1>5 DEF CancelAnswer, CancelFails, Over
  <2> HIDE DEF Put
  <2> QED BY <1>3, <2>1 DEF Pending
<1>6. ASSUME NEW k \in Turn, CancelServed(k) PROVE FitCancels'
  <2>1. cancels[k].phase = "asked"
    BY <1>6 DEF CancelServed
  <2> DEFINE i(r) == [r EXCEPT !.inv = TRUE, !.at = clock + 1]
  <2>2. PICK r \in table :
           /\ r.id = k
           /\ \/ Put(k, "invoked", r)
              \/ Put(k, "cancelled", cancels[k].row) /\ table' = table \ {r}
              \/ Put(k, "invoked", i(r))
    BY <1>6 DEF CancelServed
  <2> HIDE DEF Put
  <2>3. IsRow(r)
    BY DEF FitTable, Few
  <2>4. IsRow(i(r)) /\ i(r).id = k
    BY <2>2, <2>3, Changed
  <2> HIDE DEF i
  <2>5. IsRow(cancels[k].row) /\ cancels[k].row.id = k /\ k \in Stocked'
    BY <1>1, <2>1 DEF Pending
  <2>6. CASE Put(k, "invoked", r)
    BY <1>3, <2>2, <2>3, <2>5, <2>6
  <2>7. CASE Put(k, "cancelled", cancels[k].row) /\ table' = table \ {r}
    <3>1. k \notin Ids(table')
      BY <2>2, <2>7 DEF FitTable, Few, Ids
    <3> QED BY <1>3, <2>5, <2>7, <3>1
  <2>8. CASE Put(k, "invoked", i(r))
    BY <1>3, <2>4, <2>5, <2>8
  <2> QED BY <2>2, <2>6, <2>7, <2>8
<1>7. CASE HubRestart
  <2>1. cancels' = [k \in Turn |-> IF cancels[k].phase \in {"none", "done"} THEN cancels[k]
                                   ELSE [cancels[k] EXCEPT !.phase = "lost"]]
    BY <1>7 DEF HubRestart
  <2>2. \A c \in [phase : Pending \cup {"none", "done"}, row : S] :
           LET d == [c EXCEPT !.phase = "lost"] IN d.phase = "lost" /\ d.row = c.row
    OBVIOUS
  <2>3. ASSUME NEW k \in Turn
        PROVE  cancels'[k].phase \in Pending =>
                  cancels[k].phase \in Pending /\ cancels'[k].row = cancels[k].row /\ cancels'[k].phase = "lost"
    <3>1. cancels[k] \in [phase : Pending \cup {"none", "done"}, row : S]
      BY <1>2
    <3>2. CASE cancels[k].phase \in {"none", "done"}
      <4>1. cancels'[k] = cancels[k]
        BY <2>1, <3>2
      <4> QED BY <3>2, <4>1 DEF Pending
    <3>3. CASE cancels[k].phase \notin {"none", "done"}
      <4>1. cancels'[k] = [cancels[k] EXCEPT !.phase = "lost"]
        BY <2>1, <3>3
      <4> QED BY <2>2, <3>1, <3>3, <4>1
    <3> QED BY <3>2, <3>3
  <2> QED BY <1>1, <2>3 DEF FitCancels
<1>8. CASE UNCHANGED cancels
  BY <1>1, <1>8 DEF FitCancels
<1> QED BY <1>4, <1>5, <1>6, <1>7, <1>8, WhoChanges DEF Cancels

LEMMA FitStep ==
    ASSUME Fits, FitInv, [Next]_vars
    PROVE  FitInv'
<1>1. FitTable' /\ FitLog'
  BY HubFits, LogFits DEF FitInv, ShowInv
<1> QED BY <1>1, FitShow, FitFrameStep, FitReadStep, FitCancelsStep, FitWindowStep DEF FitInv

LEMMA FitInitially ==
    ASSUME Fits, Init
    PROVE  FitInv
<1>1. ShowInv
  BY ShowInitially
<1>2. MaxTurns \in Nat /\ MaxOutput \in Nat /\ OldRows \in Nat /\ OldRows <= MaxOutput
  BY WindowAssumption
<1>3. log = <<>> /\ frame = <<>> /\ tasks = <<>> /\ 1..Len(log) = {} /\ 1..Len(frame) = {}
  BY DEF Init
<1>4. FitLog /\ FitFrame /\ TasksOk
  BY <1>3 DEF FitLog, FitFrame, TasksOk
<1>5. read.phase = "asked" /\ read.snap = {} /\ read.more = FALSE /\ read.eligible = {}
  BY DEF Init, NoRead
<1>6. FitRead
  BY <1>5 DEF FitRead, Few
<1>7. RefreshOk
  <2>1. reconciling = [on |-> FALSE, by |-> {}] /\ forced = FALSE /\ page.kind = "none"
    BY DEF Init, NoPage
  <2> QED BY <1>5, <2>1 DEF RefreshOk
<1>8. BehindLog
  <2>1. epoch = 0 /\ \A s \in Stream : stream[s] = ClosedStream
    BY DEF Init
  <2>2. Len(log) = 0
    BY <1>3
  <2> QED BY <2>1, <2>2 DEF BehindLog, ClosedStream, None
<1>9. FitCancels
  BY DEF Init, FitCancels, Pending
<1>10. FitWindow
  BY SmallFresh DEF Init, FitWindow
<1>11. FitTable
  <2> DEFINE f == [n \in 1..OldRows |-> NewRow(MaxTurns + n, n, TRUE, n)]
  <2>1. table = {f[n] : n \in 1..OldRows}
    BY DEF Init
  <2>2. ASSUME NEW n \in 1..OldRows
        PROVE  IsRow(f[n]) /\ f[n].id = MaxTurns + n /\ f[n].id \in OutputIds
    <3> DEFINE i == MaxTurns + n
    <3>1. f[n] = NewRow(i, n, TRUE, n)
      OBVIOUS
    <3>2. i \in Int /\ i \in OutputIds
      BY <1>2 DEF OutputIds
    <3> HIDE DEF f, i
    <3>3. IsRow(NewRow(i, n, TRUE, n)) /\ NewRow(i, n, TRUE, n).id = i
      BY <3>2, OldRowIs
    <3> QED BY <3>1, <3>2, <3>3 DEF i
  <2> HIDE DEF f
  <2>3. \A r \in table : IsRow(r) /\ r.id \in Present
    BY <2>1, <2>2, TurnIds DEF Present
  <2>4. \A q, r \in table : q.id = r.id => q = r
    <3> SUFFICES ASSUME NEW m \in 1..OldRows, NEW n \in 1..OldRows, f[m].id = f[n].id
                 PROVE  f[m] = f[n]
      BY <2>1
    <3>1. MaxTurns + m = MaxTurns + n
      BY <2>2
    <3>2. m = n
      BY <1>2, <3>1
    <3> QED BY <3>2
  <2>5. Ids(table) \cap OutputIds = (MaxTurns + 1)..(MaxTurns + OldRows)
    <3>1. \A i \in Ids(table) : \E n \in 1..OldRows : i = MaxTurns + n
      BY <2>1, <2>2 DEF Ids
    <3>2. \A n \in 1..OldRows : MaxTurns + n \in Ids(table) /\ MaxTurns + n \in OutputIds
      BY <2>1, <2>2 DEF Ids
    <3>3. \A i \in (MaxTurns + 1)..(MaxTurns + OldRows) : i - MaxTurns \in 1..OldRows /\ i = MaxTurns + (i - MaxTurns)
      BY <1>2
    <3>4. (MaxTurns + 1)..(MaxTurns + OldRows) \subseteq Ids(table) \cap OutputIds
      BY <3>2, <3>3
    <3>5. \A n \in 1..OldRows : MaxTurns + n \in (MaxTurns + 1)..(MaxTurns + OldRows)
      BY <1>2
    <3> QED BY <3>1, <3>4, <3>5
  <2>6. OldRows \in 0..MaxOutput
    BY <1>2
  <2> QED BY <2>3, <2>4, <2>5, <2>6 DEF FitTable, Few
<1> QED BY <1>1, <1>4, <1>6, <1>7, <1>8, <1>9, <1>10, <1>11 DEF FitInv

-----------------------------------------------------------------------------
(* Its rows stay on their way.                                             *)

LEMMA FitWayKept ==
    ASSUME NEW L, Keeping(L), NEW i \in Ids(table), i \notin L,
           UNCHANGED <<log, read, forced>>, stream'["session"] = stream["session"],
           tasks # <<>> => tasks' # <<>>, Undone(i) => Undone(i)', OnWay(i)
    PROVE  OnWay(i)'
<1>1. Announced(i) => Announced(i)'
  BY DEF Announced
<1>2. Shown(i) => Shown(i)'
  BY DEF Keeping
<1>3. Asked(i) => Asked(i)'
  BY DEF Asked
<1> QED BY <1>1, <1>2, <1>3 DEF OnWay

LEMMA FitBegun ==
    ASSUME BeginRead(w'), NEW i
    PROVE  OnWay(i)'
BY BeginReadIs, BegunIs DEF OnWay, Asked

\* The hub announces what it adds.
LEMMA WritesWay ==
    ASSUME FitInv, HubWrites, NEW e, Writes(e), NEW i \in Ids(table'),
           i \in Ids(table) => OnWay(i)
    PROVE  OnWay(i)'
<1> USE DEF FitInv, ShowInv
<1>1. UNCHANGED <<stream, frame, w, read, forced, tasks>>
  BY DEF HubWrites, Store, StoreElsewhere, Consume, CancelServed, Output, Insert, MoveIn, readVars
<1>2. "session" \in Stream
  BY WindowAssumption
<1>3. stream["session"].done \in Nat /\ Len(log) \in Nat /\ stream["session"].done <= Len(log)
  BY <1>2 DEF StreamsOk, LogOk, BehindLog
<1>4. /\ Len(log') = Len(log) + 1 /\ log'[Len(log) + 1] = e
      /\ \A n \in 1..Len(log) : log'[n] = log[n]
  BY DEF LogOk, Writes
<1>5. Len(log) + 1 \in (stream["session"].done + 1)..Len(log')
  BY <1>3, <1>4
<1>6. e.type = "invalidated" \/ (e.type = "received" /\ e.row.id = i) => Announced(i)' \/ ~stream'["session"].up
  BY <1>1, <1>4, <1>5 DEF Announced
<1>7. CASE i \in Ids(table) /\ OnWay(i)
  <2>1. Announced(i) => Announced(i)'
    <3> SUFFICES ASSUME Announced(i) PROVE Announced(i)'
      OBVIOUS
    <3>1. PICK n \in (stream["session"].done + 1)..Len(log) :
             log[n].type = "invalidated" \/ (log[n].type = "received" /\ log[n].row.id = i)
      BY DEF Announced
    <3>2. n \in 1..Len(log) /\ n \in (stream["session"].done + 1)..Len(log')
      BY <1>3, <1>4, <3>1
    <3>3. log'[n] = log[n]
      BY <1>4, <3>2
    <3> QED BY <1>1, <3>1, <3>2, <3>3 DEF Announced
  <2>2. Shown(i) => Shown(i)'
    BY <1>1 DEF Shown, Queued, Has
  <2>3. Asked(i) => Asked(i)'
    BY <1>1 DEF Asked
  <2>4. Undone(i) => Undone(i)'
    <3>1. UNCHANGED cancels \/ \E k \in Turn : CancelServed(k)
      BY DEF HubWrites, Store, StoreElsewhere, Consume, Output, Insert, MoveIn, userVars
    <3>2. CASE UNCHANGED cancels
      BY <3>2 DEF Undone
    <3>3. ASSUME NEW k \in Turn, CancelServed(k) PROVE Undone(i) => Undone(i)'
      <4> DEFINE Put(p, r) == cancels' = [cancels EXCEPT ![k] = [phase |-> p, row |-> r]]
      <4>1. \/ \E r : Put("invoked", r)
            \/ \E r \in table : r.id = k /\ table' = table \ {r} /\ Put("cancelled", cancels[k].row)
        BY <3>3 DEF CancelServed
      <4>2. PICK S : cancels \in [Turn -> S]
        BY DEF CancelsOk
      <4>3. ASSUME NEW p, NEW r, Put(p, r)
            PROVE  /\ k \in Turn => cancels'[k].phase = p
                   /\ \A j \in Turn : j # k => cancels'[j] = cancels[j]
        <5> DEFINE c == [phase |-> p, row |-> r]
        <5>1. c.phase = p
          OBVIOUS
        <5>2. cancels' = [cancels EXCEPT ![k] = c]
          BY <4>3
        <5> HIDE DEF c
        <5> QED BY <4>2, <5>1, <5>2
      <4> HIDE DEF Put
      <4>4. CASE \E r : Put("invoked", r)
        <5>1. cancels'[k].phase = "invoked" /\ \A j \in Turn : j # k => cancels'[j] = cancels[j]
          BY <4>3, <4>4
        <5> QED BY <5>1 DEF Undone
      <4>5. CASE \E r \in table : r.id = k /\ table' = table \ {r} /\ Put("cancelled", cancels[k].row)
        <5>1. \A j \in Turn : j # k => cancels'[j] = cancels[j]
          BY <4>3, <4>5
        <5>2. k \notin Ids(table')
          BY <4>5 DEF FitTable, Few, Ids
        <5>3. i # k
          BY <5>2
        <5> QED BY <5>1, <5>3 DEF Undone
      <4> QED BY <4>1, <4>4, <4>5
    <3> QED BY <3>1, <3>2, <3>3
  <2> QED BY <1>1, <1>7, <2>1, <2>2, <2>3, <2>4 DEF OnWay
<1>8. CASE i \notin Ids(table)
  <2>1. e.type = "invalidated" \/ (e.type = "received" /\ e.row.id = i)
    BY <1>8 DEF Writes
  <2> QED BY <1>6, <2>1 DEF OnWay
<1> QED BY <1>7, <1>8

LEMMA HandleCarries ==
    ASSUME Fits, FitInv, NEW s \in Stream, Handle(s), selected, NEW i \in Ids(table), OnWay(i)
    PROVE  OnWay(i)'
<1> USE DEF FitInv, ShowInv
<1> DEFINE n == stream[s].done + 1
           e == log[n]
           T == [up : BOOLEAN, done : Nat, cursor : Nat \cup {None}, epoch : Int]
<1>1. /\ n \in 1..Len(log) /\ n \in Nat /\ e.type \in EventType
      /\ stream \in [Stream -> T] /\ "session" \in Stream
  <2>1. e.type \in EventType
    BY ReceivedIs DEF Handle
  <2> QED BY <2>1, WindowAssumption DEF Handle, StreamsOk, LogOk
<1>2. /\ stream' = [stream EXCEPT ![s].done = n, ![s].cursor = n]
      /\ UNCHANGED <<table, log, read, forced, cancels>>
  BY DEF Handle, hubVars, readVars, userVars
<1>3. Keeping({})
  BY HandleFits
<1>4. /\ tasks # <<>> => tasks' # <<>>
      /\ e.type = "invalidated" => tasks' # <<>>
      /\ e.type = "received" /\ s = "session" => frame' = Append(frame, e.row)
  <2>1. CASE e.type = "received"
    <3>1. IF s = "session" \/ (selected /\ ~stream["session"].up) THEN Receive(e.row)
          ELSE UNCHANGED <<frame, w, tasks>>
      BY <2>1 DEF Handle
    <3>2. /\ tasks' \in {tasks, AddRefresh(tasks)}
          /\ s = "session" => frame' = Append(frame, e.row)
      BY <3>1 DEF Receive
    <3> QED BY <2>1, <3>2, TasksIs DEF TasksOk
  <2>2. CASE e.type \in {"consumed", "cancelled"}
    BY <2>2 DEF Handle
  <2>3. CASE e.type = "invalidated"
    <3>1. tasks' = Append(tasks, "wipe")
      BY <2>3 DEF Handle
    <3> QED BY <2>3, <3>1, TasksIs DEF TasksOk
  <2> QED BY <1>1, <2>1, <2>2, <2>3 DEF EventType
<1> HIDE DEF n, e
<1>5. Undone(i) => Undone(i)'
  BY <1>2 DEF Undone
<1>6. CASE s # "session"
  <2>1. stream'["session"] = stream["session"]
    BY <1>1, <1>2, <1>6
  <2>2. UNCHANGED <<log, read, forced>> /\ i \notin {}
    BY <1>2
  <2> QED BY <1>3, <1>4, <1>5, <2>1, <2>2, FitWayKept
<1>7. CASE s = "session"
  <2>1. stream'["session"].done = n /\ (stream'["session"].up <=> stream["session"].up)
    <3> DEFINE one == [stream EXCEPT ![s].done = n]
    <3>1. one \in [Stream -> T] /\ one["session"].done = n /\ (one["session"].up <=> stream["session"].up)
      BY <1>1, <1>7
    <3>2. stream' = [one EXCEPT ![s].cursor = n]
      BY <1>2
    <3> HIDE DEF one
    <3> QED BY <1>1, <1>7, <3>1, <3>2
  <2>2. Announced(i) => Announced(i)' \/ Shown(i)' \/ tasks' # <<>>
    <3> SUFFICES ASSUME Announced(i) PROVE Announced(i)' \/ Shown(i)' \/ tasks' # <<>>
      OBVIOUS
    <3>1. PICK m \in n..Len(log) :
             log[m].type = "invalidated" \/ (log[m].type = "received" /\ log[m].row.id = i)
      BY <1>7 DEF Announced, n
    <3>2. CASE m = n
      <4>1. e.type = "invalidated" \/ (e.type = "received" /\ e.row.id = i)
        BY <3>1, <3>2 DEF e
      <4>2. CASE e.type = "received" /\ e.row.id = i
        <5>1. frame' = Append(frame, e.row)
          BY <1>4, <1>7, <4>2
        <5>2. Len(frame') = Len(frame) + 1 /\ Len(frame) \in Nat /\ frame'[Len(frame) + 1] = e.row
          BY <5>1 DEF FrameOk
        <5>3. Len(frame) + 1 \in 1..Len(frame')
          BY <5>2
        <5> QED BY <4>2, <5>2, <5>3 DEF Shown, Queued
      <4> QED BY <1>4, <4>1, <4>2
    <3>3. CASE m # n
      <4>1. m \in (n + 1)..Len(log)
        BY <1>1, <3>1, <3>3
      <4>2. Announced(i)' \/ ~stream'["session"].up
        BY <1>2, <2>1, <3>1, <4>1 DEF Announced
      <4>3. stream["session"].up
        BY DEF Announced
      <4> QED BY <2>1, <4>2, <4>3
    <3> QED BY <3>2, <3>3
  <2>3. Shown(i) => Shown(i)'
    BY <1>3 DEF Keeping
  <2>4. Asked(i) => Asked(i)'
    BY <1>2 DEF Asked
  <2> QED BY <1>2, <1>4, <1>5, <2>1, <2>2, <2>3, <2>4 DEF OnWay
<1> QED BY <1>6, <1>7

LEMMA LandReadCarries ==
    ASSUME Fits, FitInv, LandRead, NEW i \in Ids(table), ~owed', ~owed => OnWay(i)
    PROVE  OnWay(i)'
<1>1. EndRead(ApplyLatest(w), FALSE) /\ read.phase = "served"
      /\ UNCHANGED <<table, log, stream, tasks, cancels>>
  BY DEF LandRead, hubVars, userVars
<1>2. CASE forced
  <2>1. BeginRead(w')
    BY <1>1, <1>2 DEF EndRead
  <2> QED BY <2>1, FitBegun
<1>3. CASE ~forced
  <2>1. owed' = (owed \/ FALSE)
    BY <1>1, <1>3 DEF EndRead
  <2>2. OnWay(i)
    BY <2>1
  <2>3. Shown(i) \/ Asked(i) => Shown(i)'
    BY <1>1, LandReadFits DEF Keeping, Asked
  <2>4. Announced(i) => Announced(i)'
    BY <1>1 DEF Announced
  <2>5. Undone(i) => Undone(i)'
    BY <1>1 DEF Undone
  <2> QED BY <1>1, <1>3, <2>2, <2>3, <2>4, <2>5 DEF OnWay
<1> QED BY <1>2, <1>3

LEMMA CarriedStep ==
    ASSUME Fits, FitInv, Carried, [Next]_vars
    PROVE  Carried'
<1> USE DEF FitInv, ShowInv, hubVars, userVars
<1> SUFFICES ASSUME selected', ~owed', NEW i \in Ids(table')
             PROVE  OnWay(i)'
  BY DEF Carried
<1>1. ASSUME selected, ~owed, i \in Ids(table) PROVE OnWay(i)
  BY <1>1 DEF Carried
<1>2. ASSUME HubWrites, NEW e, Writes(e) PROVE OnWay(i)'
  <2>1. UNCHANGED <<selected, owed>>
    BY <1>2 DEF HubWrites, Store, StoreElsewhere, Consume, CancelServed, Output, Insert, MoveIn, readVars
  <2> QED BY <1>1, <1>2, <2>1, WritesWay
<1>3. CASE HubRestart
  <2>1. stream' = [s \in Stream |-> [stream[s] EXCEPT !.up = FALSE, !.done = 0]] /\ "session" \in Stream
    BY <1>3, WindowAssumption DEF HubRestart
  <2>2. stream["session"] \in [up : BOOLEAN, done : Nat, cursor : Nat \cup {None}, epoch : Int]
    BY <2>1 DEF StreamsOk
  <2>3. ~stream'["session"].up
    BY <2>1, <2>2
  <2> QED BY <2>3 DEF OnWay
<1>4. ASSUME UNCHANGED <<table, log>>, ~HubRestart PROVE OnWay(i)'
  <2>0. i \in Ids(table)
    BY <1>4
  <2>1. ASSUME selected, ~owed PROVE OnWay(i)
    BY <1>1, <2>0, <2>1
  <2>2. ASSUME BeginRead(w') PROVE OnWay(i)'
    BY <2>2, FitBegun
  <2>3. CASE ServeRead
    <3>1. Newest(table, PageSize) = table
      BY Sizes, AllNewest, PresentIs DEF FitTable
    <3>2. read'.phase = "served" /\ Newest(table, PageSize) \subseteq read'.snap
      BY <2>3, ServedIs
    <3>3. i \in Ids(read'.snap)
      BY <2>0, <3>1, <3>2 DEF Ids
    <3> QED BY <3>2, <3>3 DEF OnWay, Asked
  <2>4. CASE LandRead
    <3>1. UNCHANGED selected
      BY <2>4 DEF LandRead
    <3> QED BY <2>0, <2>1, <2>4, <3>1, LandReadCarries
  <2>5. CASE FailRead
    <3>1. EndRead(w, TRUE)
      BY <2>5 DEF FailRead
    <3>2. BeginRead(w')
      BY <3>1 DEF EndRead
    <3> QED BY <2>2, <3>2
  <2>6. CASE LandPage \/ ServePage \/ FailPage
    BY <2>6 DEF LandPage, ServePage, FailPage, NoPage
  <2>7. CASE RunTask /\ Wipe
    <3>1. BeginRead(w')
      BY <2>7 DEF Wipe
    <3> QED BY <2>2, <3>1
  <2>8. ASSUME NEW L, Keeping(L), i \notin L, UNCHANGED <<log, read, forced>>, ~owed,
               stream'["session"] = stream["session"], selected,
               tasks # <<>> => tasks' # <<>>, Undone(i) => Undone(i)'
        PROVE  OnWay(i)'
    BY <2>0, <2>1, <2>8, FitWayKept
  <2>9. ASSUME Keeping({}), UNCHANGED <<log, read, forced, owed, cancels, selected, tasks>>,
               stream'["session"] = stream["session"]
        PROVE  OnWay(i)'
    <3>1. Undone(i) => Undone(i)'
      BY <2>9 DEF Undone
    <3>2. i \notin {}
      OBVIOUS
    <3> QED BY <2>8, <2>9, <3>1, <3>2
  <2>10. tasks \in Seq({"refresh", "wipe"}) /\ "session" \in Stream
    BY WindowAssumption DEF TasksOk
  <2>11. CASE StrayLands
    <3>1. ~forced
      BY <2>11 DEF StrayLands
    <3>2. UNCHANGED <<log, read, forced, owed, cancels, selected, tasks, stream>>
      BY <2>11, <3>1 DEF StrayLands
    <3> QED BY <2>9, <2>11, <3>2, RefreshKeeps
  <2>12. CASE RunTask /\ Refresh
    <3>1. CASE reconciling.on
      <4>1. "forced" \in reconciling.by /\ forced' = forced
        BY <2>12, <3>1 DEF Refresh
      <4> QED BY <4>1 DEF RefreshOk, OnWay
    <3>2. CASE ~reconciling.on /\ read.phase # "idle"
      <4>1. forced'
        BY <2>12, <3>2 DEF Refresh
      <4> QED BY <4>1 DEF OnWay
    <3>3. CASE ~reconciling.on /\ read.phase = "idle"
      <4>1. BeginRead(w')
        BY <2>12, <3>3 DEF Refresh
      <4> QED BY <2>2, <4>1
    <3> QED BY <3>1, <3>2, <3>3
  <2>13. CASE Probe
    <3>1. tasks' # <<>>
      BY <2>10, <2>13, TasksIs DEF Probe
    <3> QED BY <3>1 DEF OnWay
  <2>14. CASE FlushFrame
    BY <2>9, <2>14, RefreshKeeps DEF FlushFrame, readVars
  <2>15. ASSUME NEW s \in Stream, Connect(s) PROVE OnWay(i)'
    <3>1. tasks' # <<>>
      BY <2>10, <2>15, TasksIs DEF Connect, RefreshOnConnect
    <3> QED BY <3>1 DEF OnWay
  <2>16. ASSUME NEW s \in Stream, Break(s) PROVE OnWay(i)'
    <3> DEFINE T == [up : BOOLEAN, done : Nat, cursor : Nat \cup {None}, epoch : Int]
               t == [stream[s] EXCEPT !.up = FALSE, !.done = 0]
    <3>1. stream \in [Stream -> T] /\ stream' = [stream EXCEPT ![s] = t] /\ ~t.up
      BY <2>16 DEF StreamsOk, Break
    <3> HIDE DEF t, T
    <3>2. CASE s = "session"
      <4>1. stream'["session"] = t
        BY <2>10, <3>1, <3>2
      <4> QED BY <3>1, <4>1 DEF OnWay
    <3>3. CASE s # "session"
      <4>1. stream'["session"] = stream["session"]
        BY <2>10, <3>1, <3>3
      <4>2. UNCHANGED <<w, frame, log, read, forced, owed, cancels, selected, tasks>>
        BY <2>16 DEF Break, readVars
      <4>3. Keeping({})
        BY <4>2, KeepingSame
      <4> QED BY <2>9, <4>1, <4>2, <4>3
    <3> QED BY <3>2, <3>3
  <2>17. ASSUME NEW s \in Stream, Handle(s) PROVE OnWay(i)'
    <3>1. UNCHANGED <<selected, owed>>
      BY <2>17 DEF Handle, readVars
    <3> QED BY <2>0, <2>1, <2>17, <3>1, HandleCarries
  <2>18. ASSUME NEW kind \in {"older", "newer"}, AskPage(kind) PROVE FALSE
    BY <2>18, AskNever
  <2>19. CASE ScrollAway
    BY <2>9, <2>19, ToEndFits DEF ScrollAway, readVars
  <2>20. CASE ToBottom
    <3>1. ReadUnlessReading(w') \/ UNCHANGED <<read, page, owed>>
      BY <2>20 DEF ToBottom
    <3>2. UNCHANGED <<log, forced, stream, selected, tasks, cancels>>
      BY <2>20 DEF ToBottom
    <3>3. CASE UNCHANGED <<read, page, owed>>
      BY <2>9, <2>20, <3>2, <3>3, ToEndFits
    <3>4. CASE ReadUnlessReading(w')
      <4>1. BeginRead(w')
        BY <3>4 DEF ReadUnlessReading
      <4> QED BY <2>2, <4>1
    <3> QED BY <3>1, <3>3, <3>4
  <2>21. ~Leave
    BY DEF Leave
  <2>22. CASE Return
    <3>1. BeginRead(w')
      BY <2>22 DEF Return, ReadUnlessReading
    <3> QED BY <2>2, <3>1
  <2>23. ASSUME NEW k \in Turn, Send(k) \/ Answer(k) PROVE OnWay(i)'
    BY <2>9, <2>23, SendFits, AnswerFits DEF Send, Answer, readVars
  <2>24. ASSUME NEW k \in Turn, FailPost(k) PROVE OnWay(i)'
    <3>1. w' = Without(Flushed, {k, -k}) /\ owed' = (owed \/ k \in Ids(table))
          /\ UNCHANGED <<log, stream, read, forced, tasks, selected, cancels>>
      BY <2>24 DEF FailPost
    <3>2. Keeping({k})
      BY <3>1, TakenOut
    <3>3. i \notin {k} /\ ~owed
      BY <2>0, <3>1
    <3>4. Undone(i) => Undone(i)'
      BY <3>1 DEF Undone
    <3> QED BY <2>8, <3>1, <3>2, <3>3, <3>4
  <2>25. ASSUME NEW k \in Turn, CancelClick(k) PROVE OnWay(i)'
    <3>1. w' = Without(Flushed, {k, -k})
          /\ UNCHANGED <<log, stream, read, forced, tasks, selected, owed>>
      BY <2>25 DEF CancelClick, readVars
    <3>2. Keeping({k})
      BY <3>1, TakenOut
    <3>3. cancels'[k].phase = "asked" /\ \A j \in Turn : j # k => cancels'[j] = cancels[j]
      <4>1. PICK r : cancels' = [cancels EXCEPT ![k] = [phase |-> "asked", row |-> r]]
        BY <2>25 DEF CancelClick
      <4>2. PICK S : cancels \in [Turn -> S]
        BY DEF CancelsOk
      <4> QED BY <4>1, <4>2
    <3>4. i = k => Undone(i)'
      BY <3>3 DEF Undone
    <3>5. i # k => (Undone(i) => Undone(i)')
      BY <3>3 DEF Undone
    <3>6. i = k => OnWay(i)'
      BY <3>4 DEF OnWay
    <3>7. i # k => i \notin {k}
      OBVIOUS
    <3> QED BY <2>8, <3>1, <3>2, <3>5, <3>6, <3>7
  <2>26. ASSUME NEW k \in Turn, CancelAnswer(k) \/ CancelFails(k) PROVE OnWay(i)'
    <3>1. UNCHANGED <<log, stream, read, forced, tasks, selected, owed>>
      BY <2>26 DEF CancelAnswer, CancelFails, readVars
    <3>2. Keeping({}) /\ (Shown(k)' \/ cancels[k].phase = "cancelled")
      BY <2>26, CancelFits
    <3>3. cancels[k].phase = "cancelled" => k \notin Ids(table)
      BY DEF FitCancels, Pending
    <3>4. i = k => Shown(i)'
      BY <2>0, <3>2, <3>3
    <3>5. i = k => OnWay(i)'
      BY <3>4 DEF OnWay
    <3>6. \A j \in Turn : j # k => cancels'[j] = cancels[j]
      <4>1. cancels' = [cancels EXCEPT ![k] = Over]
        BY <2>26 DEF CancelAnswer, CancelFails
      <4>2. PICK S : cancels \in [Turn -> S]
        BY DEF CancelsOk
      <4> QED BY <4>1, <4>2
    <3>7. i # k => (Undone(i) => Undone(i)')
      BY <3>6 DEF Undone
    <3>8. i \notin {}
      OBVIOUS
    <3> QED BY <2>8, <3>1, <3>2, <3>5, <3>7, <3>8
  <2>27. CASE UNCHANGED vars
    <3>1. UNCHANGED <<w, frame, log, read, forced, owed, cancels, selected, tasks, stream>>
      BY <2>27 DEF vars, readVars
    <3>2. Keeping({})
      BY <3>1, KeepingSame
    <3> QED BY <2>9, <3>1, <3>2
  <2>28. RunTask => Refresh \/ Wipe
    BY DEF RunTask
  <2>29. ASSUME NEW k \in Turn, CancelServed(k) PROVE OnWay(i)'
    <3>1. UNCHANGED <<w, frame, log, read, forced, owed, selected, tasks, stream, table>>
      BY <1>4, <2>29 DEF CancelServed, readVars
    <3>2. Keeping({}) /\ i \notin {}
      BY <3>1, KeepingSame
    <3>3. \E r : cancels' = [cancels EXCEPT ![k] = [phase |-> "invoked", row |-> r]]
      <4>1. ASSUME NEW r \in table, table' = table \ {r} PROVE FALSE
        BY <3>1, <4>1
      <4> QED BY <2>29, <4>1 DEF CancelServed
    <3>4. PICK r : cancels' = [cancels EXCEPT ![k] = [phase |-> "invoked", row |-> r]]
      BY <3>3
    <3>5. PICK S : cancels \in [Turn -> S]
      BY DEF CancelsOk
    <3>6. cancels'[k].phase = "invoked" /\ \A j \in Turn : j # k => cancels'[j] = cancels[j]
      BY <3>4, <3>5
    <3>7. Undone(i) => Undone(i)'
      BY <3>6 DEF Undone
    <3> QED BY <2>8, <3>1, <3>2, <3>7
  <2>30. ASSUME (\E k \in Turn : Store(k) \/ StoreElsewhere(k) \/ Consume(k)) \/ Output \/ MoveIn
         PROVE  FALSE
    <3>1. PICK type, r : Tell(type, r)
      BY <2>30 DEF Store, StoreElsewhere, Consume, Output, MoveIn, Insert, Invoke
    <3>2. Len(log') = Len(log) + 1 /\ Len(log) \in Nat
      BY <3>1 DEF Tell, LogOk
    <3> QED BY <1>4, <3>2
  <2> QED
    BY <1>4, <2>3, <2>4, <2>5, <2>6, <2>7, <2>11, <2>12, <2>13, <2>14, <2>15, <2>16, <2>17, <2>18,
       <2>19, <2>20, <2>21, <2>22, <2>23, <2>24, <2>25, <2>26, <2>27, <2>28, <2>29, <2>30 DEF Next
<1> QED BY <1>2, <1>3, <1>4, HubFits

LEMMA FitCarriedInitially ==
    ASSUME Init
    PROVE  Carried
<1>1. read.phase = "asked"
  BY DEF Init, NoRead
<1> QED BY <1>1 DEF Carried, OnWay, Asked

\* At rest nothing but the window can have the rows.
LEMMA FitShows ==
    ASSUME FitInv, Carried
    PROVE  WholeUnlessOwed
<1> USE DEF FitInv, ShowInv
<1> SUFFICES ASSUME Quiet, ~owed, NEW r \in table
             PROVE  Reachable(r)
  BY DEF WholeUnlessOwed
<1>1. r.id \in Ids(table)
  BY DEF Ids
<1>2. OnWay(r.id)
  BY <1>1 DEF Carried, Quiet
<1>3. stream["session"].up /\ stream["session"].done = Len(log) /\ tasks = <<>> /\ frame = <<>>
      /\ read.phase = "idle"
  BY WindowAssumption DEF Quiet
<1>4. ~Announced(r.id)
  <2>1. Len(log) \in Nat
    BY DEF LogOk
  <2>2. (Len(log) + 1)..Len(log) = {}
    BY <2>1
  <2> QED BY <1>3, <2>2 DEF Announced
<1>5. ~Asked(r.id) /\ ~forced
  BY <1>3 DEF Asked, RefreshOk
<1>6. ~Undone(r.id)
  BY DEF Undone, Quiet
<1>7. ~Queued(r.id)
  BY <1>3, FewFrame
<1>8. r.id \in Has(w)
  BY <1>2, <1>3, <1>4, <1>5, <1>6, <1>7 DEF OnWay, Shown
<1> QED BY <1>8 DEF Reachable, Has

\* In a session that fits on a page, a browser at rest shows every row of the
\* hub, or keeps it back: whatever broke, restarted or failed, and in whatever
\* order the events of two streams, latest pages and the answers of POSTs and
\* cancels came, unless the last refresh the app asked for came to nothing
\* (WholeUnlessOwed).
THEOREM WholeIfItFits ==
    ASSUME Fits
    PROVE  Spec => []WholeUnlessOwed
<1>1. Init => FitInv /\ Carried
  BY FitInitially, FitCarriedInitially
<1>2. FitInv /\ Carried /\ [Next]_vars => (FitInv /\ Carried)'
  BY FitStep, CarriedStep
<1>3. FitInv /\ Carried => WholeUnlessOwed
  BY FitShows
<1> QED BY <1>1, <1>2, <1>3, PTL DEF Spec

\* Its thread never shows two rows for one turn (TurnShownOnce): no page beside
\* the latest is ever asked for.
THEOREM ShownOnceIfItFits ==
    ASSUME Fits
    PROVE  Spec => []TurnShownOnce
<1>1. Init => FitInv
  BY FitInitially
<1>2. FitInv /\ [Next]_vars => FitInv'
  BY FitStep
<1>3. FitInv => TurnShownOnce
  BY DEF FitInv, ShowInv, WindowOk, WindowOf, Single, TurnShownOnce
<1> QED BY <1>1, <1>2, <1>3, PTL DEF Spec

-----------------------------------------------------------------------------
(* Its invoked turns.                                                      *)

\* A turn of which the POST was answered is not taken for another one: no two
\* are sent within ten seconds, or there is one at most.
Alone == Close => MaxTurns <= 1

\* Every turn that R shows as invoked is shown so by S.
ShowsInvoked(R, k) == \E r \in R : IsUser(r) /\ Local(r) = k /\ r.inv
Remembers(R, S) == \A k : ShowsInvoked(R, k) => ShowsInvoked(S, k)

LEMMA ByIdRemembers ==
    ASSUME NEW P, NEW E, NEW I, RowsOf(E, P), RowsOf(I, P), Distinct(E)
    PROVE  Remembers(E, ById(E, I))
<1> SUFFICES ASSUME NEW e \in E, IsUser(e), e.inv
             PROVE  ShowsInvoked(ById(E, I), Local(e))
  BY DEF Remembers, ShowsInvoked
<1>1. CASE e.id \notin Ids(I)
  <2>1. e \in ById(E, I)
    BY <1>1 DEF ById
  <2> QED BY <2>1 DEF ShowsInvoked
<1>2. CASE e.id \in Ids(I)
  <2> DEFINE same(i) == {d \in E : d.id = i.id}
             F(i) == IF same(i) = {} THEN i ELSE Newer(CHOOSE d \in same(i) : TRUE, i)
  <2>1. PICK i \in I : i.id = e.id
    BY <1>2 DEF Ids
  <2>2. F(i) \in ById(E, I)
    BY DEF ById
  <2>3. e \in same(i) /\ \A d \in same(i) : d = e
    BY <2>1 DEF Distinct
  <2> HIDE DEF same
  <2>4. F(i) = Newer(e, i)
    BY <2>3
  <2>5. IsRow(F(i)) /\ F(i).id = e.id /\ F(i).inv
    <3>1. IsRow(i)
      BY DEF RowsOf
    <3> QED BY <2>1, <2>4, <3>1, NewerIs
  <2> HIDE DEF F
  <2>6. Local(F(i)) = Local(e) /\ IsUser(F(i))
    BY <2>5, SameTurn
  <2> QED BY <2>2, <2>5, <2>6 DEF ShowsInvoked
<1> QED BY <1>1, <1>2

\* Settling gives up optimistic copies of turns of which the stored row is there
\* and takes over what they knew.
LEMMA SettleRemembers ==
    ASSUME Alone, NEW P \in SUBSET Turn, NEW B, NEW T, RowsOf(B, P), Distinct(B), PairsAreIn(B, T),
           \A k \in T : k \in Turn => k \in Ids(B)
    PROVE  Remembers(B, Settle(B, T))
<1> DEFINE gone == {r \in B : IsOptimistic(r) /\ Local(r) \in T}
           F(r) == IF \E o \in gone : Local(o) = Local(r)
                   THEN Adopt(r, CHOOSE o \in gone : Local(o) = Local(r))
                   ELSE r
           kept == {F(r) : r \in B \ gone}
           M == Settle(B, T)
<1>1. \A r \in B : IsRow(r) /\ r.id \in Int
  BY DEF RowsOf, IsRow
<1>2. ASSUME NEW r \in B
      PROVE  IsRow(F(r)) /\ F(r).id = r.id /\ (r.inv => F(r).inv)
  <2>1. ASSUME NEW o
        PROVE  IsRow(Adopt(r, o)) /\ Adopt(r, o).id = r.id /\ ((r.inv \/ o.inv) => Adopt(r, o).inv)
    BY <1>1, AdoptIs
  <2> QED BY <1>1, <2>1
<1>3. M = {m \in kept : IsOptimistic(m) /\ m.sent /\ Close =>
                           ~\E q \in kept : IsUser(q) /\ ~IsOptimistic(q)}
  BY DEF Settle
<1>4. \A r \in B : r \in gone <=> IsOptimistic(r) /\ Local(r) \in T
  OBVIOUS
<1>5. \A m \in kept : \E r \in B \ gone : m = F(r)
  OBVIOUS
<1>6. \A r \in B \ gone : F(r) \in kept
  OBVIOUS
<1>7. ASSUME NEW r \in B \ gone, IsUser(r)
      PROVE  F(r) \in M
  <2>1. IsRow(F(r)) /\ F(r).id = r.id /\ F(r) \in kept
    BY <1>2, <1>6
  <2> HIDE DEF F, kept, gone, M
  <2>2. ASSUME IsOptimistic(F(r)), Close, NEW q \in kept, IsUser(q), ~IsOptimistic(q)
        PROVE  FALSE
    <3>1. PICK b \in B \ gone : q = F(b)
      BY <1>5
    <3>2. q.id = b.id /\ b.id \in Int /\ r.id \in Int
      BY <1>1, <1>2, <3>1
    <3>3. IsUser(b) /\ ~IsOptimistic(b) /\ IsOptimistic(r)
      BY <2>1, <2>2, <3>2, SameTurn
    <3>4. Local(b) \in Turn /\ Local(r) \in Turn
      BY <1>7, <3>3 DEF RowsOf
    <3>5. b.id > 0 /\ r.id < 0
      BY <3>2, <3>3, LocalIs DEF IsOptimistic
    <3>6. Local(b) = b.id /\ Local(r) = -r.id
      BY <3>2, <3>3, <3>5, LocalIs
    <3>7. Local(b) = 1 /\ Local(r) = 1
      BY <2>2, <3>4, WindowAssumption DEF Alone, Turn
    <3>8. b.id \in Turn /\ r.id = -b.id
      BY <3>2, <3>4, <3>6, <3>7
    <3>9. b.id \in T
      BY <3>8 DEF PairsAreIn
    <3> QED BY <1>4, <3>3, <3>6, <3>7, <3>9
  <2> QED BY <1>3, <2>1, <2>2
<1>8. ASSUME NEW r \in gone, r.inv
      PROVE  ShowsInvoked(M, Local(r))
  <2>1. IsOptimistic(r) /\ Local(r) \in T /\ r.id < 0 /\ r.id \in Int /\ r \in B
    BY <1>1, <1>4 DEF IsOptimistic
  <2>2. IsUser(r) /\ Local(r) = -r.id
    BY <2>1, LocalIs
  <2>3. Local(r) \in Turn
    BY <2>1, <2>2 DEF RowsOf
  <2>4. PICK q \in B : q.id = Local(r)
    BY <2>1, <2>3 DEF Ids
  <2>5. q.id > 0 /\ q.id \in Int /\ IsUser(q) /\ Local(q) = Local(r) /\ ~IsOptimistic(q)
    BY <2>3, <2>4, LocalIs, WindowAssumption DEF Turn
  <2>6. q \in B \ gone
    BY <1>4, <2>5
  <2>7. \A o \in gone : Local(o) = Local(q) => o = r
    <3> SUFFICES ASSUME NEW o \in gone, Local(o) = Local(q) PROVE o = r
      OBVIOUS
    <3>1. o \in B /\ o.id < 0 /\ o.id \in Int
      BY <1>1, <1>4 DEF IsOptimistic
    <3>2. IsUser(o) /\ Local(o) = -o.id
      BY <3>1, LocalIs
    <3>3. o.id = r.id
      BY <2>1, <2>2, <2>5, <3>1, <3>2
    <3> QED BY <2>1, <3>1, <3>2, <3>3 DEF Distinct
  <2>8. F(q) = Adopt(q, r)
    <3>1. r \in gone /\ Local(r) = Local(q)
      BY <2>5
    <3>2. (CHOOSE o \in gone : Local(o) = Local(q)) = r
      BY <2>7, <3>1
    <3> QED BY <3>1, <3>2
  <2>9. F(q) \in M
    BY <1>7, <2>5, <2>6
  <2>10. F(q).inv /\ F(q).id = q.id
    BY <1>1, <1>8, <2>8, AdoptIs
  <2> HIDE DEF F, M
  <2>11. IsUser(F(q)) /\ Local(F(q)) = Local(r)
    BY <2>5, <2>10, SameTurn
  <2> QED BY <2>9, <2>10, <2>11 DEF ShowsInvoked
<1>9. ASSUME NEW r \in B \ gone, IsUser(r), r.inv
      PROVE  ShowsInvoked(M, Local(r))
  <2>1. F(r) \in M /\ F(r).id = r.id /\ F(r).inv
    BY <1>2, <1>7, <1>9
  <2> HIDE DEF F, M
  <2>2. IsUser(F(r)) /\ Local(F(r)) = Local(r)
    BY <1>9, <2>1, SameTurn
  <2> QED BY <2>1, <2>2 DEF ShowsInvoked
<1> HIDE DEF M
<1>10. Remembers(B, M)
  BY <1>8, <1>9 DEF Remembers, ShowsInvoked
<1> QED BY <1>10 DEF M

LEMMA RemembersOn ==
    ASSUME NEW R, NEW S, NEW U, Remembers(R, S), Remembers(S, U)
    PROVE  Remembers(R, U)
BY DEF Remembers

\* Joining loses no row by its id.
LEMMA JoinedIds ==
    ASSUME NEW P, NEW E, NEW I, RowsOf(I, P)
    PROVE  Ids(E) \cup Ids(I) \subseteq Ids(ById(E, I))
<1> DEFINE F(i) == LET same == {e \in E : e.id = i.id} IN
                   IF same = {} THEN i ELSE Newer(CHOOSE e \in same : TRUE, i)
<1>1. ById(E, I) = {e \in E : e.id \notin Ids(I)} \cup {F(i) : i \in I}
  BY DEF ById
<1>2. \A i \in I : F(i).id = i.id
  BY NewerIs DEF RowsOf
<1> HIDE DEF F
<1> QED BY <1>1, <1>2 DEF Ids

LEMMA LocalsStored ==
    ASSUME NEW P, NEW I, RowsOf(I, P), NEW k \in StoredLocals(I)
    PROVE  k \in Ids(I)
<1>1. PICK i \in I : IsUser(i) /\ ~IsOptimistic(i) /\ k = Local(i)
  BY DEF StoredLocals
<1>2. i.id \in Int /\ i.id > 0
  <2>1. i.id \in Int
    BY DEF RowsOf, IsRow
  <2> QED BY <1>1, <2>1, LocalIs DEF IsOptimistic
<1> QED BY <1>1, <1>2, LocalIs DEF Ids

LEMMA MergeRemembers ==
    ASSUME Alone, NEW P \in SUBSET Turn, NEW E, NEW I, RowsOf(E, P), RowsOf(I, P),
           Single(E), Single(I), Stored(I)
    PROVE  Remembers(E, MergeRows(E, I))
<1>1. CASE I = {}
  BY <1>1 DEF MergeRows, Remembers
<1>2. CASE I # {}
  <2> DEFINE B == ById(E, I)
             T == StoredLocals(I)
  <2>1. RowsOf(B, P) /\ Distinct(B) /\ PairsAreIn(B, T)
    BY JoinedIs
  <2>2. Remembers(E, B)
    BY SingleDistinct, ByIdRemembers
  <2>3. Ids(I) \subseteq Ids(B)
    BY JoinedIds
  <2>4. \A k \in T : k \in Ids(I)
    BY LocalsStored
  <2>5. MergeRows(E, I) = Settle(B, T)
    BY <1>2 DEF MergeRows
  <2> HIDE DEF B, T
  <2>6. Remembers(B, Settle(B, T))
    BY <2>1, <2>3, <2>4, SettleRemembers
  <2> QED BY <2>2, <2>5, <2>6, RemembersOn
<1> QED BY <1>1, <1>2

\* The threads that the window's operations leave.
LEMMA AppendThread ==
    ASSUME Fits, NEW P \in SUBSET EveryId, NEW v, Small(v, P), NEW rows, Few(rows, P)
    PROVE  Append2(v, rows).msgs = MergeRows(v.msgs, rows)
<1> DEFINE merged == MergeRows(v.msgs, rows)
           u == AppendTrim(v, merged)
           p == {r \in v.pending : r.id \notin Ids(u.msgs)}
           t == [u EXCEPT !.pending = p]
<1>1. Few(merged, P)
  BY MergeFew DEF Small
<1> HIDE DEF merged
<1>2. IsWindow(u) /\ u.msgs = merged
  BY <1>1, SmallTrim DEF Small
<1>3. Append2(v, rows) = Build(t)
  BY DEF Append2, u, merged, t, p
<1> HIDE DEF u, p
<1>4. IsWindow(t) /\ t.msgs = u.msgs
  BY <1>2, PendingSet
<1> HIDE DEF t
<1> QED BY <1>2, <1>3, <1>4, BuildIs DEF merged

LEMMA PendingThread ==
    ASSUME NEW v, IsWindow(v), NEW rows
    PROVE  IntoPending(v, rows).msgs = v.msgs
<1> DEFINE all == {r \in MergeRows(v.pending, rows) : r.id \notin Ids(v.msgs)}
           kept == Newest(all, PendingSize)
           b == v.spilled \/ all # kept
           t == [v EXCEPT !.pending = kept, !.spilled = b]
<1>1. IntoPending(v, rows) = IF rows = {} THEN v ELSE Build(t)
  BY DEF IntoPending
<1> HIDE DEF kept, b
<1>2. \A q, c : LET u == [v EXCEPT !.pending = q, !.spilled = c] IN
                IsWindow(u) /\ u.msgs = v.msgs /\ u.pending = q /\ (u.hasNewer <=> v.hasNewer)
                /\ (u.hasMore <=> v.hasMore) /\ u.spilled = c
  BY SpilledSet
<1>3. IsWindow(t) /\ t.msgs = v.msgs
  BY <1>2
<1> HIDE DEF t
<1> QED BY <1>1, <1>3, BuildIs

\* A window of a session that fits, and one that shows as invoked what window v does.
Fitting(v) == WindowOf(v, Posted) /\ Small(v, Present)
Follows(v, u) == Fitting(u) /\ Remembers(v.msgs, u.msgs)

LEMMA FollowsOn ==
    ASSUME NEW v, NEW u, NEW t, Follows(v, u), Follows(u, t)
    PROVE  Follows(v, t)
BY RemembersOn DEF Follows

LEMMA SameThread ==
    ASSUME NEW v, NEW u, u.msgs = v.msgs, Fitting(u)
    PROVE  Follows(v, u)
BY DEF Follows, Remembers

LEMMA BuildFollows ==
    ASSUME NEW v, Fitting(v)
    PROVE  Follows(v, Build(v))
<1>1. WindowOf(Build(v), Posted)
  BY BuildOk DEF Fitting
<1>2. Small(Build(v), Present) /\ Build(v).msgs = v.msgs
  BY SmallBuild DEF Fitting, Gets
<1> QED BY <1>1, <1>2, SameThread DEF Fitting

LEMMA AppendFollows ==
    ASSUME Fits, Alone, NEW v, Fitting(v), NEW rows, FromHub(rows), Single(rows), Few(rows, Present)
    PROVE  Follows(v, Append2(v, rows))
<1>1. WindowOf(Append2(v, rows), Posted)
  BY AppendOk DEF Follows, Fitting, FromHub
<1>2. Small(Append2(v, rows), Present)
  BY PresentIs, SmallAppend DEF Follows, Fitting, Gets
<1>3. Append2(v, rows).msgs = MergeRows(v.msgs, rows)
  BY PresentIs, AppendThread DEF Follows, Fitting
<1>4. Posted \subseteq Turn
  BY DEF Posted
<1>5. Remembers(v.msgs, MergeRows(v.msgs, rows))
  BY <1>4, MergeRemembers DEF Follows, Fitting, WindowOf, FromHub
<1> QED BY <1>1, <1>2, <1>3, <1>5 DEF Follows, Fitting

LEMMA PendingFollows ==
    ASSUME Fits, NEW v, Fitting(v), NEW rows, FromHub(rows), Single(rows), Few(rows, Present)
    PROVE  Follows(v, IntoPending(v, rows))
<1>1. WindowOf(IntoPending(v, rows), Posted)
  BY IntoPendingOk DEF Follows, Fitting, FromHub
<1>2. Small(IntoPending(v, rows), Present)
  BY PresentIs, SmallPending DEF Follows, Fitting, Gets
<1>3. IntoPending(v, rows).msgs = v.msgs
  BY PendingThread DEF Follows, Fitting, Small
<1> QED BY <1>1, <1>2, <1>3, SameThread DEF Fitting

LEMMA IngestFollows ==
    ASSUME Fits, Alone, NEW v, Fitting(v), NEW rows, FromHub(rows), Single(rows), Few(rows, Present)
    PROVE  Follows(v, Ingest(v, rows))
<1> DEFINE shown == {r \in rows : \/ r.id \in Ids(v.msgs)
                                  \/ IsUser(r) /\ Local(r) \in {Local(m) : m \in v.msgs}}
           turns == {r \in rows : IsUser(r)}
           output == rows \ turns
           rest == rows \ shown
           late == v.hasNewer \/ (~v.atBottom /\ Cardinality(v.msgs) + Cardinality(rest) > WindowSize)
           m == MergeRows(v.msgs, shown)
           t == [v EXCEPT !.msgs = m]
           back == IF output = {} THEN v ELSE Append2(v, output)
<1>1. Ingest(v, rows) = IF late THEN IntoPending(Build(t), rest)
                        ELSE IF v.atBottom THEN Append2(v, rows)
                        ELSE IntoPending(back, turns)
  BY DEF Ingest
<1>2. shown \in SUBSET rows /\ rest \in SUBSET rows /\ turns \in SUBSET rows /\ output \in SUBSET rows
  OBVIOUS
<1> HIDE DEF shown, turns, output, rest, late
<1>3. \A R \in SUBSET rows : FromHub(R) /\ Single(R) /\ Few(R, Present)
  BY Fewer, FewLess DEF FromHub
<1>4. Follows(v, t)
  <2>1. RowsOf(m, Posted) /\ Single(m)
    BY <1>2, <1>3, MergeIs DEF Follows, Fitting, WindowOf, FromHub
  <2>2. Few(m, Present)
    BY <1>2, <1>3, MergeFew DEF Follows, Fitting, Small
  <2>3. Posted \subseteq Turn
    BY DEF Posted
  <2>4. Remembers(v.msgs, m)
    BY <1>2, <1>3, <2>3, MergeRemembers DEF Follows, Fitting, WindowOf, FromHub
  <2> HIDE DEF m
  <2>5. IsWindow(t) /\ t.msgs = m /\ t.pending = v.pending /\ (t.hasNewer <=> v.hasNewer)
        /\ (t.hasMore <=> v.hasMore) /\ (t.spilled <=> v.spilled)
    BY ThreadSet DEF Follows, Fitting, Small
  <2> HIDE DEF t
  <2> QED BY <2>1, <2>2, <2>4, <2>5 DEF Follows, Fitting, WindowOf, Small
<1> HIDE DEF t
<1>5. Fitting(t)
  BY <1>4 DEF Follows, Fitting
<1>6. Follows(t, Build(t)) /\ Fitting(Build(t))
  BY <1>5, BuildFollows DEF Follows, Fitting
<1>7. Follows(Build(t), IntoPending(Build(t), rest))
  BY <1>2, <1>3, <1>6, PendingFollows
<1>8. Follows(v, IntoPending(Build(t), rest))
  BY <1>4, <1>6, <1>7, FollowsOn
<1>9. Follows(v, Append2(v, rows))
  BY AppendFollows
<1>10. Follows(v, back)
  <2>1. Follows(v, v)
    BY SameThread
  <2> QED BY <1>2, <1>3, <2>1, AppendFollows
<1> HIDE DEF back
<1>11. Fitting(back)
  BY <1>10 DEF Follows, Fitting
<1>12. Follows(v, IntoPending(back, turns))
  BY <1>2, <1>3, <1>10, <1>11, PendingFollows, FollowsOn
<1> QED BY <1>1, <1>8, <1>9, <1>12

LEMMA MappedRemembers ==
    ASSUME NEW R, NEW f, \A r \in R : f[r].id = r.id /\ (r.inv => f[r].inv)
    PROVE  Remembers(R, {f[r] : r \in R})
<1> SUFFICES ASSUME NEW r \in R, IsUser(r), r.inv
             PROVE  ShowsInvoked({f[q] : q \in R}, Local(r))
  BY DEF Remembers, ShowsInvoked
<1>1. f[r] \in {f[q] : q \in R} /\ f[r].id = r.id /\ f[r].inv
  OBVIOUS
<1>2. IsUser(f[r]) /\ Local(f[r]) = Local(r)
  BY <1>1, SameTurn
<1> QED BY <1>1, <1>2 DEF ShowsInvoked

LEMMA ConsumedFollows ==
    ASSUME Fits, Alone, NEW v, Fitting(v), NEW k, NEW at
    PROVE  Follows(v, Consumed(v, k, at))
<1> DEFINE x(r) == IF r.inv THEN r.at ELSE at
           g(r) == IF Local(r) = k THEN [r EXCEPT !.sent = TRUE, !.inv = TRUE, !.at = x(r)] ELSE r
           upd(R) == {g(r) : r \in R}
           moved == {r \in upd(v.pending) : Local(r) = k /\ r.at = at}
           rest == upd(v.pending) \ moved
           p == MergeRows({}, rest)
           m == MergeRows(upd(v.msgs), moved)
           t == [v EXCEPT !.pending = p]
           u == AppendTrim(t, m)
<1>0. Fitting(Consumed(v, k, at))
  BY PresentIs, ConsumedOk, SmallConsumed DEF Fitting, Gets
<1>1. ASSUME NEW R, RowsOf(R, Posted)
      PROVE  /\ RowsOf(upd(R), Posted) /\ Remembers(R, upd(R))
             /\ Single(R) => Single(upd(R))
             /\ Stored(R) => Stored(upd(R))
             /\ Few(R, Present) => Few(upd(R), Present)
  <2> DEFINE f == [r \in R |-> g(r)]
  <2>1. \A r \in R : IsRow(g(r)) /\ g(r).id = r.id /\ (r.inv => g(r).inv)
    <3> SUFFICES ASSUME NEW r \in R PROVE IsRow(g(r)) /\ g(r).id = r.id /\ (r.inv => g(r).inv)
      OBVIOUS
    <3>1. IsRow(r)
      BY <1>1 DEF RowsOf
    <3> HIDE DEF x
    <3>2. LET q == [r EXCEPT !.sent = TRUE, !.inv = TRUE, !.at = x(r)] IN IsRow(q) /\ q.id = r.id /\ q.inv
      BY <3>1, Changed
    <3> QED BY <3>1, <3>2
  <2> HIDE DEF g
  <2>2. \A r \in R : IsRow(f[r]) /\ f[r].id = r.id /\ (r.inv => f[r].inv)
    BY <2>1
  <2>3. upd(R) = {f[r] : r \in R}
    OBVIOUS
  <2> HIDE DEF f, upd
  <2> DEFINE U == {f[r] : r \in R}
  <2>4. RowsOf(U, Posted) /\ (Single(R) => Single(U)) /\ (Stored(R) => Stored(U))
    BY <1>1, <2>2, MappedOk
  <2>5. Few(R, Present) => Few(U, Present)
    BY <2>2, MappedFew
  <2>6. Remembers(R, U)
    BY <2>2, MappedRemembers
  <2> QED BY <2>3, <2>4, <2>5, <2>6
<1>2. Consumed(v, k, at)
        = IF \A r \in v.msgs \cup v.pending : Local(r) = k => r.inv /\ r.sent THEN v ELSE Build(u)
  BY DEF Consumed
<1> HIDE DEF g, upd
<1>3. /\ RowsOf(upd(v.msgs), Posted) /\ Single(upd(v.msgs)) /\ Few(upd(v.msgs), Present)
      /\ RowsOf(upd(v.pending), Posted) /\ Single(upd(v.pending)) /\ Stored(upd(v.pending))
      /\ Few(upd(v.pending), Present)
      /\ Remembers(v.msgs, upd(v.msgs))
  BY <1>1 DEF Fitting, WindowOf, Small
<1>4. moved \in SUBSET upd(v.pending) /\ rest \in SUBSET upd(v.pending)
  OBVIOUS
<1> HIDE DEF moved, rest
<1>5. RowsOf(moved, Posted) /\ Single(moved) /\ Stored(moved) /\ Few(moved, Present)
      /\ Few(rest, Present) /\ Few({}, Present)
  BY <1>3, <1>4, Fewer, FewLess
<1>6. Posted \in SUBSET Turn
  BY DEF Posted
<1>7. Few(m, Present) /\ Remembers(upd(v.msgs), m)
  BY <1>3, <1>5, <1>6, MergeFew, MergeRemembers
<1>8. Few(p, Present)
  BY <1>5, MergeFew
<1> HIDE DEF m, p
<1>9. IsWindow(t) /\ t.msgs = v.msgs /\ t.pending = p /\ (t.hasNewer <=> v.hasNewer)
      /\ (t.hasMore <=> v.hasMore) /\ (t.spilled <=> v.spilled)
  BY PendingSet DEF Fitting, Small
<1> HIDE DEF t
<1>10. Small(t, Present)
  BY <1>8, <1>9 DEF Fitting, Small
<1>11. IsWindow(u) /\ u.msgs = m
  BY <1>7, <1>10, PresentIs, SmallTrim DEF Small
<1> HIDE DEF u
<1>12. Build(u).msgs = m
  BY <1>11, BuildIs
<1>13. Remembers(v.msgs, Build(u).msgs)
  BY <1>3, <1>7, <1>12, RemembersOn
<1> QED BY <1>0, <1>2, <1>13 DEF Follows, Remembers

LEMMA FlushFollows ==
    ASSUME Fits, Alone, NEW v, Fitting(v)
    PROVE  Follows(v, FlushPending(v))
<1> DEFINE merged == MergeRows(v.msgs, v.pending)
           u == AppendTrim(v, merged)
           t == [u EXCEPT !.pending = {}, !.spilled = FALSE]
<1>0. Fitting(FlushPending(v))
  BY PresentIs, FlushPendingOk, SmallFlush DEF Fitting, Gets
<1>1. FlushPending(v) = IF v.hasNewer \/ (v.pending = {} /\ ~v.spilled) THEN v ELSE Build(t)
  BY DEF FlushPending
<1>2. Posted \in SUBSET Turn
  BY DEF Posted
<1>3. Few(merged, Present) /\ Remembers(v.msgs, merged)
  BY <1>2, MergeFew, MergeRemembers DEF Fitting, WindowOf, Small
<1> HIDE DEF merged
<1>4. IsWindow(u) /\ u.msgs = merged
  BY <1>3, PresentIs, SmallTrim DEF Fitting, Small
<1> HIDE DEF u
<1>5. IsWindow(t) /\ t.msgs = u.msgs
  BY <1>4, EmptiedSet
<1> HIDE DEF t
<1>6. Build(t).msgs = merged
  BY <1>4, <1>5, BuildIs
<1> QED BY <1>0, <1>1, <1>3, <1>6 DEF Follows, Remembers

LEMMA PositionFollows ==
    ASSUME NEW v, Fitting(v), NEW b
    PROVE  Follows(v, [v EXCEPT !.atBottom = b])
<1> DEFINE u == [v EXCEPT !.atBottom = b]
<1>1. WindowOf(u, Posted) /\ Small(u, Present)
  BY AtBottomOk, SmallPosition DEF Fitting, Gets
<1>2. u.msgs = v.msgs
  BY PositionSet DEF Fitting, Small
<1> HIDE DEF u
<1>3. Follows(v, u)
  BY <1>1, <1>2, SameThread DEF Fitting
<1> QED BY <1>3 DEF u

\* What the answer to the POST says of the turn's rows.
Marked(v, k, sent) ==
    LET mark(R) == {IF Local(r) = k THEN [r EXCEPT !.sent = sent] ELSE r : r \in R} IN
    Build([v EXCEPT !.msgs = mark(v.msgs), !.pending = mark(v.pending)])

LEMMA MarkedFollows ==
    ASSUME NEW v, Fitting(v), NEW k, NEW sent \in BOOLEAN
    PROVE  Remembers(v.msgs, Marked(v, k, sent).msgs)
<1> DEFINE g(r) == IF Local(r) = k THEN [r EXCEPT !.sent = sent] ELSE r
           mark(R) == {g(r) : r \in R}
           m == mark(v.msgs)
           p == mark(v.pending)
           t == [v EXCEPT !.msgs = m, !.pending = p]
           f == [r \in v.msgs |-> g(r)]
<1>1. ASSUME NEW r \in v.msgs PROVE g(r).id = r.id /\ (r.inv => g(r).inv)
  <2>1. IsRow(r)
    BY DEF Fitting, Small, Few
  <2> QED BY <2>1, Changed
<1> HIDE DEF g
<1>2. \A r \in v.msgs : f[r].id = r.id /\ (r.inv => f[r].inv)
  BY <1>1
<1>3. m = {f[r] : r \in v.msgs}
  OBVIOUS
<1> HIDE DEF f, m
<1>4. Remembers(v.msgs, m)
  BY <1>2, <1>3, MappedRemembers
<1> HIDE DEF p
<1>5. IsWindow(t) /\ t.msgs = m /\ t.pending = p /\ (t.hasNewer <=> v.hasNewer)
      /\ (t.hasMore <=> v.hasMore) /\ (t.spilled <=> v.spilled)
  <2>1. IsWindow(v)
    BY DEF Fitting, Small
  <2> QED BY <2>1, BothSet
<1> HIDE DEF t
<1>6. Build(t).msgs = m
  BY <1>5, BuildIs
<1>7. Remembers(v.msgs, Build(t).msgs)
  BY <1>4, <1>6
<1> QED BY <1>7 DEF t, m, p, mark, g, Marked

\* A latest page gives up queued turns only.
LEMMA LatestFollows ==
    ASSUME Fits, Alone, FitRead, ReadOk, read.phase = "served", NEW v, Fitting(v)
    PROVE  Follows(v, ApplyLatest(v))
<1> DEFINE snap == read.snap
           incoming == v.pending \cup snap
           B1 == ById(v.msgs, v.pending)
           B == ById(B1, snap)
           T == StoredLocals(incoming)
           merged == IF incoming = {} THEN v.msgs ELSE Settle(B, T)
           left == DropGhosts(merged, snap, read.eligible)
           kept == Newest(left, WindowSize)
           top == Highest(Seqs(snap))
           f == IF top = None THEN v.frontier ELSE top
           based == [v EXCEPT !.frontier = f]
           x == IF Stamps(kept) = {} THEN Lowest(Stamps(snap)) ELSE Lowest(Stamps(kept))
           y == Highest(Stamps(kept))
           u == Replaced(based, kept, {}, read.more, x, y)
           t == IntoPending(v, snap)
           t2 == [t EXCEPT !.frontier = f]
<1>0. WindowOf(v, Posted) /\ Small(v, Present)
  BY DEF Fitting
<1>1. IsWindow(v) /\ Few(v.msgs, Present) /\ Few(v.pending, Present) /\ ~v.hasNewer
      /\ Few(snap, Present) /\ ~read.more
      /\ RowsOf(v.msgs, Posted) /\ RowsOf(v.pending, Posted) /\ RowsOf(snap, Posted)
  BY <1>0 DEF Small, WindowOf, FitRead, ReadOk, FromHub
<1>2. Fitting(ApplyLatest(v))
  BY <1>0, <1>1, PresentIs, ApplyLatestOk, SmallLatest DEF Fitting
<1>3. IsWindow(based) /\ based.frontier = f
  <2>1. based.frontier = f
    BY <1>1 DEF IsWindow
  <2> QED BY <1>1, <2>1, FrontierSet
<1>4. ApplyLatest(v) = IF v.atBottom THEN Build(u) ELSE Build(t2)
  BY <1>1, <1>3 DEF ApplyLatest, Replaced
<1>5. Remembers(v.msgs, merged) /\ Few(merged, Present)
  <2> HIDE DEF snap
  <2>1. RowsOf(incoming, Posted) /\ RowsOf(B, Posted) /\ Distinct(B) /\ PairsAreIn(B, T)
    BY <1>0, LatestJoined DEF snap
  <2>2. Distinct(v.msgs) /\ Few(B1, Present)
    BY <1>0, <1>1, SingleDistinct, ByIdFew DEF WindowOf
  <2>3. RowsOf(B1, Posted) /\ Distinct(B1)
    BY <1>0, <1>1, SingleDistinct, ByIdIs DEF WindowOf
  <2>4. Remembers(v.msgs, B1)
    BY <1>1, <2>2, ByIdRemembers
  <2>5. Ids(v.pending) \subseteq Ids(B1)
    BY <1>1, JoinedIds
  <2> HIDE DEF B1
  <2>6. Remembers(B1, B) /\ Few(B, Present)
    BY <1>1, <2>2, <2>3, ByIdRemembers, ByIdFew
  <2>7. Ids(B1) \cup Ids(snap) \subseteq Ids(B)
    BY <1>1, JoinedIds
  <2> HIDE DEF B
  <2>8. Ids(incoming) \subseteq Ids(B)
    BY <2>5, <2>7 DEF Ids
  <2>9. \A k \in T : k \in Ids(B)
    BY <2>1, <2>8, LocalsStored
  <2>10. Posted \in SUBSET Turn
    BY DEF Posted
  <2> HIDE DEF T, incoming
  <2>11. Remembers(B, Settle(B, T)) /\ Few(Settle(B, T), Present)
    BY <2>1, <2>6, <2>9, <2>10, SettleRemembers, SettleFew
  <2>12. Remembers(v.msgs, Settle(B, T))
    BY <2>4, <2>6, <2>11, RemembersOn
  <2>13. Remembers(v.msgs, v.msgs)
    BY DEF Remembers
  <2> QED BY <1>1, <2>11, <2>12, <2>13
<1> HIDE DEF merged, B, B1, T, incoming
<1>6. left \subseteq merged /\ \A r \in merged : r.inv => r \in left
  BY DEF DropGhosts, IsQueued
<1> HIDE DEF left
<1>7. kept = left
  BY <1>5, <1>6, FewLess, PresentIs, Sizes, AllNewest
<1>8. Remembers(merged, kept)
  BY <1>6, <1>7 DEF Remembers, ShowsInvoked
<1>9. Remembers(v.msgs, kept)
  BY <1>5, <1>8, RemembersOn
<1> HIDE DEF kept, f, x, y, based
<1>10. IsWindow(u) /\ u.msgs = kept /\ u.pending = {} /\ ~u.hasNewer
       /\ (u.hasMore <=> read.more) /\ ~u.spilled
  BY <1>3, ReplacedSet
<1> HIDE DEF u
<1>11. Remembers(v.msgs, Build(u).msgs)
  BY <1>9, <1>10, BuildIs
<1>12. IsWindow(t) /\ t.msgs = v.msgs
  <2>1. IsWindow(t)
    BY <1>0, <1>1, PresentIs, SmallPending DEF Gets, Small
  <2> QED BY <1>1, <2>1, PendingThread
<1> HIDE DEF t
<1>13. IsWindow(t2) /\ t2.msgs = v.msgs
  BY <1>12, FrontierSet
<1> HIDE DEF t2
<1>14. Remembers(v.msgs, Build(t2).msgs)
  BY <1>13, BuildIs DEF Remembers
<1> QED BY <1>2, <1>4, <1>11, <1>14 DEF Follows

\* A row of the hub comes back, or a turn of which there is no row is shown.
LEMMA OptimisticFollows ==
    ASSUME Fits, Alone, NEW v, Fitting(v), NEW r, IsRow(r), r.id \in Present,
           \/ r.id > 0 /\ FromHub({r})
           \/ r.id < 0 /\ \A e \in v.msgs : Local(e) # Local(r)
    PROVE  Remembers(v.msgs, AppendOptimistic(v, r).msgs)
<1> DEFINE u == Append2(v, {r})
<1>1. WindowOf(v, Posted) /\ Small(v, Present) /\ Few({r}, Present) /\ Posted \in SUBSET Turn
  BY DEF Fitting, Few, Posted
<1>2. u.msgs = MergeRows(v.msgs, {r}) /\ IsWindow(u)
  BY <1>1, PresentIs, AppendThread, SmallAppend DEF Gets, Small
<1>3. AppendOptimistic(v, r) = [u EXCEPT !.atBottom = TRUE]
  BY <1>1 DEF AppendOptimistic, WindowOf
<1> HIDE DEF u
<1>4. AppendOptimistic(v, r).msgs = MergeRows(v.msgs, {r})
  BY <1>2, <1>3, PositionSet
<1>5. CASE r.id > 0 /\ FromHub({r})
  <2>1. RowsOf({r}, Posted) /\ Single({r}) /\ Stored({r})
    BY <1>5 DEF FromHub, Single
  <2> QED BY <1>1, <1>4, <2>1, MergeRemembers DEF WindowOf
<1>6. CASE r.id < 0 /\ \A e \in v.msgs : Local(e) # Local(r)
  <2> DEFINE E == v.msgs \cup {r}
  <2>1. Local(r) \in Turn
    <3>1. -r.id \in Turn
      BY <1>6, TurnIds DEF Present, Stocked, EveryId, Turn, IsRow
    <3> QED BY <1>6, <3>1, LocalIs DEF IsRow
  <2>2. RowsOf(v.msgs, Turn) /\ Single(v.msgs)
    BY <1>1, MoreTurns DEF WindowOf
  <2>3. RowsOf(E, Turn) /\ Single(E) /\ MergeRows(v.msgs, {r}) = Settle(E, {})
    BY <1>6, <2>1, <2>2, MergeFresh
  <2>4. Remembers(v.msgs, E)
    BY DEF Remembers, ShowsInvoked
  <2> HIDE DEF E
  <2>5. PairsAreIn(E, {})
    <3> SUFFICES ASSUME NEW q \in E, NEW o \in E, q.id \in Turn, o.id = -q.id PROVE FALSE
      BY DEF PairsAreIn
    <3>1. q.id > 0 /\ o.id < 0 /\ q.id \in Int /\ o.id \in Int
      BY TurnIds
    <3>2. IsUser(q) /\ Local(q) = Local(o)
      BY <3>1, LocalIs
    <3> QED BY <2>3, <3>1, <3>2 DEF Single
  <2>6. Remembers(E, Settle(E, {}))
    BY <2>3, <2>5, SingleDistinct, SettleRemembers
  <2> QED BY <1>4, <2>3, <2>4, <2>6, RemembersOn
<1> QED BY <1>5, <1>6

-----------------------------------------------------------------------------
(* No step shows an invoked turn as queued.                                *)

Heeds == \A q \in w.msgs, r \in w'.msgs : IsUser(q) /\ q.inv /\ Local(r) = Local(q) => r.inv

LEMMA HeedsIs ==
    ASSUME NEW S, Remembers(w.msgs, S), Single(S), w'.msgs \subseteq S
    PROVE  Heeds
<1> SUFFICES ASSUME NEW q \in w.msgs, NEW r \in w'.msgs, IsUser(q), q.inv, Local(r) = Local(q)
             PROVE  r.inv
  BY DEF Heeds
<1>1. PICK s \in S : IsUser(s) /\ Local(s) = Local(q) /\ s.inv
  BY DEF Remembers, ShowsInvoked
<1>2. r = s
  BY <1>1 DEF Single
<1> QED BY <1>1, <1>2

LEMMA FollowedHeeds ==
    ASSUME NEW v, Follows(w, v), w' = v
    PROVE  Heeds
BY HeedsIs DEF Follows, Fitting, WindowOf

LEMMA IngestedFollows ==
    ASSUME Fits, Alone, FitInv, NEW v, Fitting(v)
    PROVE  Follows(v, IF frame = <<>> THEN v ELSE Ingest(v, FrameRows))
<1>1. FromHub(FrameRows) /\ Single(FrameRows) /\ Few(FrameRows, Present)
  BY FrameRowsOk, FewFrame DEF FitInv, ShowInv
<1>2. Follows(v, v)
  BY SameThread
<1> QED BY <1>1, <1>2, IngestFollows

LEMMA FlushedFollows ==
    ASSUME Fits, Alone, FitInv
    PROVE  Fitting(w) /\ Follows(w, Flushed) /\ Fitting(Flushed)
<1>1. Fitting(w)
  BY DEF FitInv, ShowInv, FitWindow, WindowOk, Fitting
<1> QED BY <1>1, IngestedFollows DEF Flushed, Follows

LEMMA EndReadHeeds ==
    ASSUME Fits, Alone, FitInv, NEW v, Follows(w, v), NEW lost, EndRead(v, lost)
    PROVE  Heeds
<1>1. Follows(v, IF frame = <<>> THEN v ELSE Ingest(v, FrameRows))
  BY IngestedFollows DEF Follows
<1>2. w' = v \/ w' = IF frame = <<>> THEN v ELSE Ingest(v, FrameRows)
  BY DEF EndRead
<1> QED BY <1>1, <1>2, FollowsOn, FollowedHeeds

LEMMA WithoutHeeds ==
    ASSUME Fits, Alone, FitInv, NEW ids, w' = Without(Flushed, ids)
    PROVE  Heeds
<1> DEFINE v == Flushed
           m == {r \in v.msgs : r.id \notin ids}
           p == {r \in v.pending : r.id \notin ids}
           t == [v EXCEPT !.msgs = m, !.pending = p]
<1>1. Follows(w, v) /\ IsWindow(v) /\ Single(v.msgs)
  BY FlushedFollows DEF Fitting, WindowOf
<1>2. w' = Build(t)
  BY DEF Without
<1> HIDE DEF v
<1>3. m \subseteq v.msgs
  OBVIOUS
<1> HIDE DEF m, p
<1>4. IsWindow(t) /\ t.msgs = m /\ t.pending = p /\ (t.hasNewer <=> v.hasNewer)
      /\ (t.hasMore <=> v.hasMore) /\ (t.spilled <=> v.spilled)
  BY <1>1, BothSet
<1> HIDE DEF t
<1>5. w'.msgs \subseteq v.msgs
  BY <1>2, <1>3, <1>4, BuildIs
<1> QED BY <1>1, <1>5, HeedsIs DEF Follows

LEMMA HandleHeeds ==
    ASSUME Fits, Alone, FitInv, NEW s \in Stream, Handle(s)
    PROVE  Heeds
<1> DEFINE e == log[stream[s].done + 1]
<1>1. e.type \in EventType
  BY ReceivedIs DEF Handle, FitInv, ShowInv
<1>2. CASE e.type \in {"received", "invalidated"}
  <2>1. w' = w
    BY <1>2 DEF Handle, Receive
  <2> QED BY <2>1, FlushedFollows, SameThread, FollowedHeeds
<1>3. CASE e.type = "consumed"
  <2>1. w' = Consumed(Flushed, Local(e.row), e.row.at)
    BY <1>3 DEF Handle
  <2>2. Follows(Flushed, Consumed(Flushed, Local(e.row), e.row.at))
    BY FlushedFollows, ConsumedFollows
  <2> QED BY <2>1, <2>2, FlushedFollows, FollowsOn, FollowedHeeds
<1>4. CASE e.type = "cancelled"
  <2>1. w' = Without(Flushed, {e.row.id})
    BY <1>4 DEF Handle
  <2> QED BY <2>1, WithoutHeeds
<1> QED BY <1>1, <1>2, <1>3, <1>4 DEF EventType

\* The row of a cancel comes back as it was before the click, but into a thread
\* that has none of its turn or a newer one.
LEMMA AppendedHeeds ==
    ASSUME Fits, Alone, FitInv, ShowInv', NEW k \in Turn,
           Send(k) \/ CancelAnswer(k) \/ CancelFails(k)
    PROVE  Heeds
<1> USE DEF FitInv, ShowInv
<1>1. Single(w'.msgs)
  BY DEF WindowOk, WindowOf
<1>2. Follows(w, Flushed) /\ Fitting(Flushed)
  BY FlushedFollows
<1>3. ASSUME NEW r, IsRow(r), r.id \in Present, w' = AppendOptimistic(Flushed, r),
             \/ r.id > 0 /\ FromHub({r})
             \/ r.id < 0 /\ \A e \in Flushed.msgs : Local(e) # Local(r)
      PROVE  Heeds
  <2>1. Remembers(Flushed.msgs, w'.msgs)
    BY <1>2, <1>3, OptimisticFollows
  <2> QED BY <1>1, <1>2, <2>1, RemembersOn, HeedsIs DEF Follows
<1>4. CASE Send(k)
  <2> DEFINE r == NewRow(-k, 0, FALSE, clock + 1)
  <2>1. /\ IsRow(r) /\ r.id = -k /\ r.id < 0
        /\ \A e \in Flushed.msgs : Local(e) # Local(r)
        /\ w' = AppendOptimistic(Flushed, r)
    BY <1>4, SendIs
  <2> HIDE DEF r
  <2>2. r.id \in Present
    BY <2>1, TurnIds DEF Present
  <2> QED BY <1>3, <2>1, <2>2
<1>5. CASE CancelAnswer(k) \/ CancelFails(k)
  <2> DEFINE r == cancels[k].row
             q == [r EXCEPT !.sent = TRUE]
  <2>1. cancels[k].phase \in Pending
    BY <1>5 DEF CancelAnswer, CancelFails, Pending
  <2>2. IsRow(r) /\ r.id = k /\ k \in Present /\ FromHub({r}) /\ k > 0
    BY <2>1, TurnIds DEF FitCancels, CancelsOk, Present
  <2>3. w' = AppendOptimistic(Flushed, r) \/ w' = AppendOptimistic(Flushed, q) \/ w' = w
    BY <1>5 DEF CancelAnswer, CancelFails
  <2> HIDE DEF r
  <2>4. IsRow(q) /\ q.id = k
    BY <2>2, Changed
  <2>5. FromHub({q})
    <3>1. Local(q) = Local(r) /\ (IsUser(q) <=> IsUser(r))
      BY <2>2, <2>4, SameTurn
    <3> HIDE DEF q
    <3> QED BY <2>2, <2>4, <3>1 DEF FromHub, RowsOf, Stored
  <2> HIDE DEF q
  <2>6. w' = w => Heeds
    BY FlushedFollows, SameThread, FollowedHeeds
  <2> QED BY <1>3, <2>2, <2>3, <2>4, <2>5, <2>6
<1> QED BY <1>4, <1>5

LEMMA AnswerHeeds ==
    ASSUME Fits, Alone, FitInv, ShowInv', NEW k \in Turn, Answer(k)
    PROVE  Heeds
<1>1. PICK sent \in BOOLEAN : w' = Marked(Flushed, k, sent)
  BY DEF Answer, Marked
<1>2. Follows(w, Flushed) /\ Fitting(Flushed)
  BY FlushedFollows
<1>3. Remembers(Flushed.msgs, w'.msgs)
  BY <1>1, <1>2, MarkedFollows
<1>4. Single(w'.msgs)
  BY DEF ShowInv, WindowOk, WindowOf
<1> QED BY <1>2, <1>3, <1>4, RemembersOn, HeedsIs DEF Follows

LEMMA ToEndHeeds ==
    ASSUME Fits, Alone, FitInv, ScrollAway \/ ToBottom \/ Return
    PROVE  Heeds
<1> DEFINE v(b) == [Flushed EXCEPT !.atBottom = b]
<1>1. ASSUME NEW b PROVE Follows(w, v(b)) /\ Fitting(v(b))
  BY FlushedFollows, PositionFollows, FollowsOn DEF Follows
<1>2. w' = v(FALSE) \/ w' = v(TRUE) \/ w' = FlushPending(v(TRUE))
  BY DEF ScrollAway, ToBottom, Return
<1> HIDE DEF v
<1>3. Follows(w, FlushPending(v(TRUE)))
  BY <1>1, FlushFollows, FollowsOn
<1> QED BY <1>1, <1>2, <1>3, FollowedHeeds

\* The steps that only flush the frame queue, or that read.
LEMMA ReadHeeds ==
    ASSUME Fits, Alone, FitInv, LandRead \/ FailRead \/ StrayLands \/ RunTask \/ FlushFrame
    PROVE  Heeds
<1>1. Fitting(w) /\ Follows(w, w) /\ Follows(w, Flushed)
  BY FlushedFollows, SameThread
<1>2. w' = w \/ w' = Flushed => Heeds
  BY <1>1, FollowedHeeds
<1>3. CASE LandRead
  <2> DEFINE v == ApplyLatest(w)
  <2>1. Follows(w, v)
    BY <1>1, <1>3, LatestFollows DEF LandRead, FitInv, ShowInv
  <2>2. EndRead(v, FALSE)
    BY <1>3 DEF LandRead
  <2> HIDE DEF v
  <2> QED BY <2>1, <2>2, EndReadHeeds
<1>4. CASE FailRead
  <2>1. EndRead(w, TRUE)
    BY <1>4 DEF FailRead
  <2> QED BY <1>1, <2>1, EndReadHeeds
<1>5. CASE RunTask /\ Wipe
  <2>1. w'.msgs = {}
    BY <1>5 DEF Wipe, FreshWindow
  <2> QED BY <2>1 DEF Heeds
<1>6. CASE StrayLands \/ FlushFrame \/ (RunTask /\ Refresh)
  BY <1>2, <1>6 DEF StrayLands, FlushFrame, Refresh
<1>7. RunTask => Refresh \/ Wipe
  BY DEF RunTask
<1> QED BY <1>3, <1>4, <1>5, <1>6, <1>7

LEMMA HeedsStep ==
    ASSUME Fits, Alone, FitInv, [Next]_vars
    PROVE  Heeds
<1>0. ShowInv'
  BY FitShow
<1>1. CASE LandRead \/ FailRead \/ StrayLands \/ RunTask \/ FlushFrame
  BY <1>1, ReadHeeds
<1>2. CASE LandPage
  BY <1>2 DEF LandPage, NoPage, FitInv, ShowInv
<1>3. ASSUME NEW s \in Stream, Handle(s) PROVE Heeds
  BY <1>3, HandleHeeds
<1>4. ASSUME NEW kind \in {"older", "newer"}, AskPage(kind) PROVE Heeds
  <2>1. w' = Flushed
    BY <1>4 DEF AskPage
  <2> QED BY <2>1, FlushedFollows, FollowedHeeds
<1>5. CASE ScrollAway \/ ToBottom \/ Return
  BY <1>5, ToEndHeeds
<1>6. ASSUME NEW k \in Turn, Answer(k) PROVE Heeds
  BY <1>0, <1>6, AnswerHeeds
<1>7. ASSUME NEW k \in Turn, FailPost(k) \/ CancelClick(k) PROVE Heeds
  <2>1. w' = Without(Flushed, {k, -k})
    BY <1>7 DEF FailPost, CancelClick
  <2> QED BY <2>1, WithoutHeeds
<1>8. ASSUME NEW k \in Turn, Send(k) \/ CancelAnswer(k) \/ CancelFails(k) PROVE Heeds
  BY <1>0, <1>8, AppendedHeeds
<1>9. CASE UNCHANGED <<w, frame>>
  BY <1>9, FlushedFollows, SameThread, FollowedHeeds
<1> QED BY <1>1, <1>2, <1>3, <1>4, <1>5, <1>6, <1>7, <1>8, <1>9, WhoChanges DEF Browses

\* In a session that fits on a page, and of which at most one turn is sent or no
\* two are sent within ten seconds, the thread never shows a turn as queued that
\* it showed as invoked (InvocationsStay, and so ConsumedStays with its exception
\* never used): an older copy of the row, from an event, a page, the POST or the
\* cancel, is merged into what the thread knows.
THEOREM InvokedStaysIfItFits ==
    ASSUME Fits, Alone
    PROVE  Spec => InvocationsStay /\ ConsumedStays
<1>1. Init => FitInv
  BY FitInitially
<1>2. FitInv /\ [Next]_vars => FitInv'
  BY FitStep
<1>3. Heeds => TakenBack = {}
  BY DEF Heeds, TakenBack, ThreadTurns
<1>4. FitInv /\ [Next]_vars => TakenBack = {}
  BY <1>3, HeedsStep
<1>5. TakenBack = {} => \A k \in TakenBack : Mistaken(k)
  OBVIOUS
<1> QED BY <1>1, <1>2, <1>4, <1>5, PTL DEF Spec, InvocationsStay, ConsumedStays
=============================================================================
