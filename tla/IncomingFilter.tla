--------------------------- MODULE IncomingFilter ---------------------------
(***************************************************************************)
(* IncomingMessageFilter (cli/src/api/apiSession.ts): the CLI's duplicate  *)
(* filter over live and backfilled messages.  `seen` is the JS Set, a      *)
(* sequence in insertion order without repetitions; `cursor` is            *)
(* lastSeenSeq, 0 standing for null.  Every message the hub sends has an   *)
(* id, so the seq-only fallback for messages without one is left out.      *)
(***************************************************************************)
EXTENDS Naturals, Sequences, FiniteSets

CONSTANT FilterCapacity     \* 256 in the code

ASSUME FilterAssumption == FilterCapacity \in Nat \ {0}

Elements(s) == {s[k] : k \in DOMAIN s}

\* Mutant: only the last message is compared.
AcceptsUnlessLast(seen, id) == seen = <<>> \/ seen[Len(seen)] # id

Accepts(seen, id) == id \notin Elements(seen)

\* A duplicate is deleted and re-added: it becomes the youngest entry.
Refreshed(seen, id) ==
    LET at == CHOOSE k \in DOMAIN seen : seen[k] = id
    IN  [k \in DOMAIN seen |-> IF k < at THEN seen[k]
                               ELSE IF k < Len(seen) THEN seen[k + 1]
                               ELSE id]

\* A new id is added; beyond the capacity the oldest entry goes.
Remembered(seen, id) ==
    IF Cardinality(Elements(seen) \cup {id}) > FilterCapacity
    THEN Tail(Append(seen, id)) ELSE Append(seen, id)

SeenAfter(seen, id) ==
    IF Accepts(seen, id) THEN Remembered(seen, id) ELSE Refreshed(seen, id)

CursorAfter(cursor, seen, id, seq) ==
    IF Accepts(seen, id) /\ seq > cursor THEN seq ELSE cursor

=============================================================================
