--------------------------- MODULE MCSessionMerge ---------------------------
(* SessionMerge with the sets TLC needs; the bounds are in the .cfg files. *)
EXTENDS SessionMerge

CONSTANTS a, b,     \* localIds
          s1, s2    \* session records

OneTurn == {a}
TwoTurns == {a, b}
NoTurns == {}
TwoSessions == {s1, s2}

=============================================================================
