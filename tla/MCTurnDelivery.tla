--------------------------- MODULE MCTurnDelivery ---------------------------
(* TurnDelivery with the sets TLC needs; the bounds are in the .cfg files. *)
EXTENDS TurnDelivery, TLC

CONSTANTS a, b,       \* localIds
          r1, r2      \* DELETE requests

OneTurn == {a}
OtherTurn == {b}
TwoTurns == {a, b}
NoTurns == {}
OneRequest == {r1}
TwoRequests == {r1, r2}
NoRequests == {}

\* DELETE requests are interchangeable.
RequestSymmetry == Permutations(Request)

=============================================================================
