-------------------------- MODULE MCControlRelease --------------------------
(* ControlRelease with the set TLC needs; the bounds are in the .cfg files. *)
EXTENDS ControlRelease

CONSTANT a      \* a turn

OneTurn == {a}

=============================================================================
