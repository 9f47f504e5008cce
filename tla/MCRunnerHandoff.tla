--------------------------- MODULE MCRunnerHandoff ---------------------------
(* RunnerHandoff as TLC explores it; the bounds are in the .cfg files. *)
EXTENDS RunnerHandoff
=============================================================================
