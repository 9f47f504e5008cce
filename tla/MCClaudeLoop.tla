---------------------------- MODULE MCClaudeLoop ----------------------------
(* ClaudeLoop with the bounds and the inputs TLC needs. *)
EXTENDS ClaudeLoop

OnceEach == [c \in Cause |-> 1]

(* Turns in every mode, a /clear (whose mode plays no part) and a /compact in the *)
(* mode a plan is not restarted with.                                             *)
TurnsAndCommands ==
    [mode : Mode, kind : {"plain"}]
    \cup {[mode |-> RestartMode, kind |-> "clear"]}
    \cup [mode : Mode \ {RestartMode}, kind : {"compact"}]

=============================================================================
