---------------------------- MODULE MCMonitoring ----------------------------
(* Monitoring with the rules TLC explores; the bounds are in the .cfg file. *)
EXTENDS Monitoring

CONSTANTS
    check, hook,    \* rules
    source          \* the session they are bound to

TwoRules == {check, hook}
OneSource == {source}
Row(kind, mode) == [present |-> TRUE, kind |-> kind, mode |-> mode]
NoRow == [present |-> FALSE, kind |-> "http", mode |-> "fresh"]

\* Two rules bound to one session, or a rule that works in sessions of its own.
ThreeSetups ==
    {[r \in TwoRules |-> Row(IF r = check THEN "scheduled" ELSE "webhook", "direct")],
     [r \in TwoRules |-> IF r = check THEN Row("http", "isolated") ELSE NoRow],
     [r \in TwoRules |-> IF r = check THEN Row("http", "fresh") ELSE NoRow]}
TargetOfRule == [r \in TwoRules |-> source]

=============================================================================
