--------------------------- MODULE AtomicMetadata ---------------------------
(***************************************************************************)
(* What the versioned metadata of a session promises: a register with      *)
(* atomic updates.  Each commit applies one update to the value that is    *)
(* current at that moment, as if the writer held the row while it computed *)
(* (but a process whose schema refuses that value computes from one that   *)
(* it could read before, or from none), and the updates of a process take  *)
(* effect in the order of its calls.  An update may take effect more than  *)
(* once (its ack was lost), but only before a younger one of its process.  *)
(***************************************************************************)
EXTENDS Naturals, Sequences, MetadataValues

CONSTANT Call       \* numbers of updateMetadata calls

VARIABLE history    \* the commits so far: value, writer, update, call, basis

Latest == history[Len(history)].value

Init == /\ Len(history) = 1
        /\ Latest = FirstValue

\* What process c reads at commit k; 0 stands for no value.
Reading(c, k) == IF k = 0 THEN NoValue ELSE Parsed(c, history[k].value)

ClientUpdate(c, u, call, basis) ==
    /\ basis # Len(history) => ~Parses(c, Latest)
    /\ \A k \in DOMAIN history : history[k].by = c => history[k].call <= call
    /\ history' = Append(history,
           [value |-> Merge(Latest, Handler(u, Reading(c, basis))),
            by |-> c, update |-> u, call |-> call, basis |-> basis])

\* The hub sets one field that its update is about.
HubSets(u, f, x) ==
    /\ f \in Touches(u)
    /\ history' = Append(history,
           [value |-> Merge(Latest, [Latest EXCEPT ![f] = x]),
            by |-> "hub", update |-> u, call |-> 0, basis |-> Len(history)])

\* One commit at a time.
Next ==
    /\ Len(history') = Len(history) + 1
    /\ \/ \E c \in Client, u \in CliUpdate, call \in Call,
              basis \in DOMAIN history \cup {0} : ClientUpdate(c, u, call, basis)
       \/ \E u \in HubUpdate, f \in Field, x \in Content : HubSets(u, f, x)

Spec == Init /\ [][Next]_history

=============================================================================
