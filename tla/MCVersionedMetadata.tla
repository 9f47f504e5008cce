------------------------ MODULE MCVersionedMetadata ------------------------
(* VersionedMetadata with the sets TLC needs; bounds are in the .cfg files. *)
EXTENDS VersionedMetadata, TLC

CONSTANTS c1, c2    \* slots of CLI processes

OneClient == {c1}
TwoClients == {c1, c2}

\* Builds: one that refuses a permission mode it does not know, and an older
\* one that refuses an owner and strips the permission mode.
Refuses(content) == [c \in Client |-> {content}]
OddRefused == Refuses("odd")
ExternalRefused == Refuses("external")
NothingUnknown == [c \in Client |-> {}]
ModeUnknown == [c \in Client |-> {"mode"}]

\* Slots are interchangeable.
ClientSymmetry == Permutations(Client)

=============================================================================
