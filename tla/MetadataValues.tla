--------------------------- MODULE MetadataValues ---------------------------
(***************************************************************************)
(* The metadata of a session as a value: its fields, what the updates of a *)
(* CLI process do to it (the handlers given to updateMetadata), and how    *)
(* the hub joins what it is sent with what it has (store/sessions.ts).     *)
(* `token` stands for a resume token, with the protocol that is written    *)
(* and carried along with it, `owner` for controlOwner, `name` and `life`  *)
(* for fields that are not carried forward, and `mode` (say, the preferred *)
(* permission mode) for those that an attaching process does not pick from *)
(* what it finds either.  The hub knows every field; a process may be of   *)
(* an older build, whose schema strips a field or refuses a content.       *)
(***************************************************************************)

CONSTANTS
    Client,     \* CLI processes attached to the session, by slot
    Unknown,    \* the fields that the build of a process strips
    Refused     \* the contents that its schema refuses

Field == {"name", "owner", "token", "life", "mode"}
Carried == {"owner", "token"}
Missing == "missing"    \* the key is not there
Null == "null"          \* explicit-clear sentinel, in a request only

Content == {Missing, "first", "shapi", "external", "thread", "running", "archived",
            "plain", "odd"}

ASSUME SchemaAssumption ==
    /\ Unknown \in [Client -> SUBSET Field]
    /\ Refused \in [Client -> SUBSET Content]

Value == [Field -> Content]
Payload == [Field -> Content \cup {Null}]
NoValue == [f \in Field |-> Missing]
FirstValue == [NoValue EXCEPT !["life"] = "running"]

CliUpdate == {"attach", "found", "reset", "archive"}

\* MetadataSchema.safeParse in a process: whether it succeeds, and its result.
Parses(c, v) == \A f \in Field \ Unknown[c] : v[f] \notin Refused[c]
Parsed(c, v) == [f \in Field |-> IF f \in Unknown[c] THEN Missing ELSE v[f]]

\* pickExistingSessionMetadata.
Picked == {"name", "token"}

\* The handlers given to updateMetadata: all spread the cached value but
\* "attach", which rebuilds it from its own and what it picks.
Handler(u, v) ==
    [f \in Field |->
        IF f = "life" /\ u = "attach" THEN "running"
        ELSE IF f = "life" /\ u = "archive" THEN "archived"
        ELSE IF f = "token" /\ u = "found" THEN "thread"
        ELSE IF f = "token" /\ u = "reset" THEN Null
        ELSE IF f \notin Picked /\ u = "attach" THEN Missing
        ELSE v[f]]

\* What an update is about.
Touches(u) ==
    {f \in Field : \/ f = "token" /\ u \in {"found", "reset"}
                   \/ f = "life" /\ u \in {"attach", "archive", "hubArchive", "reopen"}
                   \/ f = "name" /\ u = "rename"
                   \/ f = "owner" /\ u \in {"claim", "unclaim"}
                   \/ f = "mode" /\ u = "prefer"}

\* Mutant: the row is replaced by what was sent.
ReplaceAll(prior, next) ==
    [f \in Field |-> IF next[f] = Null THEN Missing ELSE next[f]]

\* mergeSessionMetadata: a missing carried field keeps its prior value, and
\* null drops it.
Merge(prior, next) ==
    [f \in Field |-> IF f \in Carried /\ next[f] = Missing THEN prior[f]
                     ELSE IF next[f] = Null THEN Missing
                     ELSE next[f]]

HubUpdate == {"rename", "claim", "unclaim", "hubArchive", "reopen", "prefer"}

=============================================================================
