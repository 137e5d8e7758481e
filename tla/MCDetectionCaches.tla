------------------------- MODULE MCDetectionCaches -------------------------
(* DetectionCaches for TLC: two texts, one inside the other; a detector with *)
(* a cache of its own (llm) and one without (regex), which share an entity   *)
(* and report one each that the other does not know.                         *)
EXTENDS DetectionCaches

CONSTANTS t1, t2, both, named, coded

MCHolds == [t \in Text |-> IF t = t1 THEN {both} ELSE {both, named, coded}]
MCReports == [d \in Detector |-> [e \in Entity |->
                IF e = both THEN "EMAIL"
                ELSE IF (e = named) = (d = "llm") THEN "PERSON" ELSE Absent]]
MCModes == {<<"regex", "llm">>, <<"regex">>}
MCBase == [backend |-> "redis", merged |-> {}, modes |-> {<<"regex", "llm">>}, redis_fails |-> FALSE,
           corrupted |-> FALSE, fail_open |-> {}, echo_only |-> TRUE]
\* Both backends, Redis with failures and a bad payload; a detector that fails
\* open, before a model that adds entities and one that does not; the llm
\* detector merged.
MCWorlds == {[MCBase EXCEPT !.redis_fails = TRUE, !.corrupted = TRUE],
             [MCBase EXCEPT !.modes = MCModes],
             [MCBase EXCEPT !.backend = "memory", !.modes = MCModes],
             [MCBase EXCEPT !.backend = "memory", !.fail_open = {"llm"}, !.echo_only = FALSE],
             [MCBase EXCEPT !.backend = "memory", !.fail_open = {"llm"}],
             [MCBase EXCEPT !.merged = {"llm"}]}
\* Sessions are interchangeable.
MCSymmetry == Permutations(Session)
=============================================================================
