----------------------------- MODULE MCKeyFeed ------------------------------
(* One declared source, file or key API, whose document may hold either of *)
(* two keys.                                                               *)
EXTENDS KeyFeed

CONSTANTS a, b

MCPublishes == [s \in 0 .. 1 |-> IF s = 0 THEN {{}} ELSE {{a}, {b}}]
MCPollInterval == [s \in {1} |-> 1]
MCTimeout == [s \in {1} |-> 0]
=============================================================================
