-------------------------- MODULE MCKeyStoreHealth --------------------------
(* A slow source that polls often, and a second one declared after it.     *)
EXTENDS KeyStoreHealth

CONSTANT a

MCPublishes == [s \in 0 .. 2 |-> IF s = 0 THEN {{}} ELSE {{a}}]
MCPollInterval == [s \in 1 .. 2 |-> 1]
MCTimeout == [s \in 1 .. 2 |-> IF s = 1 THEN 2 ELSE 1]
=============================================================================
