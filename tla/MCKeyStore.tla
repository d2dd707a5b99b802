----------------------------- MODULE MCKeyStore -----------------------------
(* Two declared sources that publish the same digest, below inline keys.   *)
EXTENDS KeyStore

CONSTANTS a, b

MCDigests == {a, b}

\* The inline keys hold b; both declared sources may publish a.
MCPublishes == [s \in 0 .. 2 |->
  CASE s = 0 -> {{b}}
    [] s = 1 -> {{}, {a}}
    [] s = 2 -> {{a, b}}]

MCPollInterval == [s \in 1 .. 2 |-> 1]
MCTimeout == [s \in 1 .. 2 |-> 0]
=============================================================================
