------------------------------ MODULE KeyUnion ------------------------------
(***************************************************************************)
(* What the key store promises to the data plane, without the boot order,  *)
(* the refresh loops, the timers and the clocks that keep the promise      *)
(* (docs/current/key-sources.md, "Composition and Precedence").            *)
(*                                                                         *)
(* Every source claims a set of key digests.  A claimed digest belongs to  *)
(* the first source, in precedence order, that claims it.  A source may be *)
(* put out of service: it then keeps what it claims, what it served is     *)
(* denied, and nobody else inherits it.                                    *)
(***************************************************************************)
EXTENDS Integers

CONSTANTS
  Last,      \* the declared sources are 1 .. Last in precedence order
  Digests    \* the digests of the keys that sources may publish

VARIABLES
  open,      \* the store has published its first union
  claims,    \* claims[s]: the digests source s claims
  gone,      \* the sources that are out of service
  served     \* the pairs <<d, s>>: digest d is accepted on the word of s

uvars == <<open, claims, gone, served>>

Source == 0 .. Last

\* Source s is the first of the sources that claim d.
First(c, d, s) == d \in c[s] /\ \A t \in Source : t < s => d \notin c[t]

\* What s serves while it is in service.
Share(c, s) == {p \in Digests \X {s} : First(c, p[1], s)}

UInit ==
  /\ open = FALSE
  /\ claims = [s \in Source |-> {}]
  /\ gone = {}
  /\ served = {}

\* The store opens with what the boot loads brought, every source in service.
Open ==
  /\ ~open
  /\ open' = TRUE
  /\ claims' \in [Source -> SUBSET Digests]
  /\ gone' = gone
  /\ served' = UNION {Share(claims', s) : s \in Source}

\* Source s delivers a complete new set, and is in service from then on.
Accept(s) ==
  /\ open
  /\ \E c \in SUBSET Digests : claims' = [claims EXCEPT ![s] = c]
  /\ gone' = gone \ {s}
  /\ served' = UNION {Share(claims', t) : t \in Source \ gone'}
  /\ UNCHANGED open

\* Source s confirms what it claims and returns to service: nothing is taken
\* from another source, it gets back what it is first to claim.
Reinstate(s) ==
  /\ open
  /\ s \in gone
  /\ gone' = gone \ {s}
  /\ served' = served \cup Share(claims, s)
  /\ UNCHANGED <<open, claims>>

\* Some sources are put out of service: this only takes keys away.
Exclude(S) ==
  /\ open
  /\ S \cap gone = {}
  /\ gone' = gone \cup S
  /\ served' = {p \in served : p[2] \notin S}
  /\ UNCHANGED <<open, claims>>

UNext ==
  \/ Open
  \/ \E s \in Source : Accept(s) \/ Reinstate(s)
  \/ \E S \in SUBSET (1 .. Last) : Exclude(S)

USpec == UInit /\ [][UNext]_uvars
=============================================================================
