------------------------------ MODULE LruCache ------------------------------
(***************************************************************************)
(* The LRU cache with expiry of src/routing/cache.go, as operators on a    *)
(* sequence of entries: the list of the code, front first.  Its map from   *)
(* keys to list elements is the inverse of that list.  Each operation      *)
(* holds the mutex from end to end, so each is one step of its caller.     *)
(* An entry keeps the time it has left: expired is less than none.         *)
(***************************************************************************)
EXTENDS Integers, Sequences, SequencesExt

Entry(Key, Value, TTL) == [key : Key, value : Value, left : -1 .. TTL]

KeysOf(c) == {c[i].key : i \in DOMAIN c}
IndexOf(c, k) == CHOOSE i \in DOMAIN c : c[i].key = k

\* An entry lives through the instant it expires at (time.After is strict).
Lives(e) == e.left >= 0

Hit(c, k) == k \in KeysOf(c) /\ Lives(c[IndexOf(c, k)])
Stored(c, k) == c[IndexOf(c, k)].value

ToFront(c, i, e) == <<e>> \o RemoveAt(c, i)

\* Mutant: a hit leaves the entry where it is.
AfterGetInPlace(c, k) == IF k \in KeysOf(c) /\ ~Hit(c, k) THEN RemoveAt(c, IndexOf(c, k)) ELSE c

\* A hit moves the entry to the front, an expired one is removed.
AfterGet(c, k) ==
  LET i == IndexOf(c, k) IN
  IF k \notin KeysOf(c) THEN c
  ELSE IF Hit(c, k) THEN ToFront(c, i, c[i]) ELSE RemoveAt(c, i)

\* Mutant: one entry more than the capacity.
RoomLate(c, capacity) == IF Len(c) > capacity THEN Front(c) ELSE c

\* The entry at the back makes room.
Room(c, capacity) == IF Len(c) >= capacity THEN Front(c) ELSE c

AfterPut(c, k, v, capacity, ttl) ==
  LET e == [key |-> k, value |-> v, left |-> ttl] IN
  IF k \in KeysOf(c) THEN ToFront(c, IndexOf(c, k), e) ELSE <<e>> \o Room(c, capacity)

Older(c) == [i \in DOMAIN c |-> [c[i] EXCEPT !.left = IF @ < 0 THEN @ ELSE @ - 1]]
=============================================================================
