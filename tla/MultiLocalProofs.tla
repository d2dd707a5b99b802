-------------------------- MODULE MultiLocalProofs --------------------------
(***************************************************************************)
(* What holds of the endpoint pool for any number of endpoints, any        *)
(* weights, any number of callers and any intervals of the health check.   *)
(***************************************************************************)
EXTENDS MultiLocal, FiniteSetTheorems, TLAPS

-----------------------------------------------------------------------------
(* The rotation *)

LEMMA EntryIsFinite == IsFiniteSet(Entry)
<1> DEFINE span == [e \in Endpoint |-> 1 .. Weight[e]]
           spans == {1 .. Weight[e] : e \in Endpoint}
<1>1. IsFiniteSet(Endpoint)
  BY EndpointsAssumption, FS_Interval DEF Endpoint
<1>2. span \in Surjection(Endpoint, spans)
  BY DEF Surjection
<1>3. IsFiniteSet(spans)
  BY <1>1, <1>2, FS_Surjection
<1>4. \A T \in spans : IsFiniteSet(T)
  <2>1. ASSUME NEW e \in Endpoint PROVE IsFiniteSet(1 .. Weight[e])
    <3>1. 1 \in Int /\ Weight[e] \in Int
      BY WeightAssumption
    <3>2. QED BY <3>1, FS_Interval
  <2>2. QED BY <2>1
<1>5. IsFiniteSet(UNION spans)
  BY <1>3, <1>4, FS_UNION
<1>6. IsFiniteSet(Endpoint \X UNION spans)
  BY <1>1, <1>5, FS_Product
<1>7. Entry \subseteq Endpoint \X UNION spans
  BY DEF Entry
<1>8. QED BY <1>6, <1>7, FS_Subset

\* The rank of an entry in the order of the rotation.
Rank(x) == Cardinality({y \in Entry : Before(y, x)})

LEMMA EntryType == \A x \in Entry : x[1] \in Endpoint /\ x[1] \in Int /\ x[2] \in Int
<1>1. \A e \in Endpoint : 1 .. Weight[e] \subseteq Int
  BY WeightAssumption
<1>2. QED BY <1>1, EndpointsAssumption DEF Entry, Endpoint

\* A later entry has all before an earlier one, and that one, before it.
LEMMA RankGrows ==
  ASSUME NEW x \in Entry, NEW y \in Entry, Before(x, y)
  PROVE  Rank(x) < Rank(y)
<1> DEFINE X == {z \in Entry : Before(z, x)}  Y == {z \in Entry : Before(z, y)}
<1>1. X \subseteq Y
  BY EntryType DEF Before
<1>2. x \in Y /\ x \notin X
  BY EntryType DEF Before
<1>3. IsFiniteSet(Y)
  BY EntryIsFinite, FS_Subset
<1>4. Cardinality(X) <= Cardinality(Y) /\ Cardinality(X) # Cardinality(Y)
      /\ IsFiniteSet(X)
  BY <1>1, <1>2, <1>3, FS_Subset
<1>5. Cardinality(X) \in Nat /\ Cardinality(Y) \in Nat
  BY <1>3, <1>4, FS_CardinalityType
<1>6. QED BY <1>4, <1>5 DEF Rank

LEMMA RankIsSlot == ASSUME NEW x \in Entry PROVE Rank(x) \in Slot /\ Slots \in Nat
<1> DEFINE X == {y \in Entry : Before(y, x)}
<1>1. x \notin X /\ X \subseteq Entry
  BY EntryType DEF Before
<1>2. Cardinality(X) <= Slots /\ Cardinality(X) # Slots /\ IsFiniteSet(X)
  BY <1>1, EntryIsFinite, FS_Subset DEF Slots
<1>3. Cardinality(X) \in Nat /\ Slots \in Nat
  BY <1>2, EntryIsFinite, FS_CardinalityType DEF Slots
<1>4. QED BY <1>2, <1>3 DEF Rank, Slot

\* Entries with the same rank are the same.
LEMMA RankIsUnique ==
  ASSUME NEW x \in Entry, NEW y \in Entry, Rank(x) = Rank(y)
  PROVE  x = y
<1>1. ~Before(x, y) /\ ~Before(y, x)
  BY RankGrows, RankIsSlot DEF Slot
<1>2. x[1] = y[1] /\ x[2] = y[2]
  BY <1>1, EntryType DEF Before
<1>3. QED BY <1>2 DEF Entry

\* Every endpoint has a slot: its first entry has a rank, and the entry chosen
\* for that slot is this one.
LEMMA EveryEndpointHasASlot == \A e \in Endpoint : \E k \in Slot : Rotation[k] = e
<1> SUFFICES ASSUME NEW e \in Endpoint PROVE \E k \in Slot : Rotation[k] = e
  OBVIOUS
<1> DEFINE x == <<e, 1>>  k == Rank(x)
<1>1. 1 \in 1 .. Weight[e]
  BY WeightAssumption
<1>2. x \in Entry
  BY <1>1, WeightAssumption DEF Entry
<1>3. k \in Slot
  BY <1>2, RankIsSlot
<1>4. \A y \in Entry : Rank(y) = k => y = x
  BY <1>2, RankIsUnique
<1>5. (CHOOSE y \in Entry : Rank(y) = k) = x
  BY <1>2, <1>4
<1>6. Rotation[k] = x[1]
  BY <1>3, <1>5 DEF Rotation, Rank
<1>7. QED BY <1>3, <1>6

LEMMA SlotsPositive == Slots \in Nat \ {0} /\ 0 \in Slot
<1>1. 1 \in Endpoint
  BY EndpointsAssumption DEF Endpoint
<1>2. <<1, 1>> \in Entry
  BY <1>1, WeightAssumption DEF Entry
<1>3. QED BY <1>2, RankIsSlot DEF Slot

\* And every slot has an endpoint: ranks are as many as there are slots.
LEMMA RotationType == \A k \in Slot : Rotation[k] \in Endpoint
<1> DEFINE rank == [x \in Entry |-> Rank(x)]
<1>1. Slots \in Nat \ {0}
  BY SlotsPositive
<1>2. IsFiniteSet(Slot) /\ Cardinality(Slot) = Slots
  <2>1. 0 \in Int /\ Slots - 1 \in Int /\ ~(0 > Slots - 1) /\ (Slots - 1) - 0 + 1 = Slots
    BY <1>1
  <2>2. QED BY <2>1, FS_Interval DEF Slot
<1>3. rank \in Injection(Entry, Slot)
  BY RankIsSlot, RankIsUnique DEF Injection, IsInjective
<1>4. rank \in Surjection(Entry, Slot)
  BY <1>2, <1>3, FS_Injection DEF Slots
<1>5. ASSUME NEW k \in Slot PROVE Rotation[k] \in Endpoint
  <2>1. PICK x \in Entry : Rank(x) = k
    BY <1>4 DEF Surjection
  <2>2. (CHOOSE y \in Entry : Rank(y) = k) \in Entry
    BY <2>1
  <2>3. QED BY <2>2, EntryType DEF Rotation, Rank
<1>6. QED BY <1>5

LEMMA AfterSlotIs ==
  ASSUME NEW k \in Slot
  PROVE  AfterSlot(k) = IF k + 1 = Slots THEN 0 ELSE k + 1
BY SlotsPositive DEF AfterSlot, Slot
-----------------------------------------------------------------------------
(* The health checks *)

CheckTypes ==
  /\ healthy \in [Endpoint -> BOOLEAN]
  /\ fails \in [Endpoint -> Nat]
  /\ recheck \in [Endpoint -> Int]
  /\ check \in [pc : {"wait", "off", "visit", "verdict", "record"}, ep : Int,
                age : 0 .. RoundLimit, result : BOOLEAN]

\* Only a verdict puts an endpoint back, and what is recorded next is what the
\* verdict was; a call may have taken the endpoint out again in between.
RecordsVerdict ==
  check.pc \in {"verdict", "record"} =>
    check.ep \in Endpoint /\ (check.pc = "record" /\ healthy[check.ep] => check.result)

\* InRotationIsProbed with the ages spelled out.
ProbedSoon ==
  \A e \in Endpoint :
    healthy[e] /\ ~(check.ep = e /\ check.pc = "record") => recheck[e] <= -check.age

CheckInv == CheckTypes /\ RecordsVerdict /\ ProbedSoon

LEMMA CheckInit == Init => CheckInv
BY EndpointsAssumption, TimeAssumption
   DEF Init, CheckInv, CheckTypes, RecordsVerdict, ProbedSoon, CheckAt, Due, Endpoint

\* What a call or Close can do to it: take endpoints out of the rotation.
LEMMA CallKeepsChecks ==
  ASSUME CheckInv, UNCHANGED <<fails, recheck, check>>,
         healthy' = healthy \/ \E e : healthy' = [healthy EXCEPT ![e] = FALSE]
  PROVE  CheckInv'
<1>1. healthy' \in [Endpoint -> BOOLEAN] /\ \A e \in Endpoint : healthy'[e] => healthy[e]
  BY DEF CheckInv, CheckTypes
<1>2. CheckTypes'
  BY <1>1 DEF CheckInv, CheckTypes
<1>3. RecordsVerdict' /\ ProbedSoon'
  BY <1>1 DEF CheckInv, RecordsVerdict, ProbedSoon
<1>4. QED BY <1>2, <1>3 DEF CheckInv

LEMMA VerdictInv == CheckInv /\ Verdict => CheckInv'
<1> SUFFICES ASSUME CheckInv, Verdict PROVE CheckInv'
  OBVIOUS
<1> USE DEF CheckInv
<1>1. /\ healthy' = [healthy EXCEPT ![check.ep] = check.result]
      /\ check' = [check EXCEPT !.pc = "record"] /\ check.pc = "verdict"
      /\ UNCHANGED <<fails, recheck>>
  BY DEF Verdict, SetHealthy
<1>2. check.ep \in Endpoint
  BY <1>1 DEF RecordsVerdict
<1>3. CheckTypes'
  BY <1>1, <1>2 DEF CheckTypes
<1>4. RecordsVerdict'
  BY <1>1, <1>2 DEF RecordsVerdict, CheckTypes
<1>5. ProbedSoon'
  BY <1>1, <1>2 DEF ProbedSoon, CheckTypes
<1>6. QED BY <1>3, <1>4, <1>5

LEMMA RecordInv == CheckInv /\ Record => CheckInv'
<1> SUFFICES ASSUME CheckInv, Record PROVE CheckInv'
  OBVIOUS
<1> DEFINE e == check.ep
           failed == Smaller(fails[e] + 1, MaxBackoff)
<1> USE DEF CheckInv
<1>1. /\ fails' = [fails EXCEPT ![e] = IF check.result THEN 0 ELSE failed]
      /\ recheck' = [recheck EXCEPT ![e] =
           IF check.result THEN Due ELSE Larger(failed * Interval - check.age, Due)]
      /\ check' = CheckAt("visit", e + 1, check.age, FALSE)
      /\ check.pc = "record" /\ UNCHANGED healthy
  BY DEF Record, NextEndpoint
<1>2. e \in Endpoint /\ (healthy[e] => check.result)
  BY <1>1 DEF RecordsVerdict
<1>3. failed \in Nat
  BY <1>2, TimeAssumption DEF CheckTypes, Smaller
<1>4. failed * Interval \in Int
  BY <1>3, TimeAssumption
<1>5. check.age \in 0 .. RoundLimit /\ RoundLimit \in Nat /\ Due = -RoundLimit
  BY TimeAssumption DEF CheckTypes, Due
<1>6. Larger(failed * Interval - check.age, Due) \in Int
  BY <1>4, <1>5 DEF Larger
<1> HIDE DEF failed
<1>7. CheckTypes'
  BY <1>1, <1>2, <1>3, <1>5, <1>6 DEF CheckTypes, CheckAt
<1>8. RecordsVerdict'
  BY <1>1 DEF RecordsVerdict, CheckAt
<1>9. ProbedSoon'
  <2>1. ASSUME NEW x \in Endpoint, healthy[x] PROVE recheck'[x] <= -check.age
    <3>1. CASE x = e
      BY <2>1, <3>1, <1>1, <1>2, <1>5 DEF CheckTypes
    <3>2. CASE x # e
      BY <2>1, <3>2, <1>1 DEF CheckTypes, ProbedSoon
    <3>3. QED BY <3>1, <3>2
  <2>2. QED BY <1>1, <2>1 DEF ProbedSoon, CheckAt
<1>10. QED BY <1>7, <1>8, <1>9

\* The other steps of a round: the age of the round stays, or is zero again.
LEMMA RoundInv ==
  CheckInv /\ (RoundBegins \/ RoundEnds \/ SkipEndpoint \/ Probe \/ CheckerStops) => CheckInv'
<1> SUFFICES ASSUME CheckInv, RoundBegins \/ RoundEnds \/ SkipEndpoint \/ Probe \/ CheckerStops
             PROVE CheckInv'
  OBVIOUS
<1> USE DEF CheckInv
<1>1. /\ UNCHANGED <<healthy, fails, recheck>>
      /\ check.pc # "record" /\ check'.pc # "record"
      /\ check'.age \in {check.age, 0}
      /\ check' \in [pc : {"wait", "off", "visit", "verdict", "record"}, ep : Int,
                     age : 0 .. RoundLimit, result : BOOLEAN]
      /\ check'.pc = "verdict" => check'.ep \in Endpoint
  <2>1. CASE RoundBegins
    BY <2>1, TimeAssumption DEF RoundBegins, CheckAt, CheckTypes
  <2>2. CASE RoundEnds
    BY <2>2, TimeAssumption DEF RoundEnds, CheckAt, CheckTypes, NoEndpoint
  <2>3. CASE SkipEndpoint
    BY <2>3, EndpointsAssumption DEF SkipEndpoint, NextEndpoint, CheckAt, CheckTypes, Endpoint
  <2>4. CASE Probe
    BY <2>4, EndpointsAssumption DEF Probe, CheckAt, CheckTypes, Endpoint
  <2>5. CASE CheckerStops
    BY <2>5 DEF CheckerStops, CheckTypes
  <2>6. QED BY <2>1, <2>2, <2>3, <2>4, <2>5
<1>2. CheckTypes'
  BY <1>1 DEF CheckTypes
<1>3. RecordsVerdict'
  BY <1>1 DEF RecordsVerdict
<1>4. ProbedSoon'
  BY <1>1 DEF ProbedSoon, CheckTypes
<1>5. QED BY <1>2, <1>3, <1>4

\* Time brings the next check nearer as fast as it ages the round.
LEMMA TickInv == CheckInv /\ Tick => CheckInv'
<1> SUFFICES ASSUME CheckInv, Tick PROVE CheckInv'
  OBVIOUS
<1> USE DEF CheckInv
<1>1. /\ check.pc \in {"wait", "off"} \/ check.age < RoundLimit
      /\ check' = IF check.pc \in {"wait", "off"} THEN check ELSE [check EXCEPT !.age = @ + 1]
      /\ recheck' = [e \in Endpoint |-> Larger(recheck[e] - 1, Due)]
      /\ UNCHANGED <<healthy, fails>>
  BY DEF Tick
<1>2. Due = -RoundLimit /\ RoundLimit \in Nat /\ check.age \in 0 .. RoundLimit
  BY TimeAssumption DEF Due, CheckTypes
<1>3. check'.pc = check.pc /\ check'.ep = check.ep /\ check'.result = check.result
      /\ check'.age \in 0 .. RoundLimit /\ check'.age <= check.age + 1
      /\ check' \in [pc : {"wait", "off", "visit", "verdict", "record"}, ep : Int,
                     age : 0 .. RoundLimit, result : BOOLEAN]
  BY <1>1, <1>2 DEF CheckTypes
<1>4. \A e \in Endpoint : recheck'[e] \in Int /\ (recheck'[e] = recheck[e] - 1 \/ recheck'[e] = -RoundLimit)
  BY <1>1, <1>2 DEF Larger, CheckTypes
<1>5. CheckTypes'
  BY <1>1, <1>3, <1>4 DEF CheckTypes
<1>6. RecordsVerdict'
  BY <1>1, <1>3 DEF RecordsVerdict
<1>7. ProbedSoon'
  BY <1>1, <1>2, <1>3, <1>4 DEF ProbedSoon, CheckTypes
<1>8. QED BY <1>5, <1>6, <1>7

LEMMA CheckStepInv == CheckInv /\ [Next]_vars => CheckInv'
<1> SUFFICES ASSUME CheckInv, [Next]_vars PROVE CheckInv'
  OBVIOUS
<1>1. ASSUME NEW c \in Call, Begin(c) \/ CallStep(c) PROVE CheckInv'
  <2>1. UNCHANGED <<fails, recheck, check>>
    BY <1>1 DEF Begin, CallStep, CallRuns, AttemptEnds, NextSlot, PickHealthy, SkipUnhealthy, BestEffort, GiveUp,
       Returns, AttemptFails, Blame, unchangedByCall, checkerVars
  <2>2. healthy' = healthy \/ \E e : healthy' = [healthy EXCEPT ![e] = FALSE]
    BY <1>1 DEF Begin, CallStep, CallRuns, AttemptEnds, NextSlot, PickHealthy, SkipUnhealthy, BestEffort, GiveUp,
       Returns, AttemptFails, Blame, SetHealthy
  <2>3. QED BY <2>1, <2>2, CallKeepsChecks
<1>2. CASE CheckStep \/ CheckerStops
  BY <1>2, VerdictInv, RecordInv, RoundInv DEF CheckStep
<1>3. CASE Close \/ Closed \/ UNCHANGED vars
  BY <1>3, CallKeepsChecks DEF Close, Closed, vars, poolVars
<1>4. CASE Tick
  BY <1>4, TickInv
<1>5. QED BY <1>1, <1>2, <1>3, <1>4 DEF Next

LEMMA CheckInvariant == Spec => []CheckInv
<1> QED BY CheckInit, CheckStepInv, PTL DEF Spec

\* However calls take endpoints out while a round probes them, and however long
\* the round lasts, an endpoint left in rotation is due in the next round.
THEOREM Probed == Spec => []InRotationIsProbed
<1>1. CheckInv => InRotationIsProbed
  BY TimeAssumption DEF CheckInv, CheckTypes, ProbedSoon, InRotationIsProbed, BackingOff
<1> QED BY <1>1, CheckInvariant, PTL
-----------------------------------------------------------------------------
(* Trips *)

\* How many slots after the one at s the scan comes to k.
Ahead(s, k) == IF k >= s THEN k - s ELSE k - s + Slots

CallRecord ==
  [pc : {"idle", "next", "scan", "sent", "lastResort", "blame", "failed"},
   slot : Slot, left : 0 .. Slots, ep : Endpoint \cup {NoEndpoint},
   tries : Nat, owed : SUBSET Endpoint]

CallTypes ==
  /\ healthy \in [Endpoint -> BOOLEAN]
  /\ counter \in Slot
  /\ call \in [Call -> CallRecord]

\* Who is owed a try is in rotation.
OwedAreHealthy == \A c \in Call : \A e \in call[c].owed : healthy[e]

\* The slots of who is owed a try are all among those the scan has not passed,
\* and not the one it waits at for an answer.
OwedIsAhead(c) ==
  /\ call[c].pc \in {"scan", "sent", "blame"} =>
       \A k \in Slot : Rotation[k] \in call[c].owed =>
         Ahead(call[c].slot, k) < call[c].left
  /\ call[c].pc \in {"sent", "blame"} =>
       call[c].left > 0 /\ Rotation[call[c].slot] \notin call[c].owed
  /\ call[c].pc = "failed" => call[c].owed = {}

TripInv == CallTypes /\ OwedAreHealthy /\ \A c \in TripCalls : OwedIsAhead(c)

LEMMA CallAtType ==
  ASSUME NEW pc \in {"idle", "next", "scan", "sent", "lastResort", "blame", "failed"},
         NEW tries \in Nat, NEW owed \in SUBSET Endpoint
  PROVE  CallAt(pc, tries, owed) \in CallRecord
BY SlotsPositive DEF CallAt, CallRecord, NoEndpoint

LEMMA TripInit == Init => TripInv
<1> SUFFICES ASSUME Init PROVE TripInv
  OBVIOUS
<1>1. call = [c \in Call |-> CallAt("idle", 0, {})]
  BY DEF Init
<1>2. CallAt("idle", 0, {}) \in CallRecord
  BY CallAtType
<1>3. CallTypes
  BY <1>1, <1>2, SlotsPositive DEF Init, CallTypes
<1>4. \A c \in Call : call[c].owed = {} /\ call[c].pc = "idle"
  BY <1>1 DEF CallAt
<1>5. QED BY <1>3, <1>4 DEF TripInv, OwedAreHealthy, OwedIsAhead, Call

\* The scan moves on by one slot, and what is ahead comes nearer by one.
LEMMA AheadOfNext ==
  ASSUME NEW s \in Slot, NEW k \in Slot, NEW left \in 1 .. Slots, k # s, Ahead(s, k) < left
  PROVE  AfterSlot(s) \in Slot /\ Ahead(AfterSlot(s), k) < left - 1
<1>1. AfterSlot(s) = IF s + 1 = Slots THEN 0 ELSE s + 1
  BY AfterSlotIs
<1>2. QED BY <1>1, SlotsPositive DEF Ahead, Slot

\* A step of one caller, in which others can only be owed less.
LEMMA CallFrame ==
  ASSUME TripInv, NEW c \in Call,
         healthy' \in [Endpoint -> BOOLEAN], counter' \in Slot,
         call' \in [Call -> CallRecord],
         \A d \in Call : \A e \in call'[d].owed : healthy[e] => healthy'[e],
         \A d \in Call : d # c =>
           /\ call'[d].pc = call[d].pc /\ call'[d].slot = call[d].slot
           /\ call'[d].left = call[d].left /\ call'[d].owed \subseteq call[d].owed,
         \A e \in call'[c].owed : healthy[e],
         c \in TripCalls => OwedIsAhead(c)'
  PROVE  TripInv'
<1> USE DEF TripInv
<1>1. CallTypes'
  BY DEF CallTypes
<1>2. OwedAreHealthy'
  BY DEF OwedAreHealthy
<1>3. ASSUME NEW d \in TripCalls, d # c PROVE OwedIsAhead(d)'
  BY <1>3 DEF OwedIsAhead, Call
<1>4. QED BY <1>1, <1>2, <1>3

\* A step that changes the record of its own caller only.
LEMMA OwnFrame ==
  ASSUME TripInv, NEW c \in Call, NEW next \in CallRecord,
         call' = [call EXCEPT ![c] = next], UNCHANGED healthy, counter' \in Slot,
         \A e \in next.owed : healthy[e],
         c \in TripCalls => OwedIsAhead(c)'
  PROVE  TripInv'
<1>1. /\ call' \in [Call -> CallRecord] /\ call'[c] = next
      /\ \A d \in Call : d # c => call'[d] = call[d]
  BY DEF TripInv, CallTypes
<1>2. healthy' \in [Endpoint -> BOOLEAN]
  BY DEF TripInv, CallTypes
<1>3. QED BY <1>1, <1>2, CallFrame

LEMMA BeginInv == ASSUME NEW c \in Call, TripInv, Begin(c) PROVE TripInv'
<1> DEFINE next == CallAt("next", 0, {e \in Endpoint : healthy[e]})
<1>1. call' = [call EXCEPT ![c] = next] /\ UNCHANGED <<healthy, counter>>
  BY DEF Begin
<1>2. next \in CallRecord
  BY CallAtType
<1>3. next.pc = "next" /\ \A e \in next.owed : healthy[e]
  BY DEF CallAt
<1>4. OwedIsAhead(c)'
  BY <1>1, <1>3 DEF OwedIsAhead, TripInv, CallTypes
<1> HIDE DEF next
<1>5. QED BY <1>1, <1>2, <1>3, <1>4, OwnFrame DEF TripInv, CallTypes

LEMMA NextSlotInv == ASSUME NEW c \in Call, TripInv, NextSlot(c) PROVE TripInv'
<1> DEFINE next == [call[c] EXCEPT !.pc = "scan", !.slot = counter, !.left = Slots]
<1>1. /\ call' = [call EXCEPT ![c] = next] /\ UNCHANGED healthy
      /\ counter' = AfterSlot(counter)
  BY DEF NextSlot
<1>2. counter \in Slot /\ counter' \in Slot
  BY <1>1, AfterSlotIs, SlotsPositive DEF TripInv, CallTypes, Slot
<1>3. next \in CallRecord
  <2>1. call[c] \in CallRecord /\ Slots \in 0 .. Slots
    BY SlotsPositive DEF TripInv, CallTypes
  <2>2. QED BY <1>2, <2>1 DEF CallRecord
<1>4. next.pc = "scan" /\ next.slot = counter /\ next.left = Slots /\ next.owed = call[c].owed
  BY DEF TripInv, CallTypes, CallRecord
<1>5. \A k \in Slot : Ahead(counter, k) < Slots
  BY <1>2, SlotsPositive DEF Ahead, Slot
<1> HIDE DEF next
<1>6. OwedIsAhead(c)'
  BY <1>1, <1>4, <1>5 DEF OwedIsAhead, TripInv, CallTypes
<1>7. QED BY <1>1, <1>2, <1>3, <1>4, <1>6, OwnFrame DEF TripInv, OwedAreHealthy

\* Whoever is asked is no longer owed a try.
LEMMA PickHealthyInv == ASSUME NEW c \in Call, TripInv, PickHealthy(c) PROVE TripInv'
<1> DEFINE k == call[c]
           e == Rotation[k.slot]
           next == call'[c]
<1>1. /\ k.pc = "scan" /\ k.left > 0 /\ Send(c, e, "sent") /\ UNCHANGED <<healthy, counter>>
  BY DEF PickHealthy
<1>2. k \in CallRecord /\ k.slot \in Slot /\ e \in Endpoint
  BY RotationType DEF TripInv, CallTypes, CallRecord
<1>3. /\ next \in CallRecord /\ call' = [call EXCEPT ![c] = next]
      /\ next.owed = k.owed \ {e}
      /\ c \in TripCalls => next.pc = "sent" /\ next.slot = k.slot /\ next.left = k.left
  <2>1. CASE c \in TripCalls
    <3>1. call' = [call EXCEPT ![c] = [k EXCEPT !.pc = "sent", !.ep = e, !.owed = @ \ {e}]]
      BY <1>1, <2>1 DEF Send
    <3>2. QED BY <1>2, <3>1 DEF TripInv, CallTypes, CallRecord
  <2>2. CASE c \notin TripCalls
    <3>1. call' = [call EXCEPT ![c] =
                    [CallAt("sent", k.tries, k.owed) EXCEPT !.pc = "sent", !.ep = e, !.owed = @ \ {e}]]
      BY <1>1, <2>2 DEF Send
    <3>2. CallAt("sent", k.tries, k.owed) \in CallRecord /\ CallAt("sent", k.tries, k.owed).owed = k.owed
      BY <1>2, CallAtType DEF CallRecord, CallAt
    <3>3. QED BY <1>2, <2>2, <3>1, <3>2 DEF TripInv, CallTypes, CallRecord
  <2>3. QED BY <2>1, <2>2
<1>4. \A x \in next.owed : healthy[x]
  BY <1>3 DEF TripInv, OwedAreHealthy
<1>5. c \in TripCalls => OwedIsAhead(c)'
  BY <1>1, <1>2, <1>3 DEF OwedIsAhead, TripInv, CallRecord
<1> HIDE DEF next
<1>6. QED BY <1>1, <1>3, <1>4, <1>5, OwnFrame DEF TripInv, CallTypes

\* A slot passed over was that of nobody who is owed a try.
LEMMA SkipUnhealthyInv == ASSUME NEW c \in Call, TripInv, SkipUnhealthy(c) PROVE TripInv'
<1> DEFINE k == call[c]
           next == [k EXCEPT !.slot = AfterSlot(@), !.left = @ - 1]
<1>1. /\ k.pc = "scan" /\ k.left > 0 /\ ~healthy[Rotation[k.slot]]
      /\ call' = [call EXCEPT ![c] = next] /\ UNCHANGED <<healthy, counter>>
  BY DEF SkipUnhealthy
<1>2. k \in CallRecord /\ k.slot \in Slot /\ k.left \in 1 .. Slots
  BY <1>1, SlotsPositive DEF TripInv, CallTypes, CallRecord
<1>3. AfterSlot(k.slot) \in Slot /\ k.left - 1 \in 0 .. Slots
  BY <1>2, AfterSlotIs, SlotsPositive DEF Slot
<1>4. /\ next \in CallRecord /\ next.pc = "scan" /\ next.owed = k.owed
      /\ next.slot = AfterSlot(k.slot) /\ next.left = k.left - 1
  BY <1>1, <1>2, <1>3 DEF CallRecord
<1>5. Rotation[k.slot] \notin k.owed
  BY <1>1 DEF TripInv, OwedAreHealthy
<1>6. call'[c] = next
  BY <1>1 DEF TripInv, CallTypes
<1> HIDE DEF next
<1>7. ASSUME c \in TripCalls, NEW j \in Slot, Rotation[j] \in k.owed
      PROVE  Ahead(AfterSlot(k.slot), j) < k.left - 1
  <2>1. Ahead(k.slot, j) < k.left
    BY <1>1, <1>7 DEF TripInv, OwedIsAhead
  <2>2. j # k.slot
    BY <1>5, <1>7
  <2>3. QED BY <1>2, <2>1, <2>2, AheadOfNext
<1>8. c \in TripCalls => OwedIsAhead(c)'
  BY <1>4, <1>6, <1>7 DEF OwedIsAhead
<1>9. QED BY <1>1, <1>4, <1>8, OwnFrame DEF TripInv, CallTypes, OwedAreHealthy

LEMMA BestEffortInv == ASSUME NEW c \in Call, TripInv, BestEffort(c) PROVE TripInv'
<1> DEFINE k == call[c]
           next == call'[c]
           pc == IF c \in ChatCalls THEN "sent" ELSE "lastResort"
<1>1. Send(c, 1, pc) /\ UNCHANGED <<healthy, counter>>
  BY DEF BestEffort
<1>2. k \in CallRecord /\ 1 \in Endpoint
  BY EndpointsAssumption DEF TripInv, CallTypes, Endpoint
<1>3. /\ next \in CallRecord /\ call' = [call EXCEPT ![c] = next]
      /\ next.owed = k.owed \ {1}
      /\ c \in TripCalls => next.pc = "lastResort"
  <2>1. CASE c \in TripCalls
    <3>1. call' = [call EXCEPT ![c] = [k EXCEPT !.pc = pc, !.ep = 1, !.owed = @ \ {1}]]
      BY <1>1, <2>1 DEF Send
    <3>2. pc = "lastResort"
      BY <2>1, CallsAssumption
    <3>3. QED BY <1>2, <3>1, <3>2 DEF TripInv, CallTypes, CallRecord
  <2>2. CASE c \notin TripCalls
    <3>1. call' = [call EXCEPT ![c] =
                    [CallAt(pc, k.tries, k.owed) EXCEPT !.pc = pc, !.ep = 1, !.owed = @ \ {1}]]
      BY <1>1, <2>2 DEF Send
    <3>2. CallAt(pc, k.tries, k.owed) \in CallRecord /\ CallAt(pc, k.tries, k.owed).owed = k.owed
      BY <1>2, CallAtType DEF CallRecord, CallAt
    <3>3. QED BY <1>2, <2>2, <3>1, <3>2 DEF TripInv, CallTypes, CallRecord
  <2>3. QED BY <2>1, <2>2
<1>4. \A x \in next.owed : healthy[x]
  BY <1>3 DEF TripInv, OwedAreHealthy
<1>5. c \in TripCalls => OwedIsAhead(c)'
  BY <1>3 DEF OwedIsAhead
<1> HIDE DEF next, pc
<1>6. QED BY <1>1, <1>3, <1>4, <1>5, OwnFrame DEF TripInv, CallTypes

\* Nothing is ahead of a scan that has passed all slots, so nobody is owed a try.
LEMMA GiveUpInv == ASSUME NEW c \in Call, TripInv, GiveUp(c) PROVE TripInv'
<1> DEFINE k == call[c]
           next == CallAt("failed", 0, k.owed)
<1>1. /\ k.pc = "scan" /\ k.left = 0 /\ c \in TripCalls
      /\ call' = [call EXCEPT ![c] = next] /\ UNCHANGED <<healthy, counter>>
  BY DEF GiveUp
<1>2. k \in CallRecord /\ k.slot \in Slot /\ k.owed \subseteq Endpoint
  BY DEF TripInv, CallTypes, CallRecord
<1>3. k.owed = {}
  <2>1. SUFFICES ASSUME NEW e \in k.owed PROVE FALSE
    OBVIOUS
  <2>2. PICK j \in Slot : Rotation[j] = e
    BY <1>2, EveryEndpointHasASlot
  <2>3. Ahead(k.slot, j) < 0
    BY <1>1, <2>2 DEF TripInv, OwedIsAhead
  <2>4. QED BY <1>2, <2>3, SlotsPositive DEF Ahead, Slot
<1>4. next \in CallRecord /\ next.pc = "failed" /\ next.owed = {}
  BY <1>3, CallAtType DEF CallAt
<1>5. call'[c] = next
  BY <1>1 DEF TripInv, CallTypes
<1> HIDE DEF next
<1>6. OwedIsAhead(c)'
  BY <1>4, <1>5 DEF OwedIsAhead
<1>7. QED BY <1>1, <1>4, <1>6, OwnFrame DEF TripInv, CallTypes

LEMMA ReturnsInv == ASSUME NEW c \in Call, TripInv, Returns(c) PROVE TripInv'
<1> DEFINE next == CallAt("idle", 0, {})
<1>1. call' = [call EXCEPT ![c] = next] /\ UNCHANGED <<healthy, counter>>
  BY DEF Returns
<1>2. next \in CallRecord /\ next.pc = "idle" /\ next.owed = {}
  BY CallAtType DEF CallAt
<1>3. call'[c] = next
  BY <1>1 DEF TripInv, CallTypes
<1> HIDE DEF next
<1>4. OwedIsAhead(c)'
  BY <1>2, <1>3 DEF OwedIsAhead
<1>5. QED BY <1>1, <1>2, <1>4, OwnFrame DEF TripInv, CallTypes

LEMMA AttemptFailsInv == ASSUME NEW c \in Call, TripInv, AttemptFails(c) PROVE TripInv'
<1> DEFINE k == call[c]
           next == [k EXCEPT !.pc = "blame"]
<1>1. k.pc = "sent" /\ call' = [call EXCEPT ![c] = next] /\ UNCHANGED <<healthy, counter>>
  BY DEF AttemptFails
<1>2. k \in CallRecord
  BY DEF TripInv, CallTypes
<1>3. /\ next \in CallRecord /\ next.pc = "blame" /\ next.owed = k.owed
      /\ next.slot = k.slot /\ next.left = k.left
  BY <1>2 DEF CallRecord
<1>4. call'[c] = next
  BY <1>1 DEF TripInv, CallTypes
<1> HIDE DEF next
<1>5. c \in TripCalls => OwedIsAhead(c)'
  BY <1>1, <1>3, <1>4 DEF OwedIsAhead, TripInv
<1>6. QED BY <1>1, <1>3, <1>5, OwnFrame DEF TripInv, CallTypes, OwedAreHealthy

\* A trip goes on behind the slot it waited at, which is nobody's who is owed a
\* try; the endpoint that leaves the rotation is owed nothing by anyone.
LEMMA BlameInv == ASSUME NEW c \in Call, TripInv, Blame(c) PROVE TripInv'
<1> DEFINE k == call[c]
           goes == IF c \in ChatCalls THEN ChatGoesOn(c) ELSE TripGoesOn(c)
<1>1. /\ k.pc = "blame" /\ healthy' = [healthy EXCEPT ![k.ep] = FALSE] /\ UNCHANGED counter
      /\ call' = [d \in Call |-> [[call EXCEPT ![c] = goes][d] EXCEPT !.owed = @ \ {k.ep}]]
  BY DEF Blame, SetHealthy
<1>2. k \in CallRecord /\ call \in [Call -> CallRecord] /\ k.slot \in Slot
  BY DEF TripInv, CallTypes, CallRecord
<1>3. /\ goes \in CallRecord /\ goes.owed \subseteq k.owed
      /\ c \in TripCalls =>
           \/ goes.pc = "idle"
           \/ goes.pc = "scan" /\ goes.slot = AfterSlot(k.slot) /\ goes.left = k.left - 1
  <2>1. CASE c \in ChatCalls
    <3>1. goes = ChatGoesOn(c) /\ c \notin TripCalls
      BY <2>1, CallsAssumption
    <3>2. k.tries \in Nat /\ k.owed \in SUBSET Endpoint
      BY <1>2 DEF CallRecord
    <3>3. /\ CallAt("failed", 0, k.owed) \in CallRecord
          /\ CallAt("next", k.tries + 1, k.owed) \in CallRecord
      BY <3>2, CallAtType
    <3>4. ChatGoesOn(c) \in CallRecord /\ ChatGoesOn(c).owed = k.owed
      BY <3>3 DEF ChatGoesOn, CallAt
    <3>5. QED BY <3>1, <3>4
  <2>2. CASE c \in TripCalls
    <3>1. goes = TripGoesOn(c)
      BY <2>2, CallsAssumption
    <3>2. CASE c \in OneShot
      BY <3>1, <3>2, CallAtType DEF TripGoesOn, CallAt
    <3>3. CASE c \notin OneShot
      <4>1. goes = [k EXCEPT !.pc = "scan", !.slot = AfterSlot(@), !.left = @ - 1, !.tries = 1]
        BY <3>1, <3>3 DEF TripGoesOn
      <4>2. k.left > 0
        BY <1>1, <2>2 DEF TripInv, OwedIsAhead
      <4>3. AfterSlot(k.slot) \in Slot /\ k.left - 1 \in 0 .. Slots
        <5>1. k.left \in 0 .. Slots
          BY <1>2 DEF CallRecord
        <5>2. AfterSlot(k.slot) \in Slot
          BY <1>2, AfterSlotIs, SlotsPositive DEF Slot
        <5>3. QED BY <4>2, <5>1, <5>2, SlotsPositive
      <4>4. goes \in CallRecord
        <5>1. \A r \in CallRecord, s \in Slot, left \in 0 .. Slots :
                [r EXCEPT !.pc = "scan", !.slot = s, !.left = left, !.tries = 1] \in CallRecord
          BY DEF CallRecord
        <5>2. [k EXCEPT !.pc = "scan", !.slot = AfterSlot(k.slot), !.left = k.left - 1, !.tries = 1]
                \in CallRecord
          BY <1>2, <4>3, <5>1
        <5>3. QED BY <4>1, <5>2
      <4>5. /\ goes.pc = "scan" /\ goes.slot = AfterSlot(k.slot) /\ goes.left = k.left - 1
            /\ goes.owed = k.owed
        BY <1>2, <4>1 DEF CallRecord
      <4>6. QED BY <4>4, <4>5
    <3>4. QED BY <3>2, <3>3
  <2>3. QED BY <2>1, <2>2 DEF Call
<1> HIDE DEF goes
<1>4. /\ call' \in [Call -> CallRecord]
      /\ call'[c] = [goes EXCEPT !.owed = @ \ {k.ep}]
      /\ \A d \in Call : d # c => call'[d] = [call[d] EXCEPT !.owed = @ \ {k.ep}]
  <2>1. [call EXCEPT ![c] = goes] \in [Call -> CallRecord]
    BY <1>2, <1>3
  <2>2. \A r \in CallRecord : [r EXCEPT !.owed = @ \ {k.ep}] \in CallRecord
    BY DEF CallRecord
  <2>3. QED BY <1>1, <1>2, <2>1, <2>2
<1>5. /\ call'[c].pc = goes.pc /\ call'[c].slot = goes.slot /\ call'[c].left = goes.left
      /\ call'[c].owed = goes.owed \ {k.ep}
  BY <1>3, <1>4 DEF CallRecord
<1>6. \A d \in Call : d # c =>
        /\ call'[d].pc = call[d].pc /\ call'[d].slot = call[d].slot
        /\ call'[d].left = call[d].left /\ call'[d].owed = call[d].owed \ {k.ep}
  BY <1>2, <1>4 DEF CallRecord
<1>7. healthy' \in [Endpoint -> BOOLEAN]
      /\ \A e \in Endpoint : e # k.ep => healthy'[e] = healthy[e]
  BY <1>1 DEF TripInv, CallTypes
<1>8. \A d \in Call : call'[d].owed \subseteq Endpoint /\ k.ep \notin call'[d].owed
  BY <1>4, <1>5, <1>6 DEF CallRecord
<1>9. \A e \in call'[c].owed : healthy[e]
  BY <1>3, <1>5 DEF TripInv, OwedAreHealthy
<1>10. c \in TripCalls => OwedIsAhead(c)'
  <2>1. ASSUME c \in TripCalls, goes.pc = "scan", NEW j \in Slot, Rotation[j] \in k.owed
        PROVE  Ahead(AfterSlot(k.slot), j) < k.left - 1
    <3>1. Ahead(k.slot, j) < k.left /\ k.left > 0 /\ j # k.slot
      BY <1>1, <2>1 DEF TripInv, OwedIsAhead
    <3>2. k.left \in 1 .. Slots
      BY <1>2, <3>1, SlotsPositive DEF CallRecord
    <3>3. QED BY <1>2, <3>1, <3>2, AheadOfNext
  <2>2. QED BY <1>3, <1>5, <2>1 DEF OwedIsAhead
<1>11. counter' \in Slot
  BY <1>1 DEF TripInv, CallTypes
<1>12. ASSUME NEW d \in Call, NEW e \in call'[d].owed PROVE healthy[e] => healthy'[e]
  <2>1. e \in Endpoint /\ e # k.ep
    BY <1>8
  <2>2. QED BY <1>7, <2>1
<1>13. call' \in [Call -> CallRecord] /\ healthy' \in [Endpoint -> BOOLEAN]
  BY <1>4, <1>7
<1>14. \A d \in Call : d # c =>
        /\ call'[d].pc = call[d].pc /\ call'[d].slot = call[d].slot
        /\ call'[d].left = call[d].left /\ call'[d].owed \subseteq call[d].owed
  BY <1>6
<1>15. QED BY <1>9, <1>10, <1>11, <1>12, <1>13, <1>14, CallFrame

\* A verdict takes an endpoint out of the rotation and off what is owed, or puts
\* one back that nobody is owed.
LEMMA VerdictKeepsTrips == TripInv /\ CheckInv /\ Verdict => TripInv'
<1> SUFFICES ASSUME TripInv, CheckInv, Verdict PROVE TripInv'
  OBVIOUS
<1> DEFINE ep == check.ep
<1>1. /\ healthy' = [healthy EXCEPT ![ep] = check.result] /\ UNCHANGED counter
      /\ call' = [d \in Call |-> IF check.result THEN call[d] ELSE [call[d] EXCEPT !.owed = @ \ {ep}]]
  BY DEF Verdict, SetHealthy, unchangedByCheck
<1>2. call \in [Call -> CallRecord] /\ check.result \in BOOLEAN
  BY DEF TripInv, CallTypes, CheckInv, CheckTypes
<1>3. \A r \in CallRecord : LET s == [r EXCEPT !.owed = @ \ {ep}] IN
        s \in CallRecord /\ s.pc = r.pc /\ s.slot = r.slot /\ s.left = r.left /\ s.owed = r.owed \ {ep}
  BY DEF CallRecord
<1>4. /\ call' \in [Call -> CallRecord]
      /\ \A d \in Call :
           /\ call'[d].pc = call[d].pc /\ call'[d].slot = call[d].slot
           /\ call'[d].left = call[d].left
           /\ call'[d].owed = IF check.result THEN call[d].owed ELSE call[d].owed \ {ep}
  BY <1>1, <1>2, <1>3
<1>5. \A d \in Call : call'[d].owed \subseteq call[d].owed
  BY <1>4
<1>6. CallTypes'
  BY <1>1, <1>2, <1>4 DEF TripInv, CallTypes
<1>7. OwedAreHealthy'
  <2>1. SUFFICES ASSUME NEW d \in Call, NEW e \in call'[d].owed PROVE healthy'[e]
    BY DEF OwedAreHealthy
  <2>2. healthy[e] /\ e \in Endpoint
    BY <1>2, <1>5 DEF TripInv, OwedAreHealthy, CallRecord
  <2>3. e = ep => check.result
    BY <1>4
  <2>4. QED BY <1>1, <2>2, <2>3 DEF TripInv, CallTypes
<1>8. \A d \in TripCalls : OwedIsAhead(d)'
  BY <1>4, <1>5 DEF TripInv, OwedIsAhead, Call
<1>9. QED BY <1>6, <1>7, <1>8 DEF TripInv

LEMMA TripStutters == TripInv /\ UNCHANGED <<healthy, counter, call>> => TripInv'
BY DEF TripInv, CallTypes, OwedAreHealthy, OwedIsAhead

LEMMA TripStep == TripInv /\ CheckInv /\ [Next]_vars => TripInv'
<1> SUFFICES ASSUME TripInv, CheckInv, [Next]_vars PROVE TripInv'
  OBVIOUS
<1>1. ASSUME NEW c \in Call, Begin(c) \/ CallStep(c) PROVE TripInv'
  BY <1>1, BeginInv, NextSlotInv, PickHealthyInv, SkipUnhealthyInv, BestEffortInv, GiveUpInv,
     ReturnsInv, AttemptFailsInv, BlameInv DEF CallStep, CallRuns, AttemptEnds
<1>2. CASE Verdict
  BY <1>2, VerdictKeepsTrips
<1>3. CASE RoundBegins \/ RoundEnds \/ SkipEndpoint \/ Probe \/ Record \/ CheckerStops
  BY <1>3, TripStutters DEF RoundBegins, RoundEnds, SkipEndpoint, Probe, Record, CheckerStops,
     unchangedByCheck
<1>4. CASE Close \/ Closed \/ Tick \/ UNCHANGED vars
  BY <1>4, TripStutters DEF Close, Closed, Tick, vars, poolVars
<1>5. QED BY <1>1, <1>2, <1>3, <1>4 DEF Next, CheckStep

LEMMA TripInvariant == Spec => []TripInv
<1> QED BY TripInit, TripStep, CheckInvariant, PTL DEF Spec

\* A trip that gives up has tried every endpoint that stayed in rotation since it
\* began: with any weights, any number of callers that move the shared counter,
\* and a rotation that changes behind and ahead of its scan.
THEOREM TripTriesAll == Spec => []TripTriesEveryHealthy
<1>1. TripInv => TripTriesEveryHealthy
  BY DEF TripInv, OwedIsAhead, TripTriesEveryHealthy
<1> QED BY <1>1, TripInvariant, PTL
=============================================================================
