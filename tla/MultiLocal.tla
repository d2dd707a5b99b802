----------------------------- MODULE MultiLocal -----------------------------
(***************************************************************************)
(* The pool of local inference endpoints (src/providers/multiLocal.go):    *)
(* weighted round-robin, failover of chat calls and of the embedding and   *)
(* classifier clients' transport, and the background health checks with    *)
(* their backoff.                                                          *)
(*                                                                         *)
(* Every lock of the code guards one endpoint for one field access, so     *)
(* each access is an action: a scan looks at one slot per step, and a      *)
(* probe's verdict is stored some time after the probe.  The counter is    *)
(* only used modulo the length of the rotation and is kept modulo it.      *)
(* Streaming and plain completions choose an endpoint in the same way and  *)
(* are both "chat" calls.                                                  *)
(***************************************************************************)
EXTENDS Integers, FiniteSets

CONSTANTS
  Endpoints,    \* endpoints 1 .. Endpoints, in the order of the configuration
  Weight,       \* Weight[e] of endpoint e
  ChatCalls,    \* concurrent callers of ChatCompletion and ChatCompletionStream
  TripCalls,    \* concurrent requests through the round-robin transport
  OneShot,      \* the trips whose body has no GetBody
  Interval,     \* time units between two ticks of the health check ticker
  MaxBackoff,   \* maxBackoffMultiplier
  RoundLimit    \* bound: time units one round of checks may take

Endpoint == 1 .. Endpoints
Call == ChatCalls \cup TripCalls

ASSUME EndpointsAssumption == Endpoints \in Nat \ {0}
ASSUME WeightAssumption == Weight \in [Endpoint -> Nat \ {0}]
ASSUME CallsAssumption == ChatCalls \cap TripCalls = {} /\ OneShot \subseteq TripCalls
ASSUME TimeAssumption ==
  /\ Interval \in Nat \ {0} /\ MaxBackoff \in Nat \ {0}
  /\ RoundLimit \in Nat

\* The rotation: endpoint e takes Weight[e] consecutive slots.
Entry == {x \in Endpoint \X UNION {1 .. Weight[e] : e \in Endpoint} : x[2] <= Weight[x[1]]}
Before(x, y) == x[1] < y[1] \/ (x[1] = y[1] /\ x[2] < y[2])
Slots == Cardinality(Entry)
Slot == 0 .. Slots - 1
Rotation ==
  [k \in Slot |-> (CHOOSE x \in Entry : Cardinality({y \in Entry : Before(y, x)}) = k)[1]]

AfterSlot(k) == (k + 1) % Slots

VARIABLES
  healthy,   \* healthy[e]: e is in rotation
  fails,     \* consecutiveFails of e, counted up to MaxBackoff
  recheck,   \* nextCheck of e, relative to the time that is now
  counter,   \* the shared round-robin counter
  check,     \* the health check goroutine
  ticker,    \* time units until the ticker fires; whether a tick waits in its channel
  closing,   \* "open", "closing" once Close cancelled the context, "closed"
  call       \* the state of each caller

vars == <<healthy, fails, recheck, counter, check, ticker, closing, call>>
poolVars == <<healthy, fails, recheck, counter>>
checkerVars == <<check, ticker, closing>>

\* nextCheck in the past, as at the start and after a good probe.
Due == -RoundLimit
NoEndpoint == 0

\* result is the last probe's verdict.
CheckAt(pc, ep, age, result) == [pc |-> pc, ep |-> ep, age |-> age, result |-> result]

\* slot and left: where the scan of the rotation stands; tries: the attempts of a
\* chat call that ended in a network error, or whether a trip made any; owed: the
\* endpoints that were in rotation ever since the call began and that it has not
\* tried (no variable of the code).
CallAt(pc, tries, owed) ==
  [pc |-> pc, slot |-> 0, left |-> 0, ep |-> NoEndpoint, tries |-> tries, owed |-> owed]

\* The pool as NewMultiLocal and StartHealthChecks leave it.
Init ==
  /\ healthy = [e \in Endpoint |-> TRUE]
  /\ fails = [e \in Endpoint |-> 0]
  /\ recheck = [e \in Endpoint |-> Due]
  /\ counter = 0
  /\ check = CheckAt("visit", 1, 0, FALSE)
  /\ ticker = [left |-> Interval, pending |-> FALSE]
  /\ closing = "open"
  /\ call = [c \in Call |-> CallAt("idle", 0, {})]

\* setHealthy, together with the calls' record of who stayed in rotation.
\* What becomes of caller c is in next.
SetHealthy(e, h, next) ==
  /\ healthy' = [healthy EXCEPT ![e] = h]
  /\ call' = [c \in Call |-> IF h THEN next[c] ELSE [next[c] EXCEPT !.owed = @ \ {e}]]
-----------------------------------------------------------------------------
(* Calls *)

unchangedByCall == <<fails, recheck, checkerVars>>

Begin(c) ==
  /\ call[c].pc \in {"idle", "failed"}
  /\ call' = [call EXCEPT ![c] = CallAt("next", 0, {e \in Endpoint : healthy[e]})]
  /\ UNCHANGED <<unchangedByCall, healthy, counter>>

\* The atomic increment that opens a scan.
NextSlot(c) ==
  /\ call[c].pc = "next"
  /\ call' = [call EXCEPT ![c].pc = "scan", ![c].slot = counter, ![c].left = Slots]
  /\ counter' = AfterSlot(counter)
  /\ UNCHANGED <<unchangedByCall, healthy>>

\* A trip remembers its place in the rotation, a chat call does not.
Send(c, e, pc) ==
  LET k == call[c]
      at == IF c \in TripCalls THEN k ELSE CallAt(pc, k.tries, k.owed) IN
  call' = [call EXCEPT ![c] = [at EXCEPT !.pc = pc, !.ep = e, !.owed = @ \ {e}]]

\* The slot under the scan holds an endpoint that is in rotation.
PickHealthy(c) ==
  /\ call[c].pc = "scan" /\ call[c].left > 0
  /\ healthy[Rotation[call[c].slot]]
  /\ Send(c, Rotation[call[c].slot], "sent")
  /\ UNCHANGED <<unchangedByCall, healthy, counter>>

\* Mutant: the slot after an unhealthy endpoint is passed over with it.
SkipTwo(c) ==
  /\ call[c].pc = "scan" /\ call[c].left > 0
  /\ ~healthy[Rotation[call[c].slot]]
  /\ call' = [call EXCEPT ![c].slot = AfterSlot(AfterSlot(@)),
                          ![c].left = IF @ > 1 THEN @ - 2 ELSE 0]
  /\ UNCHANGED <<unchangedByCall, healthy, counter>>

SkipUnhealthy(c) ==
  /\ call[c].pc = "scan" /\ call[c].left > 0
  /\ ~healthy[Rotation[call[c].slot]]
  /\ call' = [call EXCEPT ![c].slot = AfterSlot(@), ![c].left = @ - 1]
  /\ UNCHANGED <<unchangedByCall, healthy, counter>>

\* No slot was healthy when the scan looked at it: the first endpoint gets the
\* request anyway, for a trip only if it has tried none.
BestEffort(c) ==
  /\ call[c].pc = "scan" /\ call[c].left = 0
  /\ c \in ChatCalls \/ call[c].tries = 0
  /\ Send(c, 1, IF c \in ChatCalls THEN "sent" ELSE "lastResort")
  /\ UNCHANGED <<unchangedByCall, healthy, counter>>

GiveUp(c) ==
  /\ call[c].pc = "scan" /\ call[c].left = 0
  /\ c \in TripCalls /\ call[c].tries > 0
  /\ call' = [call EXCEPT ![c] = CallAt("failed", 0, call[c].owed)]
  /\ UNCHANGED <<unchangedByCall, healthy, counter>>

\* The ends of one attempt.  Which errors speak for the endpoint being down is
\* isNetworkError: not a cancelled or expired request, not an answer with a
\* status.
Outcomes == {"ok", "status", "canceled", "deadline", "eof", "netError"}
NetworkError(outcome) == outcome \in {"eof", "netError"}

\* The call is over for its caller: an answer, an error that is not the
\* endpoint's, or the answer of the last resort whatever it is.
Returns(c) ==
  /\ \/ call[c].pc = "sent" /\ \E o \in Outcomes : ~NetworkError(o)
     \/ call[c].pc = "lastResort"
  /\ call' = [call EXCEPT ![c] = CallAt("idle", 0, {})]
  /\ UNCHANGED <<unchangedByCall, healthy, counter>>

AttemptFails(c) ==
  /\ call[c].pc = "sent" /\ \E o \in Outcomes : NetworkError(o)
  /\ call' = [call EXCEPT ![c].pc = "blame"]
  /\ UNCHANGED <<unchangedByCall, healthy, counter>>

\* A trip goes on with the next slot, unless its body is spent.
TripGoesOn(c) ==
  LET k == call[c] IN
  IF c \in OneShot THEN CallAt("idle", 0, {})
  ELSE [k EXCEPT !.pc = "scan", !.slot = AfterSlot(@), !.left = @ - 1, !.tries = 1]

\* Mutant: attempts are not counted, the call goes on while it fails.
ChatGoesOnForever(c) == CallAt("next", 0, call[c].owed)

\* A chat call scans anew, as often as there are endpoints.
ChatGoesOn(c) ==
  LET k == call[c] IN
  IF k.tries + 1 = Endpoints THEN CallAt("failed", 0, k.owed)
  ELSE CallAt("next", k.tries + 1, k.owed)

\* The endpoint of the failed attempt leaves the rotation.
Blame(c) ==
  /\ call[c].pc = "blame"
  /\ SetHealthy(call[c].ep, FALSE,
       [call EXCEPT ![c] = IF c \in ChatCalls THEN ChatGoesOn(c) ELSE TripGoesOn(c)])
  /\ UNCHANGED <<unchangedByCall, counter>>

\* What the gateway does by itself, and what it waits for an endpoint to do.
CallRuns(c) ==
  NextSlot(c) \/ PickHealthy(c) \/ SkipUnhealthy(c) \/ BestEffort(c) \/ GiveUp(c) \/ Blame(c)

AttemptEnds(c) == Returns(c) \/ AttemptFails(c)

CallStep(c) == CallRuns(c) \/ AttemptEnds(c)
-----------------------------------------------------------------------------
(* Health checks: checkAll visits the endpoints in order.  The round's time *)
(* is read once, when it begins; check.age is how long ago that was.        *)

unchangedByCheck == <<counter, closing>>

RoundBegins ==
  /\ check.pc = "wait" /\ ticker.pending
  /\ ticker' = [ticker EXCEPT !.pending = FALSE]
  /\ check' = CheckAt("visit", 1, 0, FALSE)
  /\ UNCHANGED <<unchangedByCheck, healthy, fails, recheck, call>>

RoundEnds ==
  /\ check.pc = "visit" /\ check.ep > Endpoints
  /\ check' = CheckAt("wait", NoEndpoint, 0, FALSE)
  /\ UNCHANGED <<unchangedByCheck, healthy, fails, recheck, call, ticker>>

NextEndpoint == check' = CheckAt("visit", check.ep + 1, check.age, FALSE)

\* now.Before(nextCheck), with the time the round began.
BackingOff(e) == recheck[e] > -check.age

SkipEndpoint ==
  /\ check.pc = "visit" /\ check.ep \in Endpoint
  /\ BackingOff(check.ep)
  /\ NextEndpoint
  /\ UNCHANGED <<unchangedByCheck, healthy, fails, recheck, call, ticker>>

\* Either probe path answers 200, or neither.
Probe ==
  /\ check.pc = "visit" /\ check.ep \in Endpoint
  /\ ~BackingOff(check.ep)
  /\ \E answers \in BOOLEAN :
       check' = CheckAt("verdict", check.ep, check.age, answers)
  /\ UNCHANGED <<unchangedByCheck, healthy, fails, recheck, call, ticker>>

\* Mutant: a probe cannot put an endpoint back that a call took out.
VerdictKeepsBlame ==
  /\ check.pc = "verdict"
  /\ SetHealthy(check.ep, check.result /\ healthy[check.ep], call)
  /\ check' = [check EXCEPT !.pc = "record"]
  /\ UNCHANGED <<unchangedByCheck, fails, recheck, ticker>>

\* The verdict is stored, over whatever a call found out since the probe.
Verdict ==
  /\ check.pc = "verdict"
  /\ SetHealthy(check.ep, check.result, call)
  /\ check' = [check EXCEPT !.pc = "record"]
  /\ UNCHANGED <<unchangedByCheck, fails, recheck, ticker>>

Smaller(a, b) == IF a < b THEN a ELSE b
Larger(a, b) == IF a < b THEN b ELSE a

\* Mutant: the backoff is set, whatever the probe said.
RecordBackoff ==
  /\ check.pc = "record"
  /\ LET e == check.ep
         failed == Smaller(fails[e] + 1, MaxBackoff) IN
     /\ fails' = [fails EXCEPT ![e] = IF check.result THEN 0 ELSE failed]
     /\ recheck' = [recheck EXCEPT ![e] = failed * Interval - check.age]
  /\ NextEndpoint
  /\ UNCHANGED <<unchangedByCheck, healthy, call, ticker>>

Record ==
  /\ check.pc = "record"
  /\ LET e == check.ep
         failed == Smaller(fails[e] + 1, MaxBackoff) IN
     /\ fails' = [fails EXCEPT ![e] = IF check.result THEN 0 ELSE failed]
     /\ recheck' = [recheck EXCEPT ![e] =
          IF check.result THEN Due ELSE Larger(failed * Interval - check.age, Due)]
  /\ NextEndpoint
  /\ UNCHANGED <<unchangedByCheck, healthy, call, ticker>>

\* Mutant: the goroutine stops only when no tick waits for it.
CheckerStopsWhenIdle ==
  /\ check.pc = "wait" /\ closing = "closing" /\ ~ticker.pending
  /\ check' = [check EXCEPT !.pc = "off"]
  /\ UNCHANGED <<unchangedByCheck, healthy, fails, recheck, call, ticker>>

\* The goroutine looks at the context between rounds only.
CheckerStops ==
  /\ check.pc = "wait" /\ closing = "closing"
  /\ check' = [check EXCEPT !.pc = "off"]
  /\ UNCHANGED <<unchangedByCheck, healthy, fails, recheck, call, ticker>>

Close ==
  /\ closing = "open" /\ closing' = "closing"
  /\ UNCHANGED <<poolVars, check, ticker, call>>

Closed ==
  /\ closing = "closing" /\ check.pc = "off" /\ closing' = "closed"
  /\ UNCHANGED <<poolVars, check, ticker, call>>

CheckStep == RoundBegins \/ RoundEnds \/ SkipEndpoint \/ Probe \/ Verdict \/ Record
-----------------------------------------------------------------------------
(* Time *)

\* The ticker's channel holds one tick; a tick nobody fetched is dropped.
Tick ==
  /\ check.pc \in {"wait", "off"} \/ check.age < RoundLimit
  /\ check' = IF check.pc \in {"wait", "off"} THEN check ELSE [check EXCEPT !.age = @ + 1]
  /\ recheck' = [e \in Endpoint |-> Larger(recheck[e] - 1, Due)]
  /\ ticker' = IF ticker.left > 1 THEN [ticker EXCEPT !.left = @ - 1]
               ELSE [left |-> Interval, pending |-> TRUE]
  /\ UNCHANGED <<healthy, fails, counter, closing, call>>

Next ==
  \/ \E c \in Call : Begin(c) \/ CallStep(c)
  \/ CheckStep \/ CheckerStops \/ Close \/ Closed
  \/ Tick

Spec == Init /\ [][Next]_vars

\* Goroutines that can run do run, a probe ends by its timeout, time passes, and a
\* select that finds both cases ready again and again takes each.  No attempt of a
\* call is made to end: completions have no timeout, and a backend that has taken a
\* request may keep silent for good.
Fairness ==
  /\ \A c \in Call : WF_vars(CallRuns(c))
  /\ WF_vars(CheckStep) /\ SF_vars(CheckerStops) /\ WF_vars(Closed)
  /\ WF_vars(Tick)

FairSpec == Spec /\ Fairness
-----------------------------------------------------------------------------
(* Properties *)

\* An endpoint in rotation is never in backoff: whoever put it back, and however
\* long the round that did took, the next round probes it, so its failure cannot
\* go unnoticed for longer than one round.
InRotationIsProbed ==
  \A e \in Endpoint :
    healthy[e] /\ ~(check.ep = e /\ check.pc = "record") => ~BackingOff(e)

\* A trip that reports that all endpoints failed has tried every endpoint that
\* was in rotation all along, whatever the other calls and the health checks
\* did to the rotation and the counter meanwhile.
TripTriesEveryHealthy ==
  \A c \in TripCalls : call[c].pc = "failed" => call[c].owed = {}

\* The same for a chat call, as docs/current/multi-endpoint.md has it: it goes
\* on "until either a request succeeds or all endpoints have been tried".
ChatTriesEveryHealthy ==
  \A c \in ChatCalls : call[c].pc = "failed" => call[c].owed = {}

ProbesAnswered(e) ==
  check.ep = e /\ check.pc \in {"verdict", "record"} => check.result

\* A backend that answers every probe from some time on is in rotation again and
\* again: neither its backoff nor a call that blamed it late, after a probe had
\* found it healthy, keeps it out.
BackendRecovers ==
  \A e \in Endpoint :
    (<>[]ProbesAnswered(e) /\ [](closing = "open")) => []<>healthy[e]

\* No attempt goes on for ever: the backend answers it, or it fails.  This is an
\* assumption about the backends that no timeout of the code stands for.
AttemptsEnd(c) == []<>(call[c].pc \notin {"sent", "lastResort"})

\* A call none of whose attempts goes on for ever returns to its caller, even when
\* endpoints come back into rotation as fast as the call takes them out: failover
\* does not go round in circles, and asks nothing of the other callers' backends.
CallReturns ==
  \A c \in Call :
    AttemptsEnd(c) => (call[c].pc # "idle" ~> call[c].pc \in {"idle", "failed"})

\* Close returns although the goroutine only looks at the context between two
\* rounds.
CloseReturns == closing = "closing" ~> closing = "closed"
=============================================================================
