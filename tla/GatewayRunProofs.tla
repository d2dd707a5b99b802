-------------------------- MODULE GatewayRunProofs --------------------------
(***************************************************************************)
(* What holds of the life of a gateway process whatever is configured,     *)
(* with any number of tunnels and accesses and of requests at a time.      *)
(***************************************************************************)
EXTENDS GatewayRun, FiniteSetTheorems, TLAPS

Main == {"new", "bind", "publish", "retreat", "wait", "shutdown", "cleanup", "returned"}
ServerState ==
  [pc : {"none", "bound", "spawned", "serving", "sending", "ended"},
   stopping : BOOLEAN, active : Nat]

TypeInv ==
  /\ cfg \in Configs
  /\ main \in Main
  /\ life \in [Resource -> {"absent", "held", "gone"}]
  /\ releases \in [Resource -> Nat]
  /\ server \in [Server -> ServerState]
  /\ busy \subseteq Worker
  /\ errCh \in Nat
  /\ signals \in {<<>>, <<"stop">>, <<"reload">>}
  /\ cancelled \in BOOLEAN
-----------------------------------------------------------------------------
(* Names and stages *)

\* What the agora subsystem holds.
Agora == {"ad", "serve", "agent"} \cup Tunnels

\* What must not stay behind.
Kept == Overlay \cup Worker \cup {"share", "serve"}

LEMMA Names ==
  /\ Kept \subseteq Resource /\ Server \subseteq Resource /\ Agora \subseteq Kept
  /\ Tunnels \cap (Accesses \cup KeyAccesses) = {}
  /\ \A r \in Tunnels \cup Accesses \cup KeyAccesses :
       r \notin {"agent", "ad", "metrics", "router"} \cup Worker \cup Server
BY NamesAssumption DEF Kept, Agora, Resource, Overlay, Worker, Server

\* The stages of cleanup, one by one.
LEMMA CleanupStages ==
  /\ DOMAIN CleanupOrder = 1 .. 8
  /\ CleanupOrder[1] = {"keys"} /\ CleanupOrder[2] = {"checks"} /\ CleanupOrder[3] = {"share"}
  /\ CleanupOrder[4] = Accesses \cup KeyAccesses
  /\ CleanupOrder[5] = {"ad"} /\ CleanupOrder[6] = {"serve"}
  /\ CleanupOrder[7] = Tunnels /\ CleanupOrder[8] = {"agent"}
BY DEF CleanupOrder, AgoraOrder

LEMMA AgoraStages ==
  /\ DOMAIN AgoraOrder = 1 .. 4
  /\ AgoraOrder[1] = {"ad"} /\ AgoraOrder[2] = {"serve"}
  /\ AgoraOrder[3] = Tunnels /\ AgoraOrder[4] = {"agent"}
  /\ UNION {AgoraOrder[k] : k \in DOMAIN AgoraOrder} = Agora
<1>1. /\ DOMAIN AgoraOrder = 1 .. 4
      /\ AgoraOrder[1] = {"ad"} /\ AgoraOrder[2] = {"serve"}
      /\ AgoraOrder[3] = Tunnels /\ AgoraOrder[4] = {"agent"}
  BY DEF AgoraOrder
<1>2. \A r : (\E k \in 1 .. 4 : r \in AgoraOrder[k]) <=> r \in Agora
  BY <1>1 DEF Agora
<1>. QED
  BY <1>1, <1>2

\* The agent comes first in New.
LEMMA NewBeginsWithAgent ==
  /\ DOMAIN NewOrder = 1 .. 8 /\ NewOrder[1] = {"agent"}
  /\ \A k \in 1 .. 8 : NewOrder[k] \subseteq Resource \ {"ad", "serve"}
  /\ \A k \in 2 .. 8 : "agent" \notin NewOrder[k]
<1>1. /\ DOMAIN NewOrder = 1 .. 8 /\ NewOrder[1] = {"agent"} /\ NewOrder[2] = Tunnels
      /\ NewOrder[3] = Accesses /\ NewOrder[4] = {"checks"} /\ NewOrder[5] = {"metrics"}
      /\ NewOrder[6] = KeyAccesses /\ NewOrder[7] = {"keys"} /\ NewOrder[8] = {"router"}
  BY DEF NewOrder
<1>2. \A k \in 1 .. 8 : NewOrder[k] \subseteq Resource \ {"ad", "serve"}
  BY <1>1, Names DEF Resource, Overlay, Worker, Server
<1>3. \A k \in 2 .. 8 : "agent" \notin NewOrder[k]
  BY <1>1, Names
<1>. QED
  BY <1>1, <1>2, <1>3

LEMMA BindStages ==
  /\ DOMAIN BindOrder = 1 .. 3
  /\ BindOrder[1] = {"local"} /\ BindOrder[2] = {"share"} /\ BindOrder[3] = {"serve"}
BY DEF BindOrder
-----------------------------------------------------------------------------
(* Types *)

LEMMA TurnIs ==
  ASSUME NEW order, NEW pending, NEW r, Turn(order, pending, r)
  PROVE  r \in pending /\ \E k \in DOMAIN order : r \in order[k]
BY DEF Turn

\* What the steps of the main goroutine do to the resources.
Acquired(r) ==
  /\ r \in Resource /\ life[r] = "absent"
  /\ life' = [life EXCEPT ![r] = "held"] /\ releases' = releases

Released(r, was) ==
  /\ r \in Resource /\ life[r] = was
  /\ life' = [life EXCEPT ![r] = "gone"] /\ releases' = [releases EXCEPT ![r] = @ + 1]

Idle == life' = life /\ releases' = releases

LEMMA FailIs ==
  ASSUME NEW r \in Missing, Fail(r)
  PROVE  Idle \/ Released(r, "absent")
<1>1. r \in Resource /\ life[r] = "absent"
  BY DEF Missing, Wanted, Server, Resource
<1>. QED
  BY <1>1 DEF Fail, Idle, Released

LEMMA ReleaseIs ==
  ASSUME NEW order, NEW r, Release(order, r)
  PROVE  Released(r, "held") /\ r \in Held
<1>1. r \in Remaining
  BY TurnIs DEF Release
<1>2. r \in Held
  BY <1>1 DEF Remaining
<1>. QED
  BY <1>2 DEF Released, Held, Release

\* The steps of the other goroutines, and of the signals, as the main goroutine
\* sees them.
Aside ==
  \/ \E s \in Server : ServeBegins(s) \/ Accept(s) \/ HandlerReturns(s)
                       \/ ServeReturns(s) \/ SendResult(s)
  \/ \E w \in Worker : WorkBegins(w) \/ WorkEnds(w)
  \/ \E signal \in {"stop", "reload"} : SignalArrives(signal)
  \/ DispatchReload \/ DispatchStop
  \/ UNCHANGED vars

LEMMA AsideKeeps == Aside => UNCHANGED <<cfg, main, life, releases>>
BY DEF Aside, vars, ServeBegins, Accept, HandlerReturns, ServeReturns, SendResult,
       WorkBegins, WorkEnds, SignalArrives, DispatchReload, DispatchStop,
       unchangedByServer, unchangedBySignal

LEMMA StepIs == [Next]_vars => MainStep \/ Aside
BY DEF Next, Aside

\* The life of the resources and the number of releases change together.
LEMMA LifeSteps ==
  ASSUME [Next]_vars, main = "publish" => life["ad"] = "absent"
  PROVE  Idle \/ \E r \in Resource :
           \/ Acquired(r) \/ Released(r, "absent")
           \/ Released(r, "held") /\ (Retreat(r) \/ Cleanup(r))
<1>1. CASE Aside
  BY <1>1, AsideKeeps DEF Idle
<1>2. CASE MainStep
  <2>1. ASSUME NEW r \in Resource, Acquire(r) PROVE Acquired(r)
    BY <2>1, TurnIs DEF Acquire, Acquired, Missing
  <2>2. ASSUME NEW r \in Resource, AcquireFails(r) PROVE Idle \/ Released(r, "absent")
    BY <2>2, TurnIs, FailIs DEF AcquireFails
  <2>3. ASSUME NEW s \in Server, Bind(s) PROVE Acquired(s)
    BY <2>3, TurnIs, Names DEF Bind, Acquired, Missing
  <2>4. ASSUME NEW s \in Server, BindFails(s) PROVE Idle \/ Released(s, "absent")
    BY <2>4, TurnIs, FailIs DEF BindFails
  <2>5. ASSUME NEW r \in Resource, Retreat(r) \/ Cleanup(r) PROVE Released(r, "held")
    BY <2>5, ReleaseIs DEF Retreat, Cleanup
  <2>6. ASSUME NEW s \in Server, Shutdown(s) PROVE Idle
    BY <2>6 DEF Shutdown, Idle
  <2>7. ASSUME NewReturns \/ Serve \/ PublishFails \/ ContextDone \/ ResultReceived
                 \/ ShutdownReturns \/ RetreatReturns \/ Returns
        PROVE  Idle
    BY <2>7 DEF NewReturns, Serve, PublishFails, ContextDone, ResultReceived,
                ShutdownReturns, RetreatReturns, Returns, Idle
  <2>8. ASSUME Publish PROVE Acquired("ad")
    BY <2>8, Names DEF Publish, Acquired, Kept, Overlay
  <2>9. Server \subseteq Resource /\ "ad" \in Resource
    BY Names DEF Resource, Overlay
  <2>. QED
    BY <1>2, <2>1, <2>2, <2>3, <2>4, <2>5, <2>6, <2>7, <2>8, <2>9 DEF MainStep
<1>. QED
  BY <1>1, <1>2, StepIs

LEMMA ServerType ==
  /\ \A v \in ServerState, pc \in {"none", "bound", "spawned", "serving", "sending", "ended"} :
       [v EXCEPT !.pc = pc] \in ServerState
  /\ \A v \in ServerState : [v EXCEPT !.stopping = TRUE] \in ServerState
  /\ \A v \in ServerState : [v EXCEPT !.active = @ + 1] \in ServerState
  /\ \A v \in ServerState : v.active > 0 => [v EXCEPT !.active = @ - 1] \in ServerState
<1>1. \A v \in ServerState, n \in Nat : [v EXCEPT !.active = n] \in ServerState
  BY DEF ServerState
<1>2. \A v \in ServerState : v.active \in Nat
  BY DEF ServerState
<1>3. \A v \in ServerState : v.active + 1 \in Nat /\ (v.active > 0 => v.active - 1 \in Nat)
  BY <1>2
<1>4. /\ \A v \in ServerState, pc \in {"none", "bound", "spawned", "serving", "sending", "ended"} :
           [v EXCEPT !.pc = pc] \in ServerState
      /\ \A v \in ServerState : [v EXCEPT !.stopping = TRUE] \in ServerState
  BY DEF ServerState
<1>. QED
  BY <1>1, <1>3, <1>4

LEMMA ServersTyped ==
  ASSUME TypeInv, [Next]_vars
  PROVE  server' \in [Server -> ServerState]
<1>1. server \in [Server -> ServerState] /\ \A s \in Server : server[s] \in ServerState
  BY DEF TypeInv
<1>2. \A s \in Server, v \in ServerState : [server EXCEPT ![s] = v] \in [Server -> ServerState]
  BY <1>1
<1>3. ASSUME NEW s \in Server, Bind(s) \/ ServeBegins(s) \/ ServeReturns(s) \/ SendResult(s)
      PROVE  server' \in [Server -> ServerState]
  <2>1. PICK pc \in {"none", "bound", "spawned", "serving", "sending", "ended"} :
          server' = [server EXCEPT ![s].pc = pc]
    BY <1>3 DEF Bind, ServeBegins, ServeReturns, SendResult
  <2>2. [server[s] EXCEPT !.pc = pc] \in ServerState
    BY <1>1, ServerType
  <2>. QED
    BY <2>1, <2>2, <1>2
<1>4. ASSUME NEW s \in Server, Shutdown(s)
      PROVE  server' \in [Server -> ServerState]
  BY <1>1, <1>2, <1>4, ServerType DEF Shutdown
<1>5. ASSUME NEW s \in Server, Accept(s)
      PROVE  server' \in [Server -> ServerState]
  BY <1>1, <1>2, <1>5, ServerType DEF Accept
<1>6. ASSUME NEW s \in Server, HandlerReturns(s)
      PROVE  server' \in [Server -> ServerState]
  BY <1>1, <1>2, <1>6, ServerType DEF HandlerReturns
<1>7. ASSUME Serve
      PROVE  server' \in [Server -> ServerState]
  <2>1. \A s \in Server :
          (IF life[s] = "held" THEN [server[s] EXCEPT !.pc = "spawned"] ELSE server[s])
            \in ServerState
    BY <1>1, ServerType
  <2>. QED
    BY <2>1, <1>7 DEF Serve
<1>8. ASSUME NEW s \in Server, BindFails(s) PROVE server' = server
  BY <1>8 DEF BindFails, aside
<1>9. ASSUME NEW r \in Resource, Acquire(r) \/ AcquireFails(r) \/ Retreat(r) \/ Cleanup(r)
      PROVE  server' = server
  BY <1>9 DEF Acquire, AcquireFails, Retreat, Cleanup, Release, aside
<1>10. ASSUME NewReturns \/ Publish \/ PublishFails \/ ContextDone \/ ResultReceived
                \/ ShutdownReturns \/ RetreatReturns \/ Returns
       PROVE  server' = server
  BY <1>10 DEF NewReturns, Publish, PublishFails, ContextDone, ResultReceived,
               ShutdownReturns, RetreatReturns, Returns, aside
<1>11. ASSUME \/ \E w \in Worker : WorkBegins(w) \/ WorkEnds(w)
              \/ \E signal \in {"stop", "reload"} : SignalArrives(signal)
              \/ DispatchReload \/ DispatchStop \/ UNCHANGED vars
       PROVE  server' = server
  BY <1>11 DEF WorkBegins, WorkEnds, SignalArrives, DispatchReload, DispatchStop,
               unchangedBySignal, vars
<1>. QED
  BY <1>1, <1>3, <1>4, <1>5, <1>6, <1>7, <1>8, <1>9, <1>10, <1>11, StepIs DEF MainStep, Aside

LEMMA TypeStep ==
  ASSUME TypeInv, [Next]_vars, main = "publish" => life["ad"] = "absent"
  PROVE  TypeInv'
<1>1. life' \in [Resource -> {"absent", "held", "gone"}] /\ releases' \in [Resource -> Nat]
  <2>1. \A r \in Resource : releases[r] + 1 \in Nat
    BY DEF TypeInv
  <2>. QED
    BY <2>1, LifeSteps DEF TypeInv, Acquired, Released, Idle
<1>2. cfg' \in Configs /\ main' \in Main
  BY StepIs, AsideKeeps
     DEF TypeInv, Main, MainStep, Acquire, AcquireFails, Bind, BindFails, Shutdown,
         NewReturns, Serve, Publish, PublishFails, ContextDone, ResultReceived, ShutdownReturns,
         Retreat, Cleanup, Release, RetreatReturns, Returns
<1>3. busy' \subseteq Worker /\ errCh' \in Nat
  BY StepIs
     DEF TypeInv, aside, MainStep, Acquire, AcquireFails, Bind, BindFails, Shutdown,
         NewReturns, Serve, Publish, PublishFails, ContextDone, ResultReceived, ShutdownReturns,
         Retreat, Cleanup, Release, RetreatReturns, Returns,
         Aside, vars, ServeBegins, Accept, HandlerReturns, ServeReturns, SendResult,
         WorkBegins, WorkEnds, SignalArrives, DispatchReload, DispatchStop,
         unchangedByServer, unchangedBySignal
<1>4. signals' \in {<<>>, <<"stop">>, <<"reload">>} /\ cancelled' \in BOOLEAN
  BY StepIs
     DEF TypeInv, aside, MainStep, Acquire, AcquireFails, Bind, BindFails, Shutdown,
         NewReturns, Serve, Publish, PublishFails, ContextDone, ResultReceived, ShutdownReturns,
         Retreat, Cleanup, Release, RetreatReturns, Returns,
         Aside, vars, ServeBegins, Accept, HandlerReturns, ServeReturns, SendResult,
         WorkBegins, WorkEnds, SignalArrives, DispatchReload, DispatchStop,
         unchangedByServer, unchangedBySignal
<1>. QED
  BY <1>1, <1>2, <1>3, <1>4, ServersTyped DEF TypeInv
-----------------------------------------------------------------------------
(* The invariant *)

\* A resource is released once, and none before the process is on its way down.
ReleasedOnce ==
  /\ \A r \in Resource : releases[r] = IF life[r] = "gone" THEN 1 ELSE 0
  /\ main \in {"new", "bind", "publish", "wait"} => \A r \in Resource : life[r] # "gone"

\* The agent is the first to come and the last of the agora subsystem to go, so
\* a subsystem that was closed holds nothing.
AgentFirst ==
  main = "new" /\ "agent" \in cfg /\ life["agent"] = "absent" =>
    \A r \in Resource : life[r] = "absent"

AgentLast == life["agent"] = "gone" => \A r \in Agora : life[r] # "held"

NothingHeld == main = "returned" => \A r \in Kept : life[r] # "held"

ResourceInv == ReleasedOnce /\ AgentFirst /\ AgentLast /\ NothingHeld

\* A server handles requests between Serve and the end of its Shutdown.
Served ==
  \A s \in Server :
    /\ server[s].pc \in {"none", "bound"} => server[s].active = 0
    /\ main \in {"new", "bind"} => server[s].pc \in {"none", "bound"}
    /\ main \in {"cleanup", "returned"} =>
         server[s].pc \in {"none", "bound"} \/ (server[s].stopping /\ server[s].active = 0)

WorkIsHeld == \A w \in busy : life[w] = "held"

\* The advertisement comes after the agora listener is served, and goes first.
Advertised ==
  /\ main = "publish" => "ad" \in cfg
  /\ main \in {"publish", "wait"} /\ "ad" \in cfg => server["serve"].pc \notin {"none", "bound"}
  /\ life["ad"] # "absent" => main \notin {"new", "bind", "publish", "retreat"}
  /\ life["ad"] = "held" => "ad" \in cfg /\ main \in {"wait", "shutdown", "cleanup"}
  /\ server["serve"].pc = "ended" /\ main \in {"publish", "wait"} => errCh > 0

Inv == TypeInv /\ ResourceInv /\ Served /\ WorkIsHeld /\ Advertised

LEMMA Initially == Init => Inv
<1> SUFFICES ASSUME Init PROVE Inv
  OBVIOUS
<1>1. \A s \in Server : server[s] = [pc |-> "none", stopping |-> FALSE, active |-> 0]
  BY DEF Init
<1>2. [pc |-> "none", stopping |-> FALSE, active |-> 0] \in ServerState
  BY DEF ServerState
<1>3. TypeInv
  <2>1. server \in [Server -> ServerState]
    BY <1>2 DEF Init
  <2>. QED
    BY <2>1 DEF Init, TypeInv, Main
<1>4. "ad" \in Resource /\ "agent" \in Resource /\ "serve" \in Server /\ Kept \subseteq Resource
  BY Names DEF Resource, Overlay, Server
<1>5. ResourceInv /\ WorkIsHeld
  BY <1>4 DEF Init, ResourceInv, ReleasedOnce, AgentFirst, AgentLast, NothingHeld, WorkIsHeld,
              Agora, Resource, Overlay, Server
<1>6. Served
  BY <1>1 DEF Init, Served
<1>7. Advertised
  BY <1>1, <1>4 DEF Init, Advertised
<1>. QED
  BY <1>3, <1>5, <1>6, <1>7 DEF Inv

\* While a stage is over, and when all are, nothing of it is pending.
LEMMA CleanedUp ==
  ASSUME AgentLast, Over(CleanupOrder, Remaining)
  PROVE  \A r \in Kept : life[r] # "held"
<1>1. \A r \in Kept : r \in Agora \/ r \in {"keys", "checks", "share"} \cup Accesses \cup KeyAccesses
  BY DEF Kept, Overlay, Worker, Agora
<1>2. \A r \in Kept : r \notin Remaining
  <2>1. \A k \in 1 .. 8 : CleanupOrder[k] \cap Remaining = {}
    BY CleanupStages DEF Over
  <2>2. /\ CleanupOrder[1] \cap Remaining = {} /\ CleanupOrder[2] \cap Remaining = {}
        /\ CleanupOrder[3] \cap Remaining = {} /\ CleanupOrder[4] \cap Remaining = {}
        /\ CleanupOrder[5] \cap Remaining = {} /\ CleanupOrder[6] \cap Remaining = {}
        /\ CleanupOrder[7] \cap Remaining = {} /\ CleanupOrder[8] \cap Remaining = {}
    BY <2>1
  <2>. QED
    BY <2>2, <1>1, CleanupStages DEF Agora
<1>3. ASSUME NEW r \in Kept, life[r] = "held" PROVE FALSE
  <2>1. r \in Held
    BY <1>3, Names DEF Held
  <2>2. r \in Remaining
    BY <1>3, <2>1, AgoraStages DEF Remaining, AgentLast
  <2>. QED
    BY <1>2, <2>2
<1>. QED
  BY <1>3

\* When the agent's turn comes nothing else of the subsystem is held.
LEMMA AgentsTurn ==
  ASSUME NEW order \in {AgoraOrder, CleanupOrder}, Turn(order, Remaining, "agent")
  PROVE  \A r \in Agora \ {"agent"} : life[r] # "held"
<1>1. "agent" \in Remaining /\ life["agent"] = "held"
  BY TurnIs DEF Remaining, Held
<1>2. Remaining = Held
  BY <1>1 DEF Remaining
<1>3. \A r \in Agora : r \in Resource
  BY Names
<1>4. CASE order = AgoraOrder
  <2>1. PICK k \in 1 .. 4 : "agent" \in AgoraOrder[k]
                            /\ \A j \in 1 .. k - 1 : AgoraOrder[j] \cap Remaining = {}
    BY <1>4, AgoraStages DEF Turn
  <2>2. k = 4
    BY <2>1, AgoraStages, Names
  <2>3. /\ AgoraOrder[1] \cap Remaining = {} /\ AgoraOrder[2] \cap Remaining = {}
        /\ AgoraOrder[3] \cap Remaining = {}
    BY <2>1, <2>2
  <2>. QED
    BY <2>3, <1>2, <1>3, AgoraStages DEF Agora, Held
<1>5. CASE order = CleanupOrder
  <2>1. PICK k \in 1 .. 8 : "agent" \in CleanupOrder[k]
                            /\ \A j \in 1 .. k - 1 : CleanupOrder[j] \cap Remaining = {}
    BY <1>5, CleanupStages DEF Turn
  <2>2. k = 8
    BY <2>1, CleanupStages, Names
  <2>3. /\ CleanupOrder[5] \cap Remaining = {} /\ CleanupOrder[6] \cap Remaining = {}
        /\ CleanupOrder[7] \cap Remaining = {}
    BY <2>1, <2>2
  <2>. QED
    BY <2>3, <1>2, <1>3, CleanupStages DEF Agora, Held
<1>. QED
  BY <1>4, <1>5

\* As long as the agent is wanted and absent, it is its turn.
LEMMA AgentsFirstTurn ==
  ASSUME TypeInv, AgentFirst, main = "new", NEW r \in Resource, Turn(NewOrder, Missing, r)
  PROVE  /\ r \notin {"ad", "serve"} /\ r \in Wanted /\ life[r] = "absent"
         /\ life["agent"] = "absent" /\ "agent" \in cfg =>
              r = "agent" /\ \A q \in Resource : life[q] = "absent"
         /\ r = "agent" => "agent" \in cfg
<1>1. PICK k \in 1 .. 8 : r \in NewOrder[k] \cap Missing
                          /\ \A j \in 1 .. k - 1 : NewOrder[j] \cap Missing = {}
  BY NewBeginsWithAgent DEF Turn
<1>2. r \notin {"ad", "serve"} /\ r \in Wanted /\ life[r] = "absent"
  BY <1>1, NewBeginsWithAgent DEF Missing
<1>3. ASSUME life["agent"] = "absent", "agent" \in cfg
      PROVE  r = "agent" /\ \A q \in Resource : life[q] = "absent"
  <2>1. "agent" \in Missing
    BY <1>3 DEF Missing, Wanted, Resource, Overlay
  <2>2. k = 1
    BY <1>1, <2>1, NewBeginsWithAgent
  <2>. QED
    BY <2>2, <1>1, <1>3, NewBeginsWithAgent DEF AgentFirst
<1>. QED
  BY <1>2, <1>3 DEF Wanted
-----------------------------------------------------------------------------
(* Every step keeps it *)

LEMMA ResourceStep ==
  ASSUME Inv, [Next]_vars
  PROVE  ResourceInv'
<1> USE DEF Inv, ResourceInv
<1>1. CASE Aside
  BY <1>1, AsideKeeps DEF ReleasedOnce, AgentFirst, AgentLast, NothingHeld
<1>2. ASSUME NEW r \in Resource, Acquire(r) PROVE ResourceInv'
  <2>1. /\ main = "new" /\ main' = "new" /\ cfg' = cfg /\ releases' = releases
        /\ life' = [life EXCEPT ![r] = "held"]
    BY <1>2 DEF Acquire
  <2>2. life[r] = "absent" /\ (life["agent"] = "absent" /\ "agent" \in cfg => r = "agent")
    BY <1>2, <2>1, AgentsFirstTurn DEF Acquire
  <2>. QED
    BY <2>1, <2>2, Names DEF TypeInv, ReleasedOnce, AgentFirst, AgentLast, NothingHeld, Kept, Overlay
<1>3. ASSUME NEW r \in Resource, AcquireFails(r) PROVE ResourceInv'
  <2>1. main = "new" /\ main' = "cleanup" /\ r \in Missing
    BY <1>3, TurnIs DEF AcquireFails
  <2>2. CASE Idle
    BY <2>1, <2>2 DEF Idle, ReleasedOnce, AgentFirst, AgentLast, NothingHeld
  <2>3. CASE Released(r, "absent")
    <3>1. ReleasedOnce' /\ AgentFirst' /\ NothingHeld'
      BY <2>1, <2>3 DEF Released, TypeInv, ReleasedOnce, AgentFirst, NothingHeld
    <3>2. CASE r = "agent"
      <4>1. \A q \in Resource : life[q] = "absent"
        BY <1>3, <2>1, <2>3, <3>2, AgentsFirstTurn DEF AcquireFails, Released
      <4>. QED
        BY <4>1, <2>3, <3>1, <3>2, Names DEF Released, TypeInv, AgentLast
    <3>3. CASE r # "agent"
      <4>1. life["agent"] # "gone"
        BY <2>1 DEF ReleasedOnce, Resource, Overlay
      <4>2. life'["agent"] # "gone"
        BY <4>1, <2>3, <3>3 DEF Released, TypeInv, Resource, Overlay
      <4>. QED
        BY <4>2, <3>1 DEF AgentLast
    <3>. QED
      BY <3>2, <3>3
  <2>. QED
    BY <1>3, <2>1, <2>2, <2>3, FailIs DEF AcquireFails
<1>4. ASSUME NEW s \in Server, Bind(s) PROVE ResourceInv'
  <2>1. main = "bind" /\ main' = "bind" /\ cfg' = cfg /\ Acquired(s)
    BY <1>4, TurnIs, Names DEF Bind, Acquired, Missing
  <2>2. life["agent"] # "gone" /\ s # "agent"
    BY <2>1 DEF ReleasedOnce, Resource, Overlay, Server
  <2>. QED
    BY <2>1, <2>2, Names DEF Acquired, TypeInv, ReleasedOnce, AgentFirst, AgentLast, NothingHeld
<1>5. ASSUME NEW s \in Server, BindFails(s) PROVE ResourceInv'
  <2>1. main = "bind" /\ main' = "cleanup" /\ s \in Missing
    BY <1>5, TurnIs DEF BindFails
  <2>2. life["agent"] # "gone" /\ s # "agent"
    BY <2>1 DEF ReleasedOnce, Resource, Overlay, Server
  <2>3. CASE Idle
    BY <2>1, <2>3 DEF Idle, ReleasedOnce, AgentFirst, AgentLast, NothingHeld
  <2>4. CASE Released(s, "absent")
    BY <2>1, <2>2, <2>4 DEF Released, TypeInv, ReleasedOnce, AgentFirst, AgentLast, NothingHeld
  <2>. QED
    BY <1>5, <2>1, <2>3, <2>4, FailIs DEF BindFails
<1>6. ASSUME NEW r \in Resource, NEW order \in {AgoraOrder, CleanupOrder}, Release(order, r),
             main \in {"retreat", "cleanup"}, main' = main
      PROVE  ResourceInv'
  <2>1. Released(r, "held")
    BY <1>6, ReleaseIs
  <2>2. ReleasedOnce' /\ AgentFirst' /\ NothingHeld'
    BY <1>6, <2>1 DEF Released, TypeInv, ReleasedOnce, AgentFirst, NothingHeld
  <2>3. CASE r = "agent"
    BY <1>6, <2>1, <2>2, <2>3, AgentsTurn, Names
       DEF Release, Released, TypeInv, AgentLast
  <2>4. CASE r # "agent"
    BY <2>1, <2>2, <2>4, Names DEF Released, TypeInv, AgentLast, Agora
  <2>. QED
    BY <2>3, <2>4
<1>7. ASSUME Publish PROVE ResourceInv'
  <2>1. "agent" \in Resource /\ "ad" \in Resource /\ life["agent"] # "gone"
    BY <1>7 DEF Publish, ReleasedOnce, Resource, Overlay
  <2>2. life' = [life EXCEPT !["ad"] = "held"] /\ life["ad"] = "absent" /\ main' = "wait"
        /\ main = "publish" /\ releases' = releases
    BY <1>7, <2>1 DEF Publish, Advertised, TypeInv
  <2>. QED
    BY <2>1, <2>2 DEF TypeInv, ReleasedOnce, AgentFirst, AgentLast, NothingHeld
<1>8. ASSUME Returns PROVE ResourceInv'
  <2>1. \A r \in Kept : life[r] # "held"
    BY <1>8, CleanedUp DEF Returns
  <2>. QED
    BY <1>8, <2>1 DEF Returns, ReleasedOnce, AgentFirst, AgentLast, NothingHeld
<1>9. ASSUME \/ NewReturns \/ Serve \/ PublishFails \/ ContextDone \/ ResultReceived
             \/ ShutdownReturns \/ RetreatReturns \/ \E s \in Server : Shutdown(s)
      PROVE  ResourceInv'
  <2>1. Idle /\ cfg' = cfg /\ main' \notin {"new", "returned"}
        /\ (main' \in {"bind", "publish", "wait"} => main \in {"new", "bind", "publish", "wait"})
    BY <1>9 DEF NewReturns, Serve, PublishFails, ContextDone, ResultReceived,
                ShutdownReturns, RetreatReturns, Shutdown, Idle
  <2>. QED
    BY <2>1 DEF Idle, ReleasedOnce, AgentFirst, AgentLast, NothingHeld
<1>10. ASSUME NEW r \in Resource, Retreat(r) \/ Cleanup(r) PROVE ResourceInv'
  <2>1. PICK order \in {AgoraOrder, CleanupOrder} :
          Release(order, r) /\ main \in {"retreat", "cleanup"} /\ main' = main
    BY <1>10 DEF Retreat, Cleanup, Release
  <2>. QED
    BY <1>6, <2>1
<1>. QED
  BY <1>1, <1>2, <1>3, <1>4, <1>5, <1>7, <1>8, <1>9, <1>10, StepIs DEF MainStep

\* One server, as a step of its own or of the main goroutine changes it.
ServedIn(phase, v) ==
  /\ v.pc \in {"none", "bound"} => v.active = 0
  /\ phase \in {"new", "bind"} => v.pc \in {"none", "bound"}
  /\ phase \in {"cleanup", "returned"} =>
       v.pc \in {"none", "bound"} \/ (v.stopping /\ v.active = 0)

LEMMA ServedStep ==
  ASSUME Inv, [Next]_vars
  PROVE  Served'
<1>1. Served <=> \A s \in Server : ServedIn(main, server[s])
  BY DEF Served, ServedIn
<1>2. Served' <=> \A s \in Server : ServedIn(main', server'[s])
  BY DEF Served, ServedIn
<1>3. \A s \in Server : ServedIn(main, server[s]) /\ server[s] \in ServerState
  BY <1>1 DEF Inv, TypeInv
<1>4. ASSUME NEW s \in Server, server' = [server EXCEPT ![s] = server'[s]], server'[s] \in ServerState,
             ServedIn(main', server'[s]), main' = main
      PROVE  Served'
  BY <1>2, <1>3, <1>4 DEF Inv, TypeInv
<1>5. server' \in [Server -> ServerState] /\ server \in [Server -> ServerState]
  BY ServersTyped DEF Inv, TypeInv
<1>6. ASSUME NEW s \in Server, Bind(s) PROVE Served'
  <2>1. main' = main /\ server' = [server EXCEPT ![s].pc = "bound"] /\ main = "bind"
    BY <1>6 DEF Bind
  <2>2. server'[s] = [server[s] EXCEPT !.pc = "bound"]
    BY <2>1, <1>5
  <2>3. ServedIn(main', server'[s])
    BY <2>1, <2>2, <1>3 DEF ServedIn, ServerState
  <2>. QED
    BY <2>1, <2>2, <2>3, <1>4, <1>5
<1>7. ASSUME NEW s \in Server, Shutdown(s) PROVE Served'
  <2>1. main' = main /\ server' = [server EXCEPT ![s].stopping = TRUE] /\ main = "shutdown"
    BY <1>7 DEF Shutdown
  <2>2. server'[s] = [server[s] EXCEPT !.stopping = TRUE]
    BY <2>1, <1>5
  <2>3. ServedIn(main', server'[s])
    BY <2>1, <2>2, <1>3 DEF ServedIn, ServerState
  <2>. QED
    BY <2>1, <2>2, <2>3, <1>4, <1>5
<1>8. ASSUME NEW s \in Server, ServeBegins(s) \/ ServeReturns(s) \/ SendResult(s) PROVE Served'
  <2>1. PICK pc \in {"sending", "serving", "ended"} :
          /\ main' = main /\ server' = [server EXCEPT ![s].pc = pc]
          /\ server[s].pc \in {"spawned", "serving", "sending"}
    BY <1>8 DEF ServeBegins, ServeReturns, SendResult, unchangedByServer
  <2>2. server'[s] = [server[s] EXCEPT !.pc = pc]
    BY <2>1, <1>5
  <2>3. ServedIn(main', server'[s])
    BY <2>1, <2>2, <1>3 DEF ServedIn, ServerState
  <2>. QED
    BY <2>1, <2>2, <2>3, <1>4, <1>5
<1>9. ASSUME NEW s \in Server, Accept(s) \/ HandlerReturns(s) PROVE Served'
  <2>1. PICK n : /\ main' = main /\ server' = [server EXCEPT ![s].active = n]
                 /\ server[s].pc \notin {"none", "bound"}
                 /\ main \notin {"cleanup", "returned"}
    <3>1. CASE Accept(s)
      <4>1. server[s].pc = "serving" /\ ~server[s].stopping
        BY <3>1 DEF Accept
      <4>2. main \notin {"cleanup", "returned"}
        BY <4>1, <1>3 DEF ServedIn
      <4>. QED
        BY <3>1, <4>1, <4>2 DEF Accept, unchangedByServer
    <3>2. CASE HandlerReturns(s)
      <4>1. server[s].active > 0 /\ server[s].active \in Nat
        BY <3>2, <1>3 DEF HandlerReturns, ServerState
      <4>2. server[s].active # 0
        BY <4>1
      <4>3. server[s].pc \notin {"none", "bound"} /\ main \notin {"cleanup", "returned"}
        BY <4>2, <1>3 DEF ServedIn
      <4>. QED
        BY <3>2, <4>3 DEF HandlerReturns, unchangedByServer
    <3>. QED
      BY <1>9, <3>1, <3>2
  <2>2. server'[s] = [server[s] EXCEPT !.active = n]
    BY <2>1, <1>5
  <2>3. server'[s].pc = server[s].pc
    BY <2>2, <1>3 DEF ServerState
  <2>4. ServedIn(main', server'[s])
    BY <2>1, <2>3, <1>3 DEF ServedIn
  <2>. QED
    BY <2>1, <2>2, <2>4, <1>4, <1>5
<1>10. ASSUME Serve PROVE Served'
  <2>1. \A s \in Server : server'[s] \in {server[s], [server[s] EXCEPT !.pc = "spawned"]}
    BY <1>10 DEF Serve
  <2>2. main' \in {"publish", "wait"} /\ main = "bind"
    BY <1>10 DEF Serve
  <2>3. \A s \in Server : server[s].active = 0 /\ [server[s] EXCEPT !.pc = "spawned"].active = 0
    BY <2>2, <1>3 DEF ServedIn, ServerState
  <2>. QED
    BY <2>1, <2>2, <2>3, <1>2 DEF ServedIn
<1>11. ASSUME ShutdownReturns PROVE Served'
  <2>1. main' = "cleanup" /\ server' = server /\ Undrained = {}
    BY <1>11 DEF ShutdownReturns, aside
  <2>2. \A s \in Server : server[s].pc \in {"none", "bound"} \/ (server[s].stopping /\ server[s].active = 0)
    BY <2>1 DEF Undrained, Started
  <2>. QED
    BY <2>1, <2>2, <1>2, <1>3 DEF ServedIn
<1>12. ASSUME server' = server,
              main' = main \/ main' \notin {"new", "bind", "cleanup", "returned"}
                \/ (main \in {"new", "bind"} /\ main' # "returned")
                \/ (main = "cleanup" /\ main' = "returned")
       PROVE  Served'
  <2>1. ASSUME NEW s \in Server PROVE ServedIn(main', server[s])
    BY <1>3, <1>12 DEF ServedIn
  <2>. QED
    BY <2>1, <1>2, <1>12
<1>13. ASSUME NEW r \in Resource, Acquire(r) \/ AcquireFails(r) \/ Retreat(r) \/ Cleanup(r)
       PROVE  Served'
  <2>1. server' = server /\ (main' = main \/ (main = "new" /\ main' = "cleanup"))
    BY <1>13 DEF Acquire, AcquireFails, Retreat, Cleanup, Release, aside
  <2>. QED
    BY <2>1, <1>12
<1>14. ASSUME NEW s \in Server, BindFails(s) PROVE Served'
  <2>1. server' = server /\ main = "bind" /\ main' = "cleanup"
    BY <1>14 DEF BindFails, aside
  <2>. QED
    BY <2>1, <1>12
<1>15. ASSUME NewReturns \/ Publish \/ PublishFails \/ ContextDone \/ ResultReceived
                \/ RetreatReturns \/ Returns
       PROVE  Served'
  <2>1. server' = server
        /\ (main' \notin {"new", "bind", "cleanup", "returned"} \/ (main = "new" /\ main' = "bind")
             \/ (main = "cleanup" /\ main' = "returned"))
    BY <1>15 DEF NewReturns, Publish, PublishFails, ContextDone, ResultReceived, RetreatReturns,
                 Returns, aside
  <2>. QED
    BY <2>1, <1>12
<1>16. ASSUME \/ \E w \in Worker : WorkBegins(w) \/ WorkEnds(w)
              \/ \E signal \in {"stop", "reload"} : SignalArrives(signal)
              \/ DispatchReload \/ DispatchStop \/ UNCHANGED vars
       PROVE  Served'
  <2>1. server' = server /\ main' = main
    BY <1>16 DEF WorkBegins, WorkEnds, SignalArrives, DispatchReload, DispatchStop,
                 unchangedBySignal, vars
  <2>. QED
    BY <2>1, <1>12
<1>. QED
  BY <1>6, <1>7, <1>8, <1>9, <1>10, <1>11, <1>13, <1>14, <1>15, <1>16, StepIs DEF MainStep, Aside

LEMMA WorkStep ==
  ASSUME Inv, [Next]_vars
  PROVE  WorkIsHeld'
<1>1. /\ WorkIsHeld /\ TypeInv /\ (main = "publish" => life["ad"] = "absent")
  BY DEF Inv, Advertised, TypeInv, Resource, Overlay
<1>2. CASE Aside
  <2>1. life' = life
    BY <1>2, AsideKeeps
  <2>2. \A w \in busy' : w \in busy \/ life[w] = "held"
    BY <1>2 DEF Aside, vars, ServeBegins, Accept, HandlerReturns, ServeReturns, SendResult,
                WorkBegins, WorkEnds, SignalArrives, DispatchReload, DispatchStop,
                unchangedByServer, unchangedBySignal
  <2>. QED
    BY <1>1, <2>1, <2>2 DEF WorkIsHeld
<1>3. CASE MainStep
  <2>1. busy' = busy
    BY <1>3 DEF aside, MainStep, Acquire, AcquireFails, Bind, BindFails, Shutdown, NewReturns,
                Serve, Publish, PublishFails, ContextDone, ResultReceived, ShutdownReturns,
                Retreat, Cleanup, Release, RetreatReturns, Returns
  <2>2. ASSUME NEW r \in Resource, Retreat(r) \/ Cleanup(r) PROVE WorkIsHeld'
    <3>1. Released(r, "held") /\ r \notin busy
      BY <1>1, <2>2, ReleaseIs DEF Retreat, Cleanup, Release, Joined, TypeInv
    <3>. QED
      BY <1>1, <2>1, <3>1 DEF Released, TypeInv, WorkIsHeld
  <2>3. ASSUME NEW r \in Resource, Acquired(r) \/ Released(r, "absent") PROVE WorkIsHeld'
    <3>1. life[r] = "absent" /\ \A q \in Resource \ {r} : life'[q] = life[q]
      BY <1>1, <2>3 DEF Acquired, Released, TypeInv
    <3>2. \A w \in busy : w \in Resource \ {r}
      BY <1>1, <3>1 DEF WorkIsHeld, TypeInv, Resource
    <3>. QED
      BY <1>1, <2>1, <3>1, <3>2 DEF WorkIsHeld
  <2>4. CASE Idle
    BY <1>1, <2>1, <2>4 DEF Idle, WorkIsHeld
  <2>. QED
    BY <1>1, <2>2, <2>3, <2>4, LifeSteps
<1>. QED
  BY <1>2, <1>3, StepIs

LEMMA AdvertisedStep ==
  ASSUME Inv, [Next]_vars
  PROVE  Advertised'
<1>1. /\ Advertised /\ TypeInv /\ "ad" \in Resource /\ "serve" \in Resource /\ "serve" \in Server
      /\ (main = "publish" => life["ad"] = "absent")
  BY DEF Inv, Advertised, TypeInv, Resource, Overlay, Server
<1>2. server["serve"] \in ServerState
  BY <1>1 DEF TypeInv
<1>3. CASE Aside
  <2>1. UNCHANGED <<cfg, main, life>>
    BY <1>3, AsideKeeps
  <2>2. ASSUME NEW s \in Server, ServeBegins(s) \/ Accept(s) \/ HandlerReturns(s) \/ ServeReturns(s)
        PROVE  errCh' = errCh /\ server'["serve"].pc \in {server["serve"].pc, "sending", "serving"}
    <3>1. errCh' = errCh
      BY <2>2 DEF ServeBegins, Accept, HandlerReturns, ServeReturns
    <3>2. CASE s # "serve"
      BY <2>2, <1>1, <3>1, <3>2 DEF ServeBegins, Accept, HandlerReturns, ServeReturns, TypeInv
    <3>3. CASE s = "serve"
      <4>1. CASE ServeBegins(s) \/ ServeReturns(s)
        BY <4>1, <1>1, <1>2, <3>1, <3>3 DEF ServeBegins, ServeReturns, TypeInv, ServerState
      <4>2. CASE Accept(s) \/ HandlerReturns(s)
        BY <4>2, <1>1, <1>2, <3>1, <3>3 DEF Accept, HandlerReturns, TypeInv, ServerState
      <4>. QED
        BY <2>2, <4>1, <4>2
    <3>. QED
      BY <3>2, <3>3
  <2>3. ASSUME NEW s \in Server, SendResult(s)
        PROVE  errCh' > 0 /\ server'["serve"].pc \in {server["serve"].pc, "ended"}
    <3>1. errCh' = errCh + 1 /\ errCh \in Nat
      BY <2>3, <1>1 DEF SendResult, TypeInv
    <3>2. server'["serve"].pc \in {server["serve"].pc, "ended"}
      BY <2>3, <1>1, <1>2 DEF SendResult, TypeInv, ServerState
    <3>. QED
      BY <3>1, <3>2
  <2>4. ASSUME \/ \E w \in Worker : WorkBegins(w) \/ WorkEnds(w)
               \/ \E signal \in {"stop", "reload"} : SignalArrives(signal)
               \/ DispatchReload \/ DispatchStop \/ UNCHANGED vars
        PROVE  errCh' = errCh /\ server' = server
    BY <2>4 DEF WorkBegins, WorkEnds, SignalArrives, DispatchReload, DispatchStop,
                unchangedBySignal, vars
  <2>5. \/ errCh' = errCh /\ server' = server
        \/ errCh' = errCh /\ server'["serve"].pc \in {server["serve"].pc, "sending", "serving"}
        \/ errCh' > 0 /\ server'["serve"].pc \in {server["serve"].pc, "ended"}
    BY <1>3, <2>2, <2>3, <2>4 DEF Aside
  <2>. QED
    BY <1>1, <2>1, <2>5 DEF Advertised
<1>4. ASSUME NEW r \in Resource, Acquire(r) \/ AcquireFails(r) PROVE Advertised'
  <2>1. main = "new" /\ Turn(NewOrder, Missing, r) /\ main' \in {"new", "cleanup"} /\ server' = server
        /\ cfg' = cfg
    BY <1>4 DEF Acquire, AcquireFails, aside
  <2>2. r # "ad"
    BY <2>1, <1>1, AgentsFirstTurn DEF Inv, ResourceInv
  <2>3. life["ad"] = "absent"
    BY <2>1, <1>1 DEF Advertised
  <2>4. life'["ad"] = "absent"
    BY <1>4, <2>2, <2>3, <1>1 DEF Acquire, AcquireFails, Fail, TypeInv
  <2>. QED
    BY <1>1, <2>1, <2>4 DEF Advertised
<1>5. ASSUME NEW s \in Server, Bind(s) \/ BindFails(s) PROVE Advertised'
  <2>1. main = "bind" /\ main' \in {"bind", "cleanup"} /\ cfg' = cfg /\ s # "ad"
    BY <1>5 DEF Bind, BindFails, aside, Server
  <2>2. life["ad"] = "absent"
    BY <2>1, <1>1 DEF Advertised
  <2>3. life'["ad"] = "absent"
    BY <1>5, <2>1, <2>2, <1>1 DEF Bind, BindFails, Fail, TypeInv
  <2>. QED
    BY <1>1, <2>1, <2>3 DEF Advertised
<1>6. ASSUME NEW r \in Resource, Retreat(r) \/ Cleanup(r) PROVE Advertised'
  <2>1. main \in {"retreat", "cleanup"} /\ main' = main /\ cfg' = cfg /\ Released(r, "held")
    BY <1>6, ReleaseIs DEF Retreat, Cleanup, Release
  <2>2. life'["ad"] = life["ad"] \/ (life["ad"] = "held" /\ life'["ad"] = "gone")
    BY <2>1, <1>1 DEF Released, TypeInv
  <2>. QED
    BY <1>1, <2>1, <2>2 DEF Advertised
<1>7. ASSUME Serve PROVE Advertised'
  <2>1. main = "bind" /\ Over(BindOrder, Missing) /\ life' = life /\ cfg' = cfg
        /\ (main' = "publish" => "ad" \in cfg) /\ main' \in {"publish", "wait"}
    BY <1>7 DEF Serve
  <2>2. ASSUME "ad" \in cfg PROVE server'["serve"].pc = "spawned"
    <3>1. Validated(cfg)
      BY <1>1, ConfigsAssumption DEF TypeInv
    <3>2. "serve" \in Wanted
      BY <2>2, <3>1, <1>1 DEF Validated, Wanted
    <3>3. "serve" \notin Missing
      BY <2>1, BindStages DEF Over
    <3>4. life["serve"] = "held"
      BY <2>1, <3>2, <3>3, <1>1 DEF Missing, Inv, ResourceInv, ReleasedOnce, TypeInv
    <3>. QED
      BY <1>7, <3>4, <1>1, <1>2 DEF Serve, ServerState
  <2>3. server["serve"].pc # "ended" /\ server'["serve"].pc # "ended"
    <3>1. server["serve"].pc \in {"none", "bound"}
      BY <2>1, <1>1 DEF Inv, Served
    <3>. QED
      BY <1>7, <3>1, <1>1, <1>2 DEF Serve, ServerState
  <2>4. life["ad"] = "absent"
    BY <2>1, <1>1 DEF Advertised
  <2>. QED
    BY <2>1, <2>2, <2>3, <2>4, <1>1 DEF Advertised
<1>8. ASSUME NEW s \in Server, Shutdown(s) PROVE Advertised'
  BY <1>8, <1>1 DEF Shutdown, Advertised
<1>9. ASSUME Publish \/ PublishFails PROVE Advertised'
  BY <1>9, <1>1 DEF Publish, PublishFails, Advertised, aside, TypeInv
<1>10. ASSUME Returns PROVE Advertised'
  <2>1. life["ad"] # "held"
    BY <1>10, CleanedUp DEF Returns, Kept, Overlay, Inv, ResourceInv
  <2>. QED
    BY <1>10, <1>1, <2>1 DEF Returns, Advertised, aside
<1>11. ASSUME NewReturns \/ ContextDone \/ ResultReceived \/ ShutdownReturns \/ RetreatReturns
       PROVE  Advertised'
  BY <1>11, <1>1 DEF NewReturns, ContextDone, ResultReceived, ShutdownReturns, RetreatReturns,
                     Advertised, aside
<1>. QED
  BY <1>3, <1>4, <1>5, <1>6, <1>7, <1>8, <1>9, <1>10, <1>11, StepIs DEF MainStep

LEMMA Invariant == Spec => []Inv
<1>1. Init => Inv
  BY Initially
<1>2. Inv /\ [Next]_vars => Inv'
  <2> SUFFICES ASSUME Inv, [Next]_vars PROVE Inv'
    OBVIOUS
  <2>1. main = "publish" => life["ad"] = "absent"
    BY DEF Inv, Advertised, TypeInv, Resource, Overlay
  <2>2. TypeInv'
    BY <2>1, TypeStep DEF Inv
  <2>. QED
    BY <2>2, ResourceStep, ServedStep, WorkStep, AdvertisedStep DEF Inv
<1>. QED
  BY <1>1, <1>2, PTL DEF Spec
-----------------------------------------------------------------------------
(* What it gives *)

\* When the process is through, wherever New, Run or publishing failed, whatever
\* it made at a controller and every goroutine it started was released, once.
THEOREM ReleasesEverything == Spec => []NothingLeftBehind
<1>1. Inv => NothingLeftBehind
  <2> SUFFICES ASSUME Inv, main = "returned",
                      NEW r \in Overlay \cup Worker \cup {"share", "serve"}
               PROVE  releases[r] = IF life[r] = "absent" THEN 0 ELSE 1
    BY DEF NothingLeftBehind
  <2>1. r \in Kept /\ r \in Resource
    BY Names DEF Kept
  <2>2. life[r] \in {"absent", "gone"}
    BY <2>1 DEF Inv, TypeInv, ResourceInv, NothingHeld
  <2>. QED
    BY <2>1, <2>2 DEF Inv, ResourceInv, ReleasedOnce
<1>. QED
  BY <1>1, Invariant, PTL

\* While an advertisement stands the agora listener is served, or the gateway is
\* on its way down.
THEOREM AdvertisementIsGood == Spec => []AdvertisedIsServed
<1>1. Inv => AdvertisedIsServed
  <2> SUFFICES ASSUME Inv, life["ad"] = "held", main \notin {"shutdown", "cleanup"}, ~(errCh > 0)
               PROVE  server["serve"].pc \in {"spawned", "serving", "sending"}
    BY DEF AdvertisedIsServed
  <2>1. server["serve"].pc \notin {"none", "bound", "ended"}
    BY DEF Inv, Advertised
  <2>2. server["serve"] \in ServerState
    BY DEF Inv, TypeInv, Server
  <2>. QED
    BY <2>1, <2>2 DEF ServerState
<1>. QED
  BY <1>1, Invariant, PTL

\* The workers are the first that cleanup closes.
LEMMA OverlaysAfterWorkers ==
  ASSUME TypeInv, WorkIsHeld, NEW r \in Overlay, Turn(CleanupOrder, Remaining, r)
  PROVE  busy = {}
<1>1. PICK k \in 1 .. 8 : r \in CleanupOrder[k]
                          /\ \A j \in 1 .. k - 1 : CleanupOrder[j] \cap Remaining = {}
  BY CleanupStages DEF Turn
<1>2. r \notin {"keys", "checks", "share"}
  BY Names DEF Overlay, Worker, Server
<1>3. k \notin {1, 2, 3}
  BY <1>1, <1>2, CleanupStages
<1>4. "keys" \notin Remaining /\ "checks" \notin Remaining
  BY <1>1, <1>3, CleanupStages
<1>5. ASSUME NEW w \in busy PROVE FALSE
  <2>1. w \in Worker /\ life[w] = "held" /\ w \in Resource
    BY Names DEF TypeInv, WorkIsHeld, Kept
  <2>2. w \notin Agora
    BY <2>1, Names DEF Agora, Worker
  <2>3. w \in Remaining
    BY <2>1, <2>2, AgoraStages DEF Remaining, Held
  <2>. QED
    BY <1>4, <2>1, <2>3 DEF Worker
<1>. QED
  BY <1>5

\* cleanup takes nothing away from a request, and no transport from a key load or
\* a health check.  Of cleanup only: a failed publication closes the subsystem
\* while the servers run (src/gateway/gateway.go:442).
THEOREM CleansUpDrained == Spec => DrainedFirst
<1>1. Inv /\ [Next]_vars =>
        [\A r \in Resource : main = "cleanup" /\ life[r] = "held" /\ life'[r] = "gone" =>
           /\ \A s \in Server : server[s].active = 0
           /\ r \in Overlay => busy = {}]_vars
  <2> SUFFICES ASSUME Inv, [Next]_vars, NEW r \in Resource,
                      main = "cleanup", life[r] = "held", life'[r] = "gone"
               PROVE  /\ \A s \in Server : server[s].active = 0
                      /\ r \in Overlay => busy = {}
    OBVIOUS
  <2>1. \A s \in Server : server[s].active = 0
    BY DEF Inv, Served
  <2>2. PICK q \in Resource :
          \/ Acquired(q) \/ Released(q, "absent")
          \/ Released(q, "held") /\ (Retreat(q) \/ Cleanup(q))
    BY LifeSteps DEF Idle
  <2>3. q = r /\ Cleanup(r)
    BY <2>2 DEF Inv, TypeInv, Acquired, Released, Retreat
  <2>. QED
    BY <2>1, <2>3, OverlaysAfterWorkers DEF Cleanup, Release, Inv
<1>. QED
  BY <1>1, Invariant, PTL DEF Spec, DrainedFirst
-----------------------------------------------------------------------------
(* Results of the serve goroutines *)

Ended == {s \in Server : server[s].pc = "ended"}
ResultInv == errCh <= Cardinality(Ended)

LEMMA ServersAreFinite == \A S \in SUBSET Server : IsFiniteSet(S) /\ Cardinality(S) \in Nat
<1>1. IsFiniteSet(Server)
  <2>1. IsFiniteSet({"local", "share", "serve"})
    <3>1. IsFiniteSet({"local"} \cup {"share"})
      BY FS_Singleton, FS_AddElement
    <3>2. IsFiniteSet(({"local"} \cup {"share"}) \cup {"serve"})
      BY <3>1, FS_AddElement
    <3>. QED
      BY <3>2
  <2>. QED
    BY <2>1 DEF Server
<1>. QED
  BY <1>1, FS_Subset, FS_CardinalityType

LEMMA ResultStep ==
  ASSUME Inv, ResultInv, [Next]_vars
  PROVE  ResultInv'
<1>1. server' \in [Server -> ServerState] /\ server \in [Server -> ServerState] /\ errCh \in Nat
  BY ServersTyped DEF Inv, TypeInv
<1>2. ASSUME errCh' <= errCh, errCh' \in Nat, Ended \subseteq Ended'
      PROVE  ResultInv'
  <2>1. /\ Cardinality(Ended) <= Cardinality(Ended')
        /\ Cardinality(Ended) \in Nat /\ Cardinality(Ended') \in Nat
    BY <1>2, ServersAreFinite, FS_Subset DEF Ended
  <2>. QED
    BY <2>1, <1>1, <1>2 DEF ResultInv
<1>3. ASSUME NEW s \in Server, SendResult(s) PROVE ResultInv'
  <2>1. Ended' = Ended \cup {s} /\ s \notin Ended /\ errCh' = errCh + 1
    <3>1. server[s].pc = "sending" /\ server' = [server EXCEPT ![s].pc = "ended"] /\ errCh' = errCh + 1
      BY <1>3 DEF SendResult
    <3>2. server'[s].pc = "ended" /\ \A t \in Server \ {s} : server'[t] = server[t]
      BY <1>1, <3>1 DEF ServerState
    <3>. QED
      BY <3>1, <3>2 DEF Ended
  <2>2. Cardinality(Ended') = Cardinality(Ended) + 1 /\ Cardinality(Ended) \in Nat
    BY <2>1, ServersAreFinite, FS_AddElement DEF Ended
  <2>. QED
    BY <2>1, <2>2, <1>1 DEF ResultInv
<1>4. ASSUME main \in {"new", "bind"} PROVE Ended = {}
  BY <1>4 DEF Inv, Served, Ended
<1>5. ASSUME Serve \/ \E s \in Server : Bind(s) PROVE ResultInv'
  <2>1. Ended = {} /\ errCh' = errCh
    BY <1>4, <1>5 DEF Serve, Bind
  <2>. QED
    BY <2>1, <1>1, <1>2
<1>6. ASSUME NEW s \in Server, Shutdown(s) \/ ServeBegins(s) \/ Accept(s) \/ HandlerReturns(s) \/ ServeReturns(s)
      PROVE  ResultInv'
  <2>1. errCh' = errCh
    BY <1>6 DEF Shutdown, ServeBegins, Accept, HandlerReturns, ServeReturns
  <2>2. ASSUME NEW t \in Server, server[t].pc = "ended" PROVE server'[t].pc = "ended"
    <3>1. CASE ServeBegins(s) \/ ServeReturns(s)
      BY <1>1, <2>2, <3>1 DEF ServeBegins, ServeReturns
    <3>2. CASE Shutdown(s)
      BY <1>1, <2>2, <3>2 DEF Shutdown, ServerState
    <3>3. CASE Accept(s)
      BY <1>1, <2>2, <3>3 DEF Accept, ServerState
    <3>4. CASE HandlerReturns(s)
      BY <1>1, <2>2, <3>4 DEF HandlerReturns, ServerState
    <3>. QED
      BY <1>6, <3>1, <3>2, <3>3, <3>4
  <2>. QED
    BY <2>1, <2>2, <1>1, <1>2 DEF Ended
<1>7. ASSUME server' = server, errCh' \in {errCh} \/ (errCh > 0 /\ errCh' = errCh - 1)
      PROVE  ResultInv'
  BY <1>1, <1>2, <1>7 DEF Ended
<1>8. ASSUME \/ \E r \in Resource : Acquire(r) \/ AcquireFails(r) \/ Retreat(r) \/ Cleanup(r)
             \/ \E s \in Server : BindFails(s)
             \/ NewReturns \/ Publish \/ PublishFails \/ ContextDone \/ ResultReceived
             \/ ShutdownReturns \/ RetreatReturns \/ Returns
             \/ \E w \in Worker : WorkBegins(w) \/ WorkEnds(w)
             \/ \E signal \in {"stop", "reload"} : SignalArrives(signal)
             \/ DispatchReload \/ DispatchStop \/ UNCHANGED vars
      PROVE  ResultInv'
  <2>1. server' = server /\ (errCh' \in {errCh} \/ (errCh > 0 /\ errCh' = errCh - 1))
    BY <1>8 DEF Acquire, AcquireFails, Retreat, Cleanup, Release, BindFails, NewReturns, Publish,
                PublishFails, ContextDone, ResultReceived, ShutdownReturns, RetreatReturns, Returns,
                WorkBegins, WorkEnds, SignalArrives, DispatchReload, DispatchStop,
                unchangedBySignal, vars, aside
  <2>. QED
    BY <2>1, <1>7
<1>. QED
  BY <1>3, <1>5, <1>6, <1>8, StepIs DEF MainStep, Aside

\* A serve goroutine that has a result finds room for it in the channel, whether
\* or not anybody still receives: none is left blocked on it.
ResultHasRoom == \A s \in Server : server[s].pc = "sending" => errCh < Capacity

THEOREM NoResultBlocks == Spec => []ResultHasRoom
<1>1. Init => ResultInv
  <2>1. Init => errCh = 0 /\ Ended = {}
    BY DEF Init, Ended
  <2>. QED
    BY <2>1, FS_EmptySet DEF ResultInv
<1>2. Inv /\ ResultInv /\ [Next]_vars => ResultInv'
  BY ResultStep
<1>3. Inv /\ ResultInv => ResultHasRoom
  <2> SUFFICES ASSUME Inv, ResultInv, NEW s \in Server, server[s].pc = "sending"
               PROVE  errCh < Capacity
    BY DEF ResultHasRoom
  <2>1. Ended \cup {s} \subseteq Started /\ s \notin Ended
    BY DEF Ended, Started
  <2>2. Cardinality(Ended \cup {s}) = Cardinality(Ended) + 1
    BY <2>1, ServersAreFinite, FS_AddElement DEF Ended
  <2>3. /\ Cardinality(Ended \cup {s}) <= Cardinality(Started)
        /\ Cardinality(Ended) \in Nat /\ Cardinality(Started) \in Nat
    BY <2>1, ServersAreFinite, FS_Subset DEF Started, Ended
  <2>4. errCh \in Nat
    BY DEF Inv, TypeInv
  <2>. QED
    BY <2>2, <2>3, <2>4 DEF ResultInv, Capacity
<1>. QED
  BY <1>1, <1>2, <1>3, Invariant, PTL DEF Spec
-----------------------------------------------------------------------------
(* The process implements Lifetimes *)

LEMMA NewStages ==
  /\ DOMAIN NewOrder = 1 .. 8
  /\ NewOrder[1] = {"agent"} /\ NewOrder[2] = Tunnels /\ NewOrder[3] = Accesses
  /\ NewOrder[4] = {"checks"} /\ NewOrder[5] = {"metrics"} /\ NewOrder[6] = KeyAccesses
  /\ NewOrder[7] = {"keys"} /\ NewOrder[8] = {"router"}
BY DEF NewOrder

\* Who needs what.
LEMMA NeedsAre ==
  /\ Needs["keys"] = Tunnels \cup KeyAccesses /\ Needs["checks"] = Tunnels \cup Accesses
  /\ Needs["ad"] = {"serve"}
  /\ \A r \in Tunnels \cup {"serve"} : Needs[r] = {"agent"}
  /\ \A r \in Resource \ ({"keys", "checks", "ad", "serve"} \cup Tunnels) : Needs[r] = {}
<1>1. \A r \in Tunnels : r \in Resource /\ r \notin {"keys", "checks", "ad", "serve"}
  BY Names DEF Resource, Overlay, Worker, Server
<1>2. {"keys", "checks", "ad", "serve"} \subseteq Resource
  BY DEF Resource, Overlay, Worker, Server
<1>. QED
  BY <1>1, <1>2 DEF Needs

\* What is wanted, and not missing while nothing is given up, stands.
LEMMA Stands ==
  ASSUME Inv, main \in {"new", "bind", "publish", "wait"}, NEW q \in Wanted, q \notin Missing
  PROVE  life[q] = "held"
<1>1. q \in Resource
  BY DEF Wanted, Server, Resource
<1>. QED
  BY <1>1 DEF Missing, Inv, TypeInv, ResourceInv, ReleasedOnce

\* Past New the agent stands, and while publishing the listener does.
Standing ==
  /\ main \in {"bind", "publish", "wait"} /\ "agent" \in cfg => life["agent"] = "held"
  /\ main = "publish" /\ "serve" \in cfg => life["serve"] = "held"

LEMMA StandingStep ==
  ASSUME Inv, Standing, [Next]_vars
  PROVE  Standing'
<1>1. {"agent", "serve", "ad"} \subseteq Resource /\ life \in [Resource -> {"absent", "held", "gone"}]
  BY DEF Inv, TypeInv, Resource, Overlay, Server
<1>2. CASE Aside
  BY <1>2, AsideKeeps DEF Standing
<1>3. CASE NewReturns
  <2>1. "agent" \notin Missing
    BY <1>3, NewStages DEF NewReturns, Over
  <2>2. "agent" \in cfg => life["agent"] = "held"
    BY <1>1, <1>3, <2>1, Stands DEF NewReturns, Wanted
  <2>. QED
    BY <1>3, <2>2 DEF NewReturns, Standing
<1>4. CASE Serve
  <2>1. "serve" \notin Missing
    BY <1>4, BindStages DEF Serve, Over
  <2>2. "serve" \in cfg => life["serve"] = "held"
    BY <1>1, <1>4, <2>1, Stands DEF Serve, Wanted
  <2>. QED
    BY <1>4, <2>2 DEF Serve, Standing
<1>5. ASSUME NEW s \in Server, Bind(s) PROVE Standing'
  BY <1>1, <1>5, Names DEF Bind, Standing
<1>6. CASE Publish
  BY <1>1, <1>6 DEF Publish, Standing
<1>7. ASSUME NEW r \in Resource, Acquire(r) \/ AcquireFails(r) \/ Retreat(r) \/ Cleanup(r)
      PROVE  Standing'
  BY <1>7 DEF Acquire, AcquireFails, Retreat, Cleanup, Release, Standing
<1>8. CASE \/ \E s \in Server : BindFails(s) \/ Shutdown(s)
           \/ PublishFails \/ ContextDone \/ ResultReceived
           \/ ShutdownReturns \/ RetreatReturns \/ Returns
  BY <1>8 DEF BindFails, Shutdown, PublishFails, ContextDone, ResultReceived, ShutdownReturns,
              RetreatReturns, Returns, Standing
<1>. QED
  BY <1>2, <1>3, <1>4, <1>5, <1>6, <1>7, <1>8, StepIs DEF MainStep

\* In New, whoever has its turn finds its means.
LEMMA NewFindsMeans ==
  ASSUME Inv, main = "new", NEW r \in Resource, Turn(NewOrder, Missing, r)
  PROVE  Lives!Ready(r)
<1>1. PICK k \in 1 .. 8 : r \in NewOrder[k] \cap Missing
                          /\ \A j \in 1 .. k - 1 : NewOrder[j] \cap Missing = {}
  BY NewStages DEF Turn
<1>2. Stage = "up" /\ r \in Wanted /\ life[r] = "absent"
  BY <1>1 DEF Stage, Missing
<1>3. ASSUME NEW q \in Needs[r] \cap Wanted PROVE q \notin Missing
  <2>1. CASE r = "keys"
    <3>1. k = 7
      BY <1>1, <2>1, NewStages, Names DEF Worker
    <3>2. NewOrder[2] \cap Missing = {} /\ NewOrder[6] \cap Missing = {}
      BY <1>1, <3>1
    <3>. QED
      BY <2>1, <3>2, NewStages, NeedsAre
  <2>2. CASE r = "checks"
    <3>1. k = 4
      BY <1>1, <2>2, NewStages, Names DEF Worker
    <3>2. NewOrder[2] \cap Missing = {} /\ NewOrder[3] \cap Missing = {}
      BY <1>1, <3>1
    <3>. QED
      BY <2>2, <3>2, NewStages, NeedsAre
  <2>3. CASE r \in Tunnels
    <3>1. k # 1
      BY <1>1, <2>3, NewStages, Names
    <3>2. NewOrder[1] \cap Missing = {}
      BY <1>1, <3>1
    <3>. QED
      BY <2>3, <3>2, NewStages, NeedsAre
  <2>4. r \notin {"ad", "serve"}
    BY <1>1, NewBeginsWithAgent
  <2>. QED
    BY <2>1, <2>2, <2>3, <2>4, NeedsAre
<1>4. \A q \in Needs[r] \cap Wanted : life[q] = "held"
  BY <1>3, Stands
<1>. QED
  BY <1>2, <1>4 DEF Lives!Ready

\* So does a listener in Run, and the advertisement.
LEMMA RunFindsMeans ==
  ASSUME Inv, Standing, NEW s \in Server \cup {"ad"},
         \/ main = "bind" /\ Turn(BindOrder, Missing, s)
         \/ main = "publish" /\ s = "ad"
  PROVE  Lives!Ready(s)
<1>1. "ad" \in Resource /\ "serve" \in Resource /\ "agent" \in Resource
  BY DEF Resource, Overlay, Server
<1>2. Stage = "up"
  BY DEF Stage
<1>3. s \in Wanted /\ life[s] = "absent"
  <2>1. CASE main = "bind" /\ Turn(BindOrder, Missing, s)
    BY <2>1, TurnIs DEF Missing
  <2>2. CASE main = "publish" /\ s = "ad"
    BY <1>1, <2>2 DEF Inv, Advertised, TypeInv, Wanted
  <2>. QED
    BY <2>1, <2>2
<1>4. ASSUME NEW q \in Needs[s] \cap Wanted PROVE life[q] = "held"
  <2>1. CASE s = "ad"
    <3>1. main = "publish"
      BY <2>1, TurnIs, BindStages DEF Turn
    <3>2. q = "serve"
      BY <2>1, NeedsAre
    <3>3. "serve" \in cfg
      BY <3>2 DEF Wanted
    <3>. QED
      BY <3>1, <3>2, <3>3 DEF Standing
  <2>2. CASE s = "serve"
    <3>1. q = "agent" /\ main = "bind"
      BY <2>2, NeedsAre
    <3>2. "agent" \in cfg
      BY <3>1 DEF Wanted
    <3>. QED
      BY <3>1, <3>2 DEF Standing
  <2>3. CASE s \in {"local", "share"}
    <3>1. s \in Resource \ ({"keys", "checks", "ad", "serve"} \cup Tunnels)
      BY <2>3, Names DEF Server
    <3>. QED
      BY <3>1, NeedsAre
  <2>. QED
    BY <2>1, <2>2, <2>3 DEF Server
<1>. QED
  BY <1>2, <1>3, <1>4 DEF Lives!Ready

\* Cleanup takes nothing from whoever still needs it.
LEMMA CleanupFreesUnused ==
  ASSUME Inv, NEW r, Turn(CleanupOrder, Remaining, r)
  PROVE  Lives!Unused(r, Resource)
<1>1. PICK k \in 1 .. 8 : r \in CleanupOrder[k] \cap Remaining
                          /\ \A j \in 1 .. k - 1 : CleanupOrder[j] \cap Remaining = {}
  BY CleanupStages DEF Turn
<1> SUFFICES ASSUME NEW q \in Resource, life[q] = "held", r \in Needs[q] PROVE FALSE
  BY DEF Lives!Unused
<1>2. q \in Held /\ (q \notin Agora => q \in Remaining)
  BY AgoraStages DEF Held, Remaining
<1>3. CASE q \in {"keys", "checks"}
  <2>1. r \in Tunnels \cup Accesses \cup KeyAccesses
    BY <1>3, NeedsAre
  <2>2. k \notin {1, 2}
    BY <1>1, <2>1, CleanupStages, Names DEF Worker
  <2>3. CleanupOrder[1] \cap Remaining = {} /\ CleanupOrder[2] \cap Remaining = {}
    BY <1>1, <2>2
  <2>4. "keys" \notin Agora /\ "checks" \notin Agora
    BY Names DEF Agora, Worker
  <2>. QED
    BY <1>2, <1>3, <2>3, <2>4, CleanupStages
<1>4. CASE q = "ad"
  <2>1. r = "serve"
    BY <1>4, NeedsAre
  <2>2. k \notin 1 .. 5
    BY <1>1, <2>1, CleanupStages, Names DEF Server
  <2>3. CleanupOrder[5] \cap Remaining = {}
    BY <1>1, <2>2
  <2>4. Remaining = Held
    BY <1>1, <2>1, AgoraStages DEF Remaining, Agora
  <2>. QED
    BY <1>2, <1>4, <2>3, <2>4, CleanupStages
<1>5. CASE q \in Tunnels \cup {"serve"}
  <2>1. r = "agent"
    BY <1>5, NeedsAre
  <2>2. q \in Agora \ {"agent"}
    BY <1>5, Names DEF Agora
  <2>3. \A a \in Agora \ {"agent"} : life[a] # "held"
    BY <2>1, AgentsTurn
  <2>. QED  BY <2>2, <2>3
<1>. QED
  BY <1>3, <1>4, <1>5, NeedsAre

\* Nor does the agora subsystem, among what is its own.
LEMMA RetreatFreesUnused ==
  ASSUME Inv, NEW r, Turn(AgoraOrder, Remaining, r)
  PROVE  r \in Agora /\ Lives!Unused(r, Agora)
<1>1. PICK k \in 1 .. 4 : r \in AgoraOrder[k] \cap Remaining
                          /\ \A j \in 1 .. k - 1 : AgoraOrder[j] \cap Remaining = {}
  BY AgoraStages DEF Turn
<1>2. r \in Agora
  BY <1>1, AgoraStages
<1>3. ASSUME NEW q \in Agora, life[q] = "held", r \in Needs[q] PROVE FALSE
  <2>1. q \in Held /\ Remaining = Held
    BY <1>1, <1>2, <1>3, AgoraStages, Names DEF Held, Remaining
  <2>2. CASE q = "ad"
    <3>1. r = "serve"
      BY <1>3, <2>2, NeedsAre
    <3>2. k # 1
      BY <1>1, <3>1, AgoraStages
    <3>3. AgoraOrder[1] \cap Remaining = {}
      BY <1>1, <3>2
    <3>. QED
      BY <2>1, <2>2, <3>3, AgoraStages
  <2>3. CASE q \in Tunnels \cup {"serve"}
    <3>1. r = "agent" /\ q # "agent"
      BY <1>3, <2>3, NeedsAre, Names
    <3>2. Turn(AgoraOrder, Remaining, "agent")
      BY <3>1
    <3>. QED
      BY <1>3, <3>1, <3>2, AgentsTurn
  <2>4. CASE q = "agent"
    BY <1>3, <2>4, NeedsAre, Names DEF Agora
  <2>. QED
    BY <2>2, <2>3, <2>4 DEF Agora
<1>. QED
  BY <1>2, <1>3 DEF Lives!Unused

\* When the subsystem has gone through its order it holds nothing.
LEMMA AgoraClosed ==
  ASSUME Inv, Over(AgoraOrder, Remaining)
  PROVE  \A r \in Agora : life[r] # "held"
<1>1. \A r \in Agora : r \notin Remaining
  BY AgoraStages DEF Over
<1>2. CASE life["agent"] = "gone"
  BY <1>2 DEF Inv, ResourceInv, AgentLast
<1>3. CASE life["agent"] # "gone"
  BY <1>1, <1>3, Names DEF Remaining, Held
<1>. QED
  BY <1>2, <1>3

LEMMA PartsAre ==
  /\ {"ad", "serve", "agent"} \cup Tunnels = Agora
  /\ Overlay \cup Worker \cup {"share", "serve"} = Kept
BY DEF Agora, Kept

LEMMA LivesStep ==
  ASSUME Inv, Standing, [Next]_vars
  PROVE  [Lives!LNext]_(Lives!lvars)
<1>1. Server \subseteq Resource /\ "ad" \in Resource
  BY Names DEF Resource, Overlay
<1>2. CASE Aside
  BY <1>2, AsideKeeps DEF Lives!lvars, Stage, Wanted
<1>3. ASSUME cfg' = cfg PROVE Wanted' = Wanted
  BY <1>3 DEF Wanted
<1>4. ASSUME NEW r \in Resource, Lives!Ready(r), Fail(r), main' = "cleanup", cfg' = cfg
      PROVE  Lives!LNext
  <2>1. Stage = "up" /\ Stage' = "down"
    BY <1>4 DEF Lives!Ready, Stage
  <2>2. CASE UNCHANGED <<life, releases>>
    BY <1>3, <1>4, <2>1, <2>2 DEF Lives!LNext, Lives!Descend
  <2>3. CASE life' = [life EXCEPT ![r] = "gone"]
    BY <1>3, <1>4, <2>1, <2>3 DEF Lives!LNext, Lives!Abandon
  <2>. QED
    BY <1>4, <2>2, <2>3 DEF Fail
<1>5. ASSUME NEW r \in Resource, Acquire(r) PROVE Lives!LNext
  <2>1. Lives!Ready(r)
    BY <1>5, NewFindsMeans DEF Acquire
  <2>. QED
    BY <1>3, <1>5, <2>1 DEF Acquire, Stage, Lives!LNext, Lives!Acquire
<1>6. ASSUME NEW r \in Resource, AcquireFails(r) PROVE Lives!LNext
  BY <1>4, <1>6, NewFindsMeans DEF AcquireFails
<1>7. ASSUME NEW s \in Server, Bind(s) PROVE Lives!LNext
  <2>1. Lives!Ready(s)
    BY <1>7, RunFindsMeans DEF Bind
  <2>. QED
    BY <1>1, <1>3, <1>7, <2>1 DEF Bind, Stage, Lives!LNext, Lives!Acquire
<1>8. ASSUME NEW s \in Server, BindFails(s) PROVE Lives!LNext
  BY <1>1, <1>4, <1>8, RunFindsMeans DEF BindFails
<1>9. ASSUME Publish PROVE Lives!LNext
  <2>1. Lives!Ready("ad")
    BY <1>9, RunFindsMeans DEF Publish
  <2>. QED
    BY <1>1, <1>3, <1>9, <2>1 DEF Publish, Stage, Lives!LNext, Lives!Acquire
<1>10. ASSUME PublishFails \/ ContextDone \/ ResultReceived PROVE Lives!LNext
  <2>1. /\ Stage = "up" /\ Stage' \in {"ahead", "down"} /\ life' = life /\ cfg' = cfg
    BY <1>10 DEF PublishFails, ContextDone, ResultReceived, Stage
  <2>. QED
    BY <1>3, <2>1 DEF Lives!LNext, Lives!Descend
<1>11. ASSUME NEW r \in Resource, Retreat(r) PROVE Lives!LNext
  <2>1. r \in Agora /\ Lives!Unused(r, Agora) /\ life[r] = "held"
    BY <1>11, RetreatFreesUnused, ReleaseIs DEF Retreat, Release, Released
  <2>2. Lives!GiveUp(r, {"ad", "serve", "agent"} \cup Tunnels)
    BY <1>3, <1>11, <2>1, PartsAre DEF Retreat, Release, Stage, Lives!GiveUp
  <2>3. Stage = "ahead"
    BY <1>11 DEF Retreat, Stage
  <2>. QED
    BY <2>1, <2>2, <2>3, PartsAre DEF Lives!LNext, Lives!GiveUpAhead
<1>12. ASSUME RetreatReturns PROVE Lives!LNext
  <2>1. \A r \in Agora : life[r] # "held"
    BY <1>12, AgoraClosed DEF RetreatReturns
  <2>2. Stage = "ahead" /\ Stage' = "down" /\ life' = life /\ cfg' = cfg
    BY <1>12 DEF RetreatReturns, Stage
  <2>. QED
    BY <1>3, <2>1, <2>2, PartsAre DEF Lives!LNext, Lives!PartIsGivenUp
<1>13. ASSUME NEW r \in Resource, Cleanup(r) PROVE Lives!LNext
  <2>1. Lives!Unused(r, Resource) /\ life[r] = "held"
    BY <1>13, CleanupFreesUnused, ReleaseIs DEF Cleanup, Release, Released
  <2>2. Lives!GiveUp(r, Resource) /\ Stage = "down"
    BY <1>3, <1>13, <2>1 DEF Cleanup, Release, Stage, Lives!GiveUp
  <2>. QED
    BY <2>2 DEF Lives!LNext, Lives!Release
<1>14. ASSUME Returns PROVE Lives!LNext
  <2>1. \A r \in Kept : life[r] # "held"
    BY <1>14, CleanedUp DEF Returns, Inv, ResourceInv
  <2>2. Stage = "down" /\ Stage' = "over" /\ life' = life /\ cfg' = cfg
    BY <1>14 DEF Returns, Stage
  <2>. QED
    BY <1>3, <2>1, <2>2, PartsAre DEF Lives!LNext, Lives!End
<1>15. ASSUME NewReturns \/ Serve \/ ShutdownReturns \/ \E s \in Server : Shutdown(s)
       PROVE  UNCHANGED Lives!lvars
  <2>1. Stage' = Stage /\ life' = life /\ cfg' = cfg
    BY <1>15 DEF NewReturns, Serve, ShutdownReturns, Shutdown, Stage
  <2>. QED
    BY <1>3, <2>1 DEF Lives!lvars
<1>. QED
  BY <1>2, <1>5, <1>6, <1>7, <1>8, <1>9, <1>10, <1>11, <1>12, <1>13, <1>14, <1>15, StepIs
     DEF MainStep

\* Whatever is configured, and wherever New or Run fails, everything the process
\* holds comes after its means, and goes before them unless a failed publication
\* closes the subsystem ahead of the key store and the health checks; nothing of
\* Kept is held in the end.
THEOREM RunImplementsLifetimes == Spec => ImplementsLifetimes
<1>1. Init => Lives!LInit /\ Standing
  <2> SUFFICES ASSUME Init PROVE Lives!LInit /\ Standing
    OBVIOUS
  <2>1. Wanted \in SUBSET Resource
    BY DEF Wanted, Server, Resource
  <2>. QED
    BY <2>1 DEF Init, Stage, Standing, Lives!LInit
<1>2. Spec => []Standing
  BY <1>1, Invariant, StandingStep, PTL DEF Spec
<1>3. Inv /\ Standing /\ [Next]_vars => [Lives!LNext]_(Lives!lvars)
  BY LivesStep
<1>. QED
  BY <1>1, <1>2, <1>3, Invariant, PTL DEF Spec, ImplementsLifetimes, Lives!LSpec
=============================================================================
