----------------------------- MODULE GatewayRun -----------------------------
(***************************************************************************)
(* The life of a gateway process: New and Run of src/gateway/gateway.go,   *)
(* with the zrok share and accesses (share.go, access.go) and the Agora    *)
(* subsystem (src/agora/subsystem.go, dialer.go, serve.go).                *)
(*                                                                         *)
(* Whatever the process holds - overlay objects at a controller, listeners *)
(* and background goroutines - is a resource.  Each stage of New, Run and  *)
(* cleanup may take several; the order within a stage is left open.        *)
(* Every call that can fail may fail, releases included: those are tried   *)
(* once and logged.                                                        *)
(***************************************************************************)
EXTENDS Integers, Sequences, FiniteSets

CONSTANTS
  Tunnels,      \* the agora tunnels providers and key sources dial
  Accesses,     \* zrok accesses of the providers and endpoints
  KeyAccesses,  \* zrok accesses of the HTTP key sources
  Configs,      \* the configurations considered, each a set of features
  MaxActive     \* bound: requests one server handles at a time

Worker == {"keys", "checks"}
Server == {"local", "share", "serve"}
Overlay == {"agent", "ad"} \cup Tunnels \cup Accesses \cup KeyAccesses
Resource == Overlay \cup Worker \cup Server \cup {"metrics", "router"}

\* What may be configured.  A feature is a resource, or says how one is to be
\* had: "listen" an explicit local address, "persistent" a share by its token.
Feature == (Resource \ {"local"}) \cup {"listen", "persistent"}

\* Config.validateAgora and Config.AgoraPublishEnabled.
Validated(c) ==
  /\ c \in SUBSET Feature
  /\ (c \cap Tunnels # {} \/ "serve" \in c) => "agent" \in c
  /\ "ad" \in c => "serve" \in c
  /\ c \cap KeyAccesses # {} => "keys" \in c

ASSUME ConfigsAssumption == \A c \in Configs : Validated(c)
ASSUME NamesAssumption ==
  LET names == Tunnels \cup Accesses \cup KeyAccesses IN
  /\ names \cap ({"agent", "ad", "metrics", "router", "listen", "persistent"}
                   \cup Worker \cup Server) = {}
  /\ Tunnels \cap Accesses = {} /\ (Tunnels \cup Accesses) \cap KeyAccesses = {}
ASSUME BoundAssumption == MaxActive \in Nat \ {0}

VARIABLES
  cfg,        \* the configuration of this process
  main,       \* the main goroutine: "new", "bind", "publish", "retreat", "wait",
              \* "shutdown", "cleanup", "returned"
  life,       \* life[r]: "absent", "held", "gone"
  releases,   \* releases[r]: how often the release of r was tried
  server,     \* server[s]: its serve goroutine, whether Shutdown was called, and
              \* the requests it handles
  busy,       \* the workers with a key load or a health check under way
  errCh,      \* the number of results in errCh
  signals,    \* the signal channel
  cancelled   \* the context of Run

vars == <<cfg, main, life, releases, server, busy, errCh, signals, cancelled>>
-----------------------------------------------------------------------------
(* Stages *)

\* The local listener is the fallback when no overlay serves.
Wanted ==
  (cfg \cap Resource) \cup
    (IF "listen" \in cfg \/ cfg \cap {"share", "serve"} = {} THEN {"local"} ELSE {})

NewOrder == <<{"agent"}, Tunnels, Accesses, {"checks"}, {"metrics"}, KeyAccesses,
              {"keys"}, {"router"}>>
BindOrder == <<{"local"}, {"share"}, {"serve"}>>

\* Mutant: the agora listener closes before its advertisement is retracted.
AgoraListenerFirst == <<{"serve"}, {"ad"}, Tunnels, {"agent"}>>

\* What the agora subsystem holds goes in this order.
AgoraOrder == <<{"ad"}, {"serve"}, Tunnels, {"agent"}>>

\* Mutant: the key store is closed with the providers, after their transports.
CleanupKeysLast ==
  <<{"share"}, Accesses \cup KeyAccesses>> \o AgoraOrder \o <<{"checks"}, {"keys"}>>

\* Mutant: the accesses of key sources are not kept for cleanup.
CleanupForgets == <<{"keys"}, {"checks"}, {"share"}, Accesses>> \o AgoraOrder

CleanupOrder ==
  <<{"keys"}, {"checks"}, {"share"}, Accesses \cup KeyAccesses>> \o AgoraOrder

\* Resource r of the pending ones is next in the given order.
Turn(order, pending, r) ==
  \E k \in DOMAIN order :
    /\ r \in order[k] \cap pending
    /\ \A j \in 1 .. k - 1 : order[j] \cap pending = {}

Over(order, pending) == \A k \in DOMAIN order : order[k] \cap pending = {}

Missing == {r \in Wanted : life[r] = "absent"}
Held == {r \in Resource : life[r] = "held"}

\* Releasing what the agora subsystem holds happens once: Close sets closed.
Remaining == IF life["agent"] = "gone" THEN Held \ UNION {AgoraOrder[k] : k \in DOMAIN AgoraOrder}
             ELSE Held
-----------------------------------------------------------------------------
Init ==
  /\ cfg \in Configs
  /\ main = "new"
  /\ life = [r \in Resource |-> "absent"]
  /\ releases = [r \in Resource |-> 0]
  /\ server = [s \in Server |-> [pc |-> "none", stopping |-> FALSE, active |-> 0]]
  /\ busy = {}
  /\ errCh = 0
  /\ signals = <<>>
  /\ cancelled = FALSE

aside == <<server, busy, errCh, signals, cancelled>>

Acquire(r) ==
  /\ main = "new" /\ Turn(NewOrder, Missing, r)
  /\ life' = [life EXCEPT ![r] = "held"]
  /\ UNCHANGED <<cfg, main, releases, aside>>

\* Made at a controller in one call, and given back when the next one fails.
TwoStep(r) ==
  r \in {"agent"} \cup Accesses \cup KeyAccesses \/ (r = "share" /\ "persistent" \notin cfg)

Fail(r) ==
  \/ UNCHANGED <<life, releases>>
  \/ /\ TwoStep(r)
     /\ life' = [life EXCEPT ![r] = "gone"]
     /\ releases' = [releases EXCEPT ![r] = @ + 1]

\* New returns an error and runs cleanup.  Health checks just start.
AcquireFails(r) ==
  /\ main = "new" /\ Turn(NewOrder, Missing, r) /\ r # "checks"
  /\ Fail(r)
  /\ main' = "cleanup"
  /\ UNCHANGED <<cfg, aside>>

NewReturns ==
  /\ main = "new" /\ Over(NewOrder, Missing)
  /\ main' = "bind"
  /\ UNCHANGED <<cfg, life, releases, aside>>

Bind(s) ==
  /\ main = "bind" /\ Turn(BindOrder, Missing, s)
  /\ life' = [life EXCEPT ![s] = "held"]
  /\ server' = [server EXCEPT ![s].pc = "bound"]
  /\ UNCHANGED <<cfg, main, releases, busy, errCh, signals, cancelled>>

BindFails(s) ==
  /\ main = "bind" /\ Turn(BindOrder, Missing, s)
  /\ Fail(s)
  /\ main' = "cleanup"
  /\ UNCHANGED <<cfg, aside>>

\* Every listener is bound: one serve goroutine each.
Serve ==
  /\ main = "bind" /\ Over(BindOrder, Missing)
  /\ server' = [s \in Server |->
       IF life[s] = "held" THEN [server[s] EXCEPT !.pc = "spawned"] ELSE server[s]]
  /\ main' = IF "ad" \in cfg THEN "publish" ELSE "wait"
  /\ UNCHANGED <<cfg, life, releases, busy, errCh, signals, cancelled>>

Publish ==
  /\ main = "publish"
  /\ life' = [life EXCEPT !["ad"] = "held"]
  /\ main' = "wait"
  /\ UNCHANGED <<cfg, releases, aside>>

\* StartPublishing closes the subsystem before it returns its error.
PublishFails ==
  /\ main = "publish"
  /\ main' = "retreat"
  /\ UNCHANGED <<cfg, life, releases, aside>>

\* The select at the end of Run.
ContextDone ==
  /\ main = "wait" /\ cancelled
  /\ main' = "shutdown"
  /\ UNCHANGED <<cfg, life, releases, aside>>

ResultReceived ==
  /\ main = "wait" /\ errCh > 0
  /\ errCh' = errCh - 1
  /\ main' = "shutdown"
  /\ UNCHANGED <<cfg, life, releases, server, busy, signals, cancelled>>
-----------------------------------------------------------------------------
(* shutdownHTTPServers: one server after the other, without a deadline. *)

ShutdownOrder == BindOrder
Started == {s \in Server : server[s].pc \notin {"none", "bound"}}
Undrained == {s \in Started : ~(server[s].stopping /\ server[s].active = 0)}

\* Mutant: the listener stays open while the requests under way are waited for.
ShutdownAccepting(s) ==
  /\ main = "shutdown" /\ Turn(ShutdownOrder, Undrained, s) /\ ~server[s].stopping
  /\ server[s].active = 0
  /\ server' = [server EXCEPT ![s].stopping = TRUE]
  /\ UNCHANGED <<cfg, main, life, releases, busy, errCh, signals, cancelled>>

Shutdown(s) ==
  /\ main = "shutdown" /\ Turn(ShutdownOrder, Undrained, s) /\ ~server[s].stopping
  /\ server' = [server EXCEPT ![s].stopping = TRUE]
  /\ UNCHANGED <<cfg, main, life, releases, busy, errCh, signals, cancelled>>

\* The deferred calls of Run: no more signals, then cleanup.
ShutdownReturns ==
  /\ main = "shutdown" /\ Undrained = {}
  /\ main' = "cleanup"
  /\ UNCHANGED <<cfg, life, releases, aside>>
-----------------------------------------------------------------------------
(* Releases *)

\* Closing a worker cancels it and waits for it.
Joined(r) == r \in Worker => r \notin busy

Release(order, r) ==
  /\ Turn(order, Remaining, r) /\ Joined(r)
  /\ life' = [life EXCEPT ![r] = "gone"]
  /\ releases' = [releases EXCEPT ![r] = @ + 1]
  /\ UNCHANGED <<cfg, main, aside>>

Retreat(r) == main = "retreat" /\ Release(AgoraOrder, r)

RetreatReturns ==
  /\ main = "retreat" /\ Over(AgoraOrder, Remaining)
  /\ main' = "shutdown"
  /\ UNCHANGED <<cfg, life, releases, aside>>

Cleanup(r) == main = "cleanup" /\ Release(CleanupOrder, r)

Returns ==
  /\ main = "cleanup" /\ Over(CleanupOrder, Remaining)
  /\ main' = "returned"
  /\ UNCHANGED <<cfg, life, releases, aside>>
-----------------------------------------------------------------------------
(* The serve goroutines and the requests they take *)

unchangedByServer == <<cfg, main, life, releases, busy, signals, cancelled>>

ServeBegins(s) ==
  /\ server[s].pc = "spawned"
  /\ server' = [server EXCEPT ![s].pc = IF server[s].stopping THEN "sending" ELSE "serving"]
  /\ UNCHANGED <<unchangedByServer, errCh>>

Accept(s) ==
  /\ server[s].pc = "serving" /\ ~server[s].stopping /\ life[s] = "held"
  /\ server[s].active < MaxActive
  /\ server' = [server EXCEPT ![s].active = @ + 1]
  /\ UNCHANGED <<unchangedByServer, errCh>>

HandlerReturns(s) ==
  /\ server[s].active > 0
  /\ server' = [server EXCEPT ![s].active = @ - 1]
  /\ UNCHANGED <<unchangedByServer, errCh>>

\* Mutant: a closed listener ends the goroutine without a word.
ListenerClosesQuietly(s) ==
  /\ server[s].pc = "serving"
  /\ server' = [server EXCEPT ![s].pc = "ended"]
  /\ UNCHANGED <<unchangedByServer, errCh>>

\* Serve returns: its listener failed or was closed, here or by the overlay.
ServeReturns(s) ==
  /\ server[s].pc = "serving"
  /\ server' = [server EXCEPT ![s].pc = "sending"]
  /\ UNCHANGED <<unchangedByServer, errCh>>

\* Mutant: room for one result.
CapacityOfOne == 1

\* errCh has room for the result of every serve goroutine.
Capacity == Cardinality(Started)

SendResult(s) ==
  /\ server[s].pc = "sending" /\ errCh < Capacity
  /\ server' = [server EXCEPT ![s].pc = "ended"]
  /\ errCh' = errCh + 1
  /\ UNCHANGED unchangedByServer
-----------------------------------------------------------------------------
(* The workers: key loads and health checks use the transports. *)

\* A worker that is being closed is cancelled before it is waited for.
WorkBegins(w) ==
  /\ life[w] = "held" /\ w \notin busy
  /\ ~(main = "cleanup" /\ Turn(CleanupOrder, Remaining, w))
  /\ busy' = busy \cup {w}
  /\ UNCHANGED <<cfg, main, life, releases, server, errCh, signals, cancelled>>

WorkEnds(w) ==
  /\ w \in busy
  /\ busy' = busy \ {w}
  /\ UNCHANGED <<cfg, main, life, releases, server, errCh, signals, cancelled>>
-----------------------------------------------------------------------------
(* Signals, between signal.Notify and signal.Stop *)

unchangedBySignal == <<cfg, main, life, releases, server, busy, errCh>>

\* The channel holds one signal; the runtime drops one that finds it full.
SignalArrives(signal) ==
  /\ main \in {"bind", "publish", "retreat", "wait", "shutdown"} /\ signals = <<>>
  /\ signals' = <<signal>>
  /\ UNCHANGED <<unchangedBySignal, cancelled>>

\* A reload only prods the key store.
DispatchReload ==
  /\ ~cancelled /\ signals = <<"reload">>
  /\ signals' = <<>>
  /\ UNCHANGED <<unchangedBySignal, cancelled>>

\* The signal goroutine cancels the context and ends.
DispatchStop ==
  /\ ~cancelled /\ signals = <<"stop">>
  /\ signals' = <<>> /\ cancelled' = TRUE
  /\ UNCHANGED unchangedBySignal
-----------------------------------------------------------------------------
MainStep ==
  \/ \E r \in Resource : Acquire(r) \/ AcquireFails(r)
  \/ \E s \in Server : Bind(s) \/ BindFails(s) \/ Shutdown(s)
  \/ NewReturns \/ Serve \/ Publish \/ PublishFails
  \/ ContextDone \/ ResultReceived \/ ShutdownReturns
  \/ \E r \in Resource : Retreat(r) \/ Cleanup(r)
  \/ RetreatReturns \/ Returns

ServerStep(s) == ServeBegins(s) \/ SendResult(s) \/ (server[s].stopping /\ ServeReturns(s))

Next ==
  \/ MainStep
  \/ \E s \in Server : ServeBegins(s) \/ Accept(s) \/ HandlerReturns(s)
                       \/ ServeReturns(s) \/ SendResult(s)
  \/ \E w \in Worker : WorkBegins(w) \/ WorkEnds(w)
  \/ \E signal \in {"stop", "reload"} : SignalArrives(signal)
  \/ DispatchReload \/ DispatchStop
  \/ main = "returned" /\ UNCHANGED vars

Spec == Init /\ [][Next]_vars

\* Goroutines that can run do run, every request comes to its end, and so does
\* every key load and health check.
Fairness ==
  /\ WF_vars(MainStep)
  /\ \A s \in Server : WF_vars(ServerStep(s)) /\ WF_vars(HandlerReturns(s))
  /\ \A w \in Worker : WF_vars(WorkEnds(w))
  /\ WF_vars(DispatchReload \/ DispatchStop)

FairSpec == Spec /\ Fairness
-----------------------------------------------------------------------------
(* Properties *)

\* When the process is through, wherever New, Run or publishing failed, the
\* release of everything it made at a controller, and of every goroutine it
\* started, was tried, and tried once.  (A local listener nobody served goes
\* with the process.)
NothingLeftBehind ==
  main = "returned" =>
    \A r \in Overlay \cup Worker \cup {"share", "serve"} :
      releases[r] = IF life[r] = "absent" THEN 0 ELSE 1

\* cleanup takes nothing away from a request, and no transport from a key load
\* or a health check.  (A failed publication does: it closes the subsystem while
\* the servers run, PublishFails.)
DrainedFirst ==
  [][\A r \in Resource : main = "cleanup" /\ life[r] = "held" /\ life'[r] = "gone" =>
       /\ \A s \in Server : server[s].active = 0
       /\ r \in Overlay => busy = {}]_vars

\* The catalog never goes on pointing at a gateway that does not serve: while
\* the advertisement stands the agora listener accepts, or the gateway is on
\* its way down.
AdvertisedIsServed ==
  life["ad"] = "held" =>
    \/ server["serve"].pc \in {"spawned", "serving", "sending"}
    \/ errCh > 0 \/ main \in {"shutdown", "cleanup"}

\* Key sources and health checks dial through tunnels and accesses, an
\* advertisement points at the agora listener, and all of the agora subsystem is
\* the agent's.
Needs ==
  [r \in Resource |->
     CASE r = "keys" -> Tunnels \cup KeyAccesses
       [] r = "checks" -> Tunnels \cup Accesses
       [] r = "ad" -> {"serve"}
       [] r \in Tunnels \cup {"serve"} -> {"agent"}
       [] OTHER -> {}]

Stage ==
  CASE main \in {"new", "bind", "publish", "wait"} -> "up"
    [] main = "retreat" -> "ahead"
    [] main \in {"shutdown", "cleanup"} -> "down"
    [] main = "returned" -> "over"

Lives == INSTANCE Lifetimes WITH
  Kept <- Overlay \cup Worker \cup {"share", "serve"},
  Part <- {"ad", "serve", "agent"} \cup Tunnels,
  wanted <- Wanted,
  stage <- Stage

\* Wherever New or Run fails and whenever the process is stopped, nothing is
\* acquired whose means are missing, and no means are taken from what still uses
\* them.  (Only a failed publication closes the agora subsystem under key loads and
\* health checks, StartPublishing.)  In the end nothing is held but what goes with
\* the process: the local listener, the metrics and the router.
ImplementsLifetimes == Lives!LSpec

\* A signal to stop that was received, a listener that failed or an
\* advertisement that was refused ends the process.
Stops ==
  (cancelled \/ errCh > 0 \/ main \in {"retreat", "shutdown", "cleanup"}) ~> main = "returned"

\* No serve goroutine stays behind on a channel nobody receives from.
ServeGoroutinesEnd ==
  main = "returned" ~> \A s \in Server : server[s].pc \in {"none", "bound", "ended"}
=============================================================================
