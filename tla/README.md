# Verification of llm-router-ui

TLA+ models of the gateway and its chat UI, checked with TLC, and theorems
about them checked with TLAPS.  Paths below are relative to `src/`.

Run from this directory:

    tlc -workers 2 -config MCKeyStore.cfg MCKeyStore
    tlapm KeyStoreProofs.tla
    tlapm KeyFeedProofs.tla
    tlapm MultiLocalProofs.tla
    tlapm RequestRoutingProofs.tla
    tlapm StreamRelayProofs.tla
    tlapm GatewayRunProofs.tla
    tlapm KeyStoreHealthProofs.tla
    tlapm ChatUIProofs.tla

`PROJECT.json` lists the components, the runs, the line ranges every definition
stands for, the mutants (each property fails when the named definition is
replaced by its mutant), the hazards and the theorems.

## 1. The system

The gateway (`cmd/llm-gateway`) is one Go process that speaks the OpenAI API.
A request passes the middleware that checks its API key, the handler that picks
a route and authorises it, and a provider client that talks to the model.  A
chat UI (TypeScript, in the browser) is one of its clients.

| Component | Code | State | Operations | Talks to |
|---|---|---|---|---|
| API key store | `keys/store.go`, `staleness.go`, `runner.go` | per source: contribution, load time, exclusion; published snapshot; deadline, its version and signal; goroutines | NewStoreFromConfig (boot), refresh, Install, Touch, Trigger, staleness evaluation, Close | key sources (load, watch); middleware (Lookup) |
| Key sources | `keys/httpSource.go`, `fileSource.go`, `configSource.go`, `decode.go` | ETag; file watcher and debounce timer | Load, Watch | key store; HTTP server, file system |
| Local endpoint pool | `providers/multiLocal.go` | health, failures and next check of every endpoint; shared counter | ChatCompletion(Stream), RoundTrip, health checks, Close | local provider, embedding and classifier clients |
| Streaming relay | `providers/{local,openai,anthropic,streaming}.go`, `gateway/handler.go` | reader goroutine, channel of events, response | readSSEStream, handleStreamingCompletion | upstream; browser |
| Chat UI stream client | `frontend/src/lib/api.ts` | text so far | streamCompletion | gateway |
| Semantic routing | `routing/*.go` | two LRU caches with TTL | Route (heuristics, embeddings, classifier, default) | embedding and chat backends |
| Request handling | `gateway/handler.go`, `keys/middleware.go`, `record.go`, `providers/router.go` | none beyond the request | authenticate, resolve, authorise, dispatch | key store, routing, providers |
| Gateway lifecycle | `gateway/gateway.go`, `share.go`, `access.go` | listeners, servers, shares, accesses | New, Run, signals, shutdown, cleanup | everything above |
| Agora subsystem | `agora/*.go` | agent, tunnels, attachments | StartPublishing, Attach, Close | gateway lifecycle |
| Chat UI store | `frontend/src/store/useChats.ts`, `lib/db.ts` | chats, messages, the running answer | send, regenerate, stop, remove | IndexedDB, stream client, settings |
| Chat UI settings | `frontend/src/store/useSettings.ts`, `lib/db.ts` | providers, the active one, theme, switches | hydrate, update, add/update/removeProvider, setActiveProvider, wipe | IndexedDB, views |
| Chat UI views | `frontend/src/App.tsx`, `components/*.tsx` | dialogue, form, model picker, styling of the page | open, close, choose, fetch models | both stores, gateway (model list) |
| Provider clients | `providers/*.go` | none | translate requests and responses | upstreams |
| Configuration | `*/config.go`, `keys/validate.go` | none | parse, validate | all of them at start-up |
| Metrics, commands | `*/metrics.go`, `cmd/` | counters | | |

What is hard, and what has to be right:

* **Key store.**  Refresh loops of all sources, the staleness evaluator, reload
  signals and Close run at once; a refresh reads the clock *before* it takes the
  lock; the evaluator reads its deadline under the lock and arms its timer
  outside it, told by a one-slot channel that drops what does not fit.  The
  published snapshot must be the composition of the source states; a source
  must leave when its data is too old and never while it is fresh; failing
  closed must never hand a credential to a lower source; Close must join all.
* **Endpoint pool.**  Every field access has a lock of its own, so calls and
  probes overwrite each other's verdicts; the round-robin counter is shared by
  all calls; backoff counts from the start of a round that may last long.  A
  call whose attempts end must return and must try what was in rotation, and a
  backend that answers must come back.
* **Streams.**  Reader goroutine, bounded channel, handler, TCP and browser are
  a pipeline that fills up and can be cut anywhere.  No chunk may be lost or
  overtaken, and a truncated answer must not pass for a complete one.
* **Routing and authorisation.**  A request reaches a provider along four
  paths (explicit, capability, semantic route, default), each with checks of
  its own; verdicts are cached with a lifetime.
* **Lifecycle.**  Every step of New and Run can fail with things already
  acquired; publishing can fail with listeners live.
* **Key sources.**  A 304 confirms whatever is resident by a validator kept from
  an earlier answer; a file changes while it is loaded, and the change travels
  through an event, a debounce timer and a one-slot trigger.  What is confirmed
  must be what is resident, no change may be missed, and polling alone must make
  the data converge.
* **Chat UI.**  State is read before an await and used after it: sends, stops,
  regenerations and removals overlap; settings are replaced by a load or a wipe
  while changes of them are on their way to the database; a request for a list is
  aborted and made again as the picker opens, closes and changes provider.

## 2. Plan

In this order, the most important behaviour first:

1. `KeyUnion` (abstract) and `KeyStore`, with `KeyStoreProofs`: done.
2. `KeyStoreHealth`, the store under the timing its configuration check assumes,
   with `KeyStoreHealthProofs`: done.
3. `MultiLocal`, with `MultiLocalProofs`: done.
4. `StreamRelay`, with `StreamRelayProofs`: done.
5. `LruCache` and `RequestRouting`, from the arrival of a request to its
   provider, with `RequestRoutingProofs`: done.
6. `GatewayRun`: New, Run, Shutdown and Close with every step failing, the Agora
   subsystem included, and `Lifetimes` (abstract) which it implements, with
   `GatewayRunProofs`: done.
7. `ChatStore`, the UI store's calls cut at every await, with `ChatUIProofs`: done.  Left: failing
   database operations, the history sent with a request, its composition with
   `StreamRelay`.
8. `KeyFeed`: ETag, watcher and debounce of the key sources, composed with
   `KeyStore`, with `KeyFeedProofs`: done.
9. `SettingsStore` and `ChatUI`, the settings, the dialogue and the model picker,
   composed with `ChatStore` over one database, with `ChatUIProofs`: done.  Left: which model and which
   history goes to which provider, the connection test of the dialogue.
10. The translation of tool calls between Anthropic's blocks and OpenAI's indices:
   left.

## 3. Modules

### KeyUnion

What the store promises the data plane: sources claim sets of digests, a claimed
digest belongs to the first source that claims it, a source can be put out of
service (what it served is denied, nobody inherits it), reinstated, or replaced.
No clock, no goroutine.

### KeyStore

One action per section of code that holds `Store.mu`, one per step of a
goroutine between two such sections.

| Code | Actions and definitions |
|---|---|
| `recompose` | `Wins`, `Composition`, `Recompose` |
| `armDeadlineLocked` | `EarliestDeadline`, `ArmDeadline` |
| `NewStoreFromConfig`, `bootLoad`, `finishBoot`, `start` | `BootLoad`, `Start` |
| `runner.run`, `refresh` | `PollFires`, `TriggerReceived`, `LoadReturns`, `LoadFails`, `CommitUpdate` (Install), `CommitConfirmation` and `CommitRefused` (Touch), `RunnerStops` |
| `Trigger`, `TriggerAll`, watcher notify | `WatcherNotifies`, `TriggerAll` |
| `runStalenessEvaluator`, `evaluateStaleness` | `SignalReceived`, `ReadDeadline`, `ArmTimer`, `TimerFires`, `EvaluateStaleness`, `EvaluatorStops` |
| `Close` | `Close`, `Joined` |

A contribution is a set of digests (the other fields of a record travel with
it); a load is one of its outcomes: a contribution, "unchanged", or a failure.
The deadline's version number appears as "differs from the version applied".
`clock` is bounded by `MaxClock`.

### KeyStoreHealth

`KeyStore` with time that waits for whoever has to act, loads that last at most
their timeout, and what each refresh recorded last.  This is the timing
`keys/validate.go` reasons with when it demands
`max_staleness > poll_interval + timeout`.

### KeyFeed

`KeyStore` with what its sources read.  Every declared source is a file or a key
API; a document is what decoding it yields.  A load is restricted to what its
source can deliver: the document, with a new ETag, none or (a file) no notion of
it; "unchanged", if the ETag held is that of the document; or a failure.

| Code | Actions and definitions |
|---|---|
| `httpSource.Load` | `Decoded`, `Revalidates`, `NotModified`, `NotLoaded` |
| `fileSource.Load`, `Watch` | `Decoded`, `EventReceived`, `DebounceFires`, `WatchFails`, `WatchStops` |
| `bootLoad`, `start`, `refresh`, `Close` | `FeedBoots`, `FeedStarts`, `FeedReturns`, `FeedFails`, `FeedRuns`, `FeedJoined` |
| server, editor, file system, time | `DocumentChanges`, `Passes` |

An answer and what Load makes of it are one step: nothing but the source itself
looks at its ETag, and a document that changes behind the answer is one that
changes right after the step.  An ETag is assumed to name one document.  The
clock does not run out: at `MaxClock` every instant is moved back instead
(`Slides`), so liveness is checked of behaviours without end.  `seen` is a history
variable: what the latest load has read.

### MultiLocal

Every access to an endpoint's fields is a step.  A chat call (`Begin`,
`NextSlot`, `PickHealthy`/`SkipUnhealthy`, `BestEffort`, `Returns`,
`AttemptFails`, `Blame`) scans the rotation anew for each attempt; a request of
the round-robin transport keeps its place.  What a call does by itself
(`CallRuns`) is told apart from how an attempt ends (`AttemptEnds`), which no
timeout bounds.  The health checker is
`RoundBegins`, `SkipEndpoint`/`Probe`, `Verdict`, `Record`, `RoundEnds`,
`CheckerStops`; `Tick` lets time pass and drops a tick nobody fetched.  The
counter is kept modulo the rotation; times are relative to now, so the state
space is finite without a clock bound.  `RoundLimit` bounds how long one round
lasts.  `owed` is a history variable: the endpoints that were in rotation ever
since the call began and have not been tried.

### StreamRelay

The reader goroutine (`ReadChunk`, `ReadDone`, `ReadError`, `ReadEOF`, `Send`),
the bounded channel, the handler (`OpenStream`, `OpenFails`, `Receive`,
`ChannelEnds`, `Write`, `WriteLost`, `WriteFails`), the connection, and the UI
(`Fetched`, `ReadToken`, `ReadPastError`, `ReadMarker`, `ReadEnd`,
`Disconnect`).  Chunks are numbers in upstream order.  A reader that sends into a
full channel after the handler has returned on a write error stays there: the
model has that rest state (`Rest`, `Abandoned`) as the code does.  What waits for the
upstream (`ReadReturns`, `OpenReturns`) is kept apart from what the gateway does by
itself (`Send`, `Relays`): only the latter is fair while the browser stays.

### LruCache

`routing/cache.go` as operators on a sequence of entries, front first; every
operation holds the mutex throughout, so it is one step of whoever calls it.  An
entry keeps the time it has left.

### RequestRouting

Chat requests that run concurrently over one key snapshot and the two caches.

| Code | Actions and definitions |
|---|---|
| `Middleware`, snapshots published meanwhile | `Arrive`, `Reissue` |
| capability aliases (`handler.go:129`, `ResolveCapabilityModel`) | `Capability`, `Unresolvable` |
| `Route`: passthrough, heuristics, default | `Passthrough`, `Cascade`, `Heuristic`, `Default`, `Fallback` |
| `EmbeddingMatcher.Match` and what `Route` does with its score | `LookUpVector`, `VectorArrives`, `EmbedFails`, `Score`, `Best` |
| `ClassifierMatcher.Classify` | `LookUpClassification`, `ReplyArrives`, `ClassifierFails`, `Judged` |
| `logAndAuthorizeDecision`, the checks and `Router.Route` | `Routed`, `Concluded`, `RouteDenied`, `ModelDenied`, `Provided` |

A look into a cache and the entry made afterwards are separate steps with the
backend's call between them.  A rule is the set of prompts it matches, a
similarity a number in a table.  `uses` is a history variable: the keys of each
cache by last use, and how long ago the answer under each was given.

### Lifetimes

What `New`, `Run` and cleanup promise about everything the process holds: a
resource is acquired when what it needs stands, is given up once nobody needs it,
never comes back, and none that matters is held in the end.  One part may be given
up ahead of the rest, in that order within itself.  No stages, goroutines, requests
or signals.

### GatewayRun

What a gateway process holds - overlay objects, listeners, background goroutines
- are resources with a life: absent, held, gone.  `main` goes through New, the
listeners, publishing, waiting, Shutdown and cleanup; every acquisition can fail
(with the one before it given back), every release can fail (tried once and
logged).  Serve goroutines, the requests they handle, the one-slot signal channel
and the error channel are modelled as the code sizes them.  `Needs` says what stands on
what: key sources and health checks dial through tunnels and accesses, the
advertisement points at the Agora listener, and the subsystem is its agent's.
`ImplementsLifetimes` maps the stages of `main` to `Lifetimes`; the part that may go
first is the Agora subsystem, which a failed publication closes under everybody.

### ChatStore

Each call of `useChats` (and the wipe and the import of the settings dialogue) is
a task cut at its awaits.  A database operation and the script that follows it are
one step: only another operation can see its effect earlier, and IndexedDB runs
transactions of overlapping scope in the order they were made (`MayComplete`).

| Code | Actions |
|---|---|
| `send`, `regenerate` | `Send`, `Opened`, `Asked`, `Regenerate`, `Dropped` |
| `runCompletion` | `Runs`, `Token`, `Completes`, `Fails`, `Caught`, `Ended` |
| saving the answer, `touchChat` | `Saved`, `Touched`, `SavedFailure` |
| `stop`, `newChat`, `selectChat` | `Stop`, `NewChat`, `Click`, `Selected` |
| `removeChat`, `renameChat`, `hydrate` | `Click`, `Removed`, `Renamed`, `Listed` |
| `doWipe`, `doImport` | `Wipe`, `Wiped`, `Relisted`, `Import`, `Imported` |

A message is its task and role, its chat, an instant and a number of tokens.
`deleted` is a history variable: the answers deleted from the database.
`Filter` and `ByTime` say in closed form what `Array.filter` and a sort by time
leave, so that the proofs can look into them.
`ChatStore` is checked as part of `ChatUI`.

### SettingsStore

The settings of the page, their record in the database, and the operations on it
under way, which complete in the order they were issued.  A change is on the
screen at once and issues a put of the whole record.

| Code | Actions and definitions |
|---|---|
| `useSettings` | `SettingsLoaded` (hydrate), `UpdateTheme`, `ToggleStreaming`, `AddProvider`, `UpdateProvider`, `RemoveProvider`, `SetActiveProvider`, `SettingsWiped`, `Active`, `Dark` |
| `loadSettings`, `saveSettings`, `clearAll` | `Load`, `Save`, `Wiping`, `SettingsSaved` |
| effects of `App.tsx` | `Prompted`, `SystemThemeChanges` |
| `SettingsModal.tsx` | `OpenSettings`, `CloseSettings`, `OpenForm`, `CancelForm`, `SaveDraft`, `ProviderRow`, `EditModel`, `ChooseTheme`, `ChooseStreaming` |
| model picker of `Composer.tsx` | `TogglePicker`, `ClosePicker`, `ChooseModel`, `Filled` (its effect), `ModelsArrive`, `ModelsFail` |

A provider is its identifier and its model.  An effect of React is part of the step
whose rendering triggers it.  `raced` is a history variable: the last change was
made with a load or a wipe under way.

### ChatUI

Both stores over one database.  `send` and `regenerate` look at the active
provider, and a run looks again when it begins (`RunReads`); deleting all data is
one transaction over all object stores, followed by both stores in turn (`Wipe`,
`WipeStep`).  `Scenes` bounds the calls of the chat store and the acts on the
settings, and says what an earlier visit has left in the database and whether the
settings dialogue is open at first.

## 4. Runs

| Run | What it checks | Bounds |
|---|---|---|
| `keystore` | types, snapshot, freshness, deadline, reassignment, refinement of `KeyUnion` | inline source and two declared ones colliding on a digest, staleness limit 2, clock to 2: exclusion and reinstatement at the deadline instant both occur |
| `key_feed` | what was read or confirmed is resident, no change of a watched file is missed, a settled document gets served, a stale source leaves, Close returns | one declared source, file or key API, two contributions and documents that do not decode, in any order and without end; instants kept for two units, the staleness limit |
| `keystore_health` | no exclusion after a successful refresh; exclusion at the deadline, not later | two sources, timeouts 2 and 1, limit 4, clock to 6: two full load cycles, an exclusion and a reinstatement |
| `keystore_boot` (violation) | the documented claim about healthy sources | as above |
| `multilocal` | probing of what is in rotation, failover of transport requests | a chat call and a transport request over two endpoints, one with weight 2 |
| `multilocal_live` | recovery; a chat call whose attempts end returns; Close returns | one chat call, backoff of two intervals, rounds as long as the ticker's interval; with a transport request beside it the graph is out of TLC's reach, and that one scans the rotation once |
| `multilocal_failover` (violation) | the documented failover of chat calls | as `multilocal` |
| `stream_relay` | nothing lost, truthful end, streams end once the body has ended or the browser has left | five chunks over a channel and a connection of two, so both are full at once with more to come |
| `stream_shown` (violation) | an answer shown as complete is complete | two chunks |
| `request_routing` | one record decides, cached answers are fresh, aliases stay aliases, the cascade ends in a model, LRU eviction | two requests (interchangeable), three prompts of which two embed alike, caches of one and two entries that live one tick; five configurations, from no router to the whole cascade |
| `gateway_run` | nothing left behind, advertised means served, drained before released, refinement of `Lifetimes`, the process stops, no serve goroutine stays | four configurations: everything at once, private over Agora, a persistent share, a plain local port; one request per server |
| `chat_ui` | the stop button reaches its run, what streamed in is stored, sidebar and settings on screen agree with the database, the active provider is configured, the picker is served | two chats, two providers and room for a third, and six scenes: three calls of the chat store with the dialogue closed; two with it open, so that all data can be deleted or imported; one and a change of the settings; one and two; five changes, from an empty database or one without a provider; four with the second provider active |

Two contending parties, a rotation with a repeated endpoint, buffers smaller than
the stream and a clock that passes a deadline at least once are what the
interleavings need; a third source or endpoint repeats them, and for the key
store and its timing, its feed, the endpoint pool, the routing, the relay, the
lifecycle and the chat UI the theorems remove the bounds of the safety properties.

Fairness.  Weak fairness of a goroutine's steps is the Go scheduler; strong
fairness of single cases of a `select` is its random choice among the ready ones
(a case ready infinitely often is chosen infinitely often); weak fairness of a
load of an HTTP key source and of a probe is their timeouts
(`keys/httpSource.go:51`, `providers/multiLocal.go:286`); weak fairness of `Tick` and
`Passes` is time.  Nothing is assumed of users, signals, watchers and disconnects.

Completions have no timeout: the clients are `http.DefaultClient`
(`providers/local.go:28`, `openai.go:29`), the readers scan without a deadline, and
the only context is the browser's.  A backend that takes a request and says nothing
holds the call while the browser stays, so neither run assumes that it speaks.
`CallReturns` names what it needs as a premise (`AttemptsEnd`: no attempt of this call
goes on for ever); the fairness is of the gateway's own steps only (`CallRuns`).
`StreamEnds` starts from the end of the body or from the browser's leaving; a read or
an opening is fair only once the browser is gone, because that cancels its context.
The page is assumed to go on reading while it is there.  In `gateway_run` requests,
key loads and health checks end, and a call of an overlay controller returns: for
requests this is an assumption, not a timeout, and without it `server.Shutdown`
waits for ever (`gateway/gateway.go:493`).  `keystore`, `request_routing` and `chat_ui` check safety only
and assume nothing.  In `key_feed` strong fairness of `TimerFires` is needed:
commits stamped with an old time keep signalling the evaluator while its timer has
expired, and only the random choice of the `select` lets the timer through.
Nothing is assumed of a watcher but that it stops, nor that a load ever succeeds:
`FeedIsServed` is about loads that fail no more.

### Findings

* `keystore_boot`: `keys/store.go:239` ages a source from its own boot load,
  while its poll timer starts after *all* boot loads.  A slow second source makes
  the first one stale during its first scheduled load, no refresh of it having
  failed; `docs/current/key-sources.md:187` says the limit prevents that.
* `multilocal_failover`: a chat call makes as many attempts as there are
  endpoints, but each scans anew from the shared counter, and a late probe
  verdict can put the endpoint that failed back in its way: it ends with "all
  endpoints failed" although one in rotation was never tried
  (`docs/current/multi-endpoint.md:84`).
* `stream_shown`: the UI ignores the error frame the gateway sends so that a
  truncation does not read as completion (`gateway/handler.go:328`), and keeps the
  truncated answer as a complete one (`frontend/src/lib/api.ts:160`).

What the models show besides, where no document claims otherwise or the claim is
not a property of one run:

* When publishing fails with listeners live, the Agora subsystem is closed before
  the servers drain (`gateway/gateway.go:442`), although
  `docs/current/configuration.md:196` has servers drain first; `DrainedFirst`
  speaks of cleanup only.
* A SIGTERM that arrives behind an unread SIGHUP is dropped
  (`gateway/gateway.go:350`); `Stops` starts from the signal received.
* A local listener bound before a later one fails is not closed by Run; the
  process ends and takes it along.
* A change of the settings made before they are loaded is gone from the screen and
  stays in the database (`frontend/src/store/useSettings.ts:24-35`).  A save that is
  issued while all data is being deleted brings the settings, API keys included,
  back on reload (lines 85-89); a running answer stores its message after the wipe
  likewise.
* A second click on "Save provider" before the first put has completed adds the
  provider twice (`components/SettingsModal.tsx:89-101`).
* The picker shows the list of the provider before while that of the active one is
  being fetched, and what is chosen from it is set on the active one
  (`components/Composer.tsx:46-59, 89-95`).
* `send` passes the model of the provider active when it was called; the run sends
  it to the one active after two awaits (`store/useChats.ts:104, 141`).
* In the chat store, the end of a stopped run hides the stop button of the run
  started after it; a rename or an answer in flight stores the row of a removed
  chat again; `regenerate` deletes the question too when it has the millisecond
  of the answer; an answer that streams while its chat is left does not come back
  on the screen until the chat is selected again after it ended.

## 5. Proofs

`KeyStoreProofs` proves, for every number of sources, every set of digests, every
set of contributions a source may deliver and all durations `keys.Validate`
accepts:

* `TypeCorrect`: `Spec => []TypeOK`.
* `SnapshotCorrect`: `Spec => []SnapshotIsComposition`.
* `FreshCorrect`: `Spec => []FreshStaysInService`.
* `DeadlineWatched`: `Spec => []DeadlineIsWatched`.
* `Reassignment`: `Spec => NoSilentReassignment`.
* `StoreImplementsUnion`: `Spec => ImplementsUnion`.

Assumptions: the named ASSUMEs of `KeyStore` (durations are naturals, poll
intervals positive, the outcomes of a load are distinct).  TLC evaluates them in
every run.

Argument.  `TypeInv` is `TypeOK` with the facts about types that only hold of
reachable control points (what a runner is about to commit is not an error and is
stamped with a time; a deadline the evaluator is about to arm is one).  `SafeInv` adds
to the snapshot and freshness invariants what they need to be inductive: before
serving nothing is excluded and no goroutine runs, and the inline source is never
excluded.  The actions fall into four kinds by their effect on the source states
(`CommitUpdateEffect`, `CommitConfirmationEffect`, `EvaluateStalenessEffect`,
`StartEffect`; all others leave them alone, `QuietEffect`), and each invariant is
proved once per kind.  `DeadlineIsWatched` needs that a deadline not yet applied is announced by a
signal or by an evaluator on its way to look; `ArmingWatches` is the lemma that
publishing a deadline re-establishes it.  The minimum that defines the deadline is
a CHOOSE; `NatHasLeast` shows it exists from the well-foundedness of strict
inclusion on finite sets, because induction is out of the prover's reach.
For the refinement each kind maps to one action of `KeyUnion`: a commit to
`Accept`, a confirmation that reinstates to `Reinstate`, an evaluation to
`Exclude`, the start to `Open`, the rest to stutters.

`KeyFeedProofs` proves, for any number of sources of either kind, any documents
and any durations:

* `LoadedResident`: `FSpec => []LoadedIsResident`.
* `ChangeOnItsWay`: `FSpec => []NoChangeIsLost`.
* `FeedSnapshotCorrect`: `FSpec => []SnapshotIsComposition`.
* `FeedFreshCorrect`: `FSpec => []FreshStaysInService`.
* `FeedReassignment`: `FSpec => NoSilentReassignment`.
* `FeedImplementsUnion`: `FSpec => ImplementsUnion`.

The last four are guarantees of the store alone that survive the composition: the
loads of `KeyStore` return anything a source may publish, those of `KeyFeed` what
its document and its ETag make of it, and time does not end.

Assumptions: those of `KeyStore`.

Argument.  `FeedInv` has four parts.  `StandsForResident` says that both the ETag
and what was last read stand for what the source holds or is about to hold
(`Resident`): between a load that returned a document and its commit the ETag is
already new while the contribution is still old, which is why
`LoadedIsResident`, true only of a source at rest, is not inductive.
`ChangeIsOnItsWay` is `NoChangeIsLost` in every phase: a change made during boot
has to be an event already when the watcher goroutine starts.  `NothingRunsYet`
keeps goroutines out of boot, and `FeedTypes` are the types.  Loads
(`LoadInv`), the other steps of a runner (`RunnerFrameInv`), the watcher
(`WatchFrame`) and everything else (`Quiet`) disturb different parts and are
proved once each; that the origin of time moves is one of the quiet steps, since
nothing in `FeedInv` depends on an age.

For the composition, `FeedStepKinds` shows that a step with the sources is a step
of the store or `Slides`, the clock of which only the origin moves.  The steps of
the store preserve `SafeInv` by `SafeStep` of `KeyStoreProofs`.  `SlidesSafe` shows
that `Slides` does too: a load time only gets smaller, so what is out of service
stays too old to be in service, and nothing the data plane sees changes; for the
union it is a stutter.  `DeadlineIsWatched` is not carried over: where the origin
moves, an instant that is past is kept as one, so a deadline in the evaluator's
hands and the load time it was computed from need not stay that far apart, unless
`MaxClock` is the limit on staleness.  It is proved for the clock of `KeyStore`.

`MultiLocalProofs` proves, for any number of endpoints, any weights, any callers
and any intervals of the health check:

* `Probed`: `Spec => []InRotationIsProbed`.
* `TripTriesAll`: `Spec => []TripTriesEveryHealthy`.

Assumptions: there is an endpoint, weights and durations are positive, a caller is
either a chat call or a trip (the named ASSUMEs of `MultiLocal`).

Argument.  `CheckInv` adds to `InRotationIsProbed` that only the verdict about to
be recorded can have put an endpoint back (`RecordsVerdict`), so that a backoff is
never recorded for one in rotation, and that a round lasts at most `RoundLimit`.
`TripInv` says of every call that whom it owes a try is in rotation
(`OwedAreHealthy`), and of every trip that all slots of whom it owes a try are
still ahead of its scan (`OwedIsAhead`, with `Ahead` the distance around the
rotation): a scan passes a slot only if its endpoint is out of rotation, or was
just tried, and `AheadOfNext` says that every other slot comes nearer by one.  When
no slot is left nobody is owed a try, because every endpoint has one.  That is
`EveryEndpointHasASlot`, about the CHOOSE that defines `Rotation`: the rank of an
entry grows strictly along the rotation (`RankGrows`, by cardinalities), so the
entry of a slot is unique, and ranks are as many as there are slots
(`RotationType`).

`KeyStoreHealthProofs` proves, of the store under the timing of `KeyStoreHealth`
and for any number of sources:

* `ExclusionIsOnTime`: `HSpec => ExcludedOnTime`.
* `RefreshedIsServed`: `HSpec => []RefreshedStaysInService`.

Assumptions: those of `KeyStore`; `RefreshedIsServed` is where `Validated` (what
`keys.Validate` demands, the staleness limit above the poll interval plus the
timeout of every source) is needed.

Argument.  A step of `KeyStoreHealth` is a step of `KeyStore` (`HealthIsStore`), so
the invariants proved there are at hand.  Of `DeadlineIsWatched`, which has no
reason to mention that the evaluator still runs, its inductive form
`EvaluatorWatches` is used: time cannot pass while the evaluator is due, and it is due when a deadline is
reached, because that is when its timer fires.  `RefreshedStaysInService` rests on
`Punctual` (no goroutine overstays its timer, its load's timeout or its commit) and
`Renewing`: once its latest refresh has succeeded, a source is at any point of its
loop at most an interval, and then a timeout, from the instant its data was
confirmed, so the data is younger than the limit whenever the evaluator looks.
`Running` says which goroutines there are in which phase.

`StreamRelayProofs` proves, for any number of chunks and any size of the channel
and the connection:

* `StreamIsKept`: `Spec => []NothingLost`.
* `EndIsTold`: `Spec => []ResponseTellsTheEnd`.

Assumptions: `SizeAssumption` (both buffers hold something).

Argument.  `Complete` says that while the browser is there, what it has got, the
terminal frame it has read past, the connection, the frame the handler holds, the
channel and the event the reader holds are, one after the other, the upstream's
chunks followed by the terminal frame they have led to so far (`EndsWith`).  Every
step moves one event across one boundary or appends one at the far end, so the
invariant is about `Whole` and the steps are lemmas about concatenation.  It needs
`Flowing` (nothing terminal has been written while the handler still goes on) for
the end to stay the last, and `Returned` (a handler that has returned has emptied
the channel) for `ResponseTellsTheEnd`.  `Shown` survives the loss of the
connection, which `Complete` does not.  The properties are stated with
concatenation, and not with a SelectSeq over the pipeline, because only the former
can be reasoned about by the provers; they say the same.

`GatewayRunProofs` proves, for any set of valid configurations, any number of
tunnels, accesses and requests under way:

* `ReleasesEverything`: `Spec => []NothingLeftBehind`.
* `AdvertisementIsGood`: `Spec => []AdvertisedIsServed`.
* `CleansUpDrained`: `Spec => DrainedFirst`, which is about cleanup and not about the
  retreat after a failed publication.
* `RunImplementsLifetimes`: `Spec => ImplementsLifetimes`, with that retreat as the
  one exception (`GiveUpAhead`) and without the local listener, the metrics and the
  router, which nobody releases one by one (`Kept`).
* `NoResultBlocks`: `Spec => []ResultHasRoom`, that a serve goroutine about to
  deliver its result finds room in the error channel.

Assumptions: the configurations have passed validation (`ConfigsAssumption`), the
things they name are different (`NamesAssumption`).

Argument.  Every step of the main goroutine acquires one resource, releases one or
leaves them alone (`LifeSteps`), and the others' steps leave them alone
(`AsideKeeps`).  `ResourceInv` says that what is gone was released once, and nothing
before the process is on its way down (`ReleasedOnce`); that the agent is the first
to come and the last of its subsystem to go (`AgentFirst`, `AgentLast`), so that
closing a subsystem without an agent, which the code makes a no-op, leaves nothing
behind (`AgentsTurn`); and that nothing is held at the end.  `NothingLeftBehind` is
what remains of it with `WorkIsHeld` when `main` has returned.  `Advertised` says
which stages the advertisement can stand in and that its listener was served first,
`Served` that past shutdown no server has a request, which with the order of cleanup
(`OverlaysAfterWorkers`) gives `DrainedFirst`.  For the refinement `Standing` adds that past New the agent stands, and the listener
while it is being advertised.  A stage of New or Run begins when nothing of the
earlier ones is missing, and nothing has been given up yet, so what a resource needs
stands (`NewFindsMeans`, `RunFindsMeans`); a stage of cleanup begins when nothing of
the earlier ones remains, so nobody is left who needs it (`CleanupFreesUnused`,
`RetreatFreesUnused`).  `ResultInv` counts: every serve
goroutine delivers once, so no more results are in the channel than goroutines have
ended.

`RequestRoutingProofs` proves, for any number of requests, any configurations
and any capacity and content of the two caches:

* `RoutingTypeCorrect`: `Spec => []TypeOK`.
* `CacheIsFresh`: `Spec => []HitsAreFresh`.
* `CacheIsLru`: `Spec => EvictsLeastRecent`.
* `RoutingFindsModel`: `Spec => []RoutedHasModel`.
* `OneRecordCorrect`: `Spec => []OneRecordDecides`.
* `CapabilityCorrect`: `Spec => []CapabilityIsKept`.

Assumptions: `None` is no alias, model or route; truncating a prompt yields a
prompt; similarities are numbers for every route; an enabled router has passed
`Validated` (the routes its rules, its default and the class of an alias name are
configured, so they have a model), and the scenarios have capacities, lifetimes,
prompts and models of those kinds.  All are named ASSUMEs that TLC evaluates in the
run.

Argument.  The inductive invariant `RoutingInv` has three parts.  `RequestInv` says
of every request that it is `Good`: besides the two last properties, that past
authentication it has a record wherever keys are configured (`Authenticated`), that
only an answered request has an answer (`Open`), and that it is a record with the
fields of a request (`Shape`).  A request that is about to conclude must be known to
have its record, and one the cascade is busy with not to have named an alias.
`Conclusion` says what the end of the handler makes of any request, `LayerResult`
covers every way in which a layer hands a request on, and `Replaced` lifts both to
the step: what the caches hold never matters to them.

`CacheInv` says of each cache that it is within its capacity and `Kept`: its keys
are distinct, its entries typed, and it agrees with its history - the age of the
answer under a live entry and the time the entry has left add up to at most the
lifetime, and the entries are in the order of their last use.  Looking up, entering,
evicting and ageing are lemmas about sequences of entries; an entry evicted is the
last one, which by that order is the least recently used.  `HitsAreFresh` and
`EvictsLeastRecent` follow from `CacheInv`, but the former is about what a request
has taken away with it.

`AllKnown` says that every route and model a request is bound to is one its
configuration has (`Known`, `Placed`).  What the layers decide is a CHOOSE among
rules and scores; that it denotes something is `FirstOfTheBest`, the existence of a
minimal element of a set of naturals, taken from the well-foundedness of strict
inclusion on finite sets (induction is out of the prover's reach).

`ChatUIProofs` proves, for any number of chats, calls, runs, tokens and instants, of
providers, models and acts on the settings, and whatever an earlier visit has left:

* `PageImplementsTheChatStore`: `PageSpec => Spec`, the page does nothing to the
  chats that their store alone could not do, so that what is shown of `Spec` below
  holds of the page.
* `ChatTypesHold`: `Spec => []TypeOK`, which says that a chat has one row.
* `StopReachesWhoeverWrites`: `Spec => []StopReachesTheRun`.
* `StreamedAnswersAreKept`: `Spec => []WhatStreamedInIsKept`.
* `SidebarFollowsTheDatabase`: `Spec => []SidebarShowsWhatIsStored`.
* `ActiveProviderExists`: `PageSpec => []ActiveIsConfigured`.
* `ReloadShowsTheScreen`: `PageSpec => []ScreenIsKept`.
* `StyleFollows`: `PageSpec => []StyledAsSet`, which no run checks.
* `PickerFollows`: `PageSpec => []PickerIsServed`.

Assumptions: `None` is no chat, provider or record of settings, the gateway is not
among the providers a user adds and its model is one of the names; the bounds are
positive and there are instants after those of the earlier visit; the settings that
visit left are `Configured` (`ScenesAssumption`), as the theorem shows every visit
leaves them.

Argument for the chats.  `ChatInv` adds to the four properties what makes them
inductive.  `OpeningIsNew`: of a chat whose row is on its way to the database there
is no trace but the call that makes it, otherwise opening it would put a second row
beside one there is.  `AnswersAreKept` extends `WhatStreamedInIsKept` to runs that
have saved their answer and are touching the chat.  `ChatTypes` says that a call
with a row holds that of its chat and that only an answer has tokens.  Every step
concerns one call, and `StepKept` is the lemma all of them use: the invariant holds
after a step that keeps the types, takes identifiers only from where they have been
(`NamesOld`), moves the stop button with a run or drops it (`ButtonMoves`), loses
nobody else's answer unrecorded (`AnswersMove`) and moves the sidebar with the
database (`SidebarMoves`).  Only the first question of a new chat, which takes a new
identifier, is proved by itself (`NewChatAsked`).

Argument for the settings.  `SettingsInv` adds to the three properties of the screen
the types, with `ActiveIsConfigured` for every record in them, and `PutsAreFirst`: a
put that waits behind a load or a wipe was issued by a change that raced it, so that
a change that did not race is what the last put stores.

Only model-checked: all liveness (`StaleIsExcluded`, `FeedIsServed`, recovery of endpoints,
ends of streams, `Stops` and the like), because fairness and ENABLED are out of the
prover's reach.

No module that is proved about uses a RECURSIVE operator.

## 6. Not modelled

* Decoding of key documents beyond its outcome, a server whose ETag names two
  documents, a file source configured without a watcher (it is one whose watcher
  failed at once), the length of the debounce.
* Requests that end before routing (malformed JSON, no messages), the other
  handlers, and what is decoded from a request beyond model and last message.
* Failing IndexedDB operations, closing the page; of the settings, what only
  travels into the request (temperature, system prompt, search); of the views, the
  connection test of the dialogue and its late answers, export, the copy button.
* Translation of requests and responses by the provider clients, parsing of
  configuration, metrics, UI rendering: no state that interacts with anything.
* Vector arithmetic: floating point.
* The integer width of the round-robin counter: `uint64`, converted to `int` at
  `providers/multiLocal.go:102`; the model keeps it modulo the rotation, which
  hides what happens after 2^63 calls.
