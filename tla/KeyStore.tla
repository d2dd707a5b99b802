------------------------------ MODULE KeyStore ------------------------------
(***************************************************************************)
(* The API key store of the gateway (src/keys/store.go, staleness.go and   *)
(* runner.go): boot, the per-source refresh loops, composition of the      *)
(* sources into one published snapshot, and the evaluator that takes stale *)
(* sources out of service.                                                 *)
(*                                                                         *)
(* A section of code that holds Store.mu is one action.  What the code     *)
(* does between two such sections is separate: a refresh reads the clock   *)
(* before it takes the lock, and the evaluator receives a signal, reads    *)
(* the deadline under the lock and sets its timer in three steps.          *)
(*                                                                         *)
(* A contribution is the set of key digests it holds: decoding has already *)
(* rejected two records with one digest, and the other fields of a record  *)
(* travel with it.                                                         *)
(***************************************************************************)
EXTENDS Integers, FiniteSetsExt

CONSTANTS
  Last,            \* sources 1 .. Last are declared; source 0 is the inline "config"
  Digests,         \* digests of the keys that sources may publish
  Publishes,       \* Publishes[s]: the contributions source s may deliver
  Required,        \* the declared sources with required: true
  PollInterval,    \* PollInterval[s] of declared source s
  Timeout,         \* Timeout[s]: the longest a load of s takes; 0 for a file
  MaxStaleness,    \* reload.max_staleness; 0 is unbounded
  NoContribution,  \* a source that has never loaded
  Failed,          \* a load that returns an error
  Unchanged,       \* a load that confirms the resident contribution
  MaxClock         \* bound: the last instant of a behaviour

Source == 0 .. Last
Declared == 1 .. Last

ASSUME LastAssumption == Last \in Nat
ASSUME PublishesAssumption == Publishes \in [Source -> SUBSET SUBSET Digests]
ASSUME RequiredAssumption == Required \subseteq Declared
ASSUME DurationAssumption ==
  /\ PollInterval \in [Declared -> Nat \ {0}]
  /\ Timeout \in [Declared -> Nat]
  /\ MaxStaleness \in Nat
ASSUME OutcomeAssumption ==
  /\ \A c \in SUBSET Digests : c \notin {NoContribution, Failed, Unchanged}
  /\ Failed # Unchanged
ASSUME BoundAssumption == MaxClock \in Nat

\* keys.Validate refuses a staleness limit a scheduled load could overrun.
ASSUME Validated ==
  MaxStaleness > 0 =>
    \A s \in Declared : MaxStaleness > PollInterval[s] + Timeout[s]

VARIABLES
  clock,           \* what store.clock() returns
  phase,           \* "boot", "serving", "closing", "closed" or "failed"
  bootNext,        \* the source whose boot load is under way
  contribution,    \* state.contribution of each source
  loadedAt,        \* state.loadedAt of each source
  excluded,        \* state.excluded of each source
  snapshot,        \* the published snapshot, as pairs <<digest, source>>
  deadlineAt,      \* the earliest staleness deadline, NoTime when not armed
  deadlineNew,     \* deadlineVersion is not the version the evaluator applied
  deadlineSignal,  \* the one-slot channel holds a signal
  evaluator,       \* the staleness evaluator goroutine
  runner,          \* the refresh goroutine of each declared source
  trigger          \* trigger[s]: the one-slot channel of runner s holds a request

stateVars == <<contribution, loadedAt, excluded>>
deadlineVars == <<deadlineAt, deadlineNew, deadlineSignal>>
runnerVars == <<runner, trigger>>
vars == <<clock, phase, bootNext, stateVars, snapshot, deadlineVars,
          evaluator, runnerVars>>

NoTime == -1
Contribution == SUBSET Digests
-----------------------------------------------------------------------------
(* Composition *)

\* Source s is the first source whose contribution holds d.  An excluded
\* source still wins: it only stops serving what it won.
Wins(contrib, s, d) ==
  /\ contrib[s] # NoContribution
  /\ d \in contrib[s]
  /\ \A t \in Source :
       t < s /\ contrib[t] # NoContribution => d \notin contrib[t]

\* Mutant: an excluded source loses its claims to the sources below it.
CompositionInService(contrib, excl) ==
  {p \in Digests \X Source :
     Wins([s \in Source |-> IF excl[s] THEN NoContribution ELSE contrib[s]], p[2], p[1])}

Composition(contrib, excl) ==
  {p \in Digests \X Source : Wins(contrib, p[2], p[1]) /\ ~excl[p[2]]}

\* Sources with a staleness deadline: reloadable, in service, once loaded.
Eligible(contrib, excl) ==
  {s \in Declared : contrib[s] # NoContribution /\ ~excl[s]}

\* Mutant: the deadline of the source refreshed last.
LatestDeadline(contrib, loaded, excl) ==
  IF Eligible(contrib, excl) = {} THEN NoTime
  ELSE Max({loaded[s] + MaxStaleness : s \in Eligible(contrib, excl)})

\* Mutant: the limit is taken from the load time instead of added to it.
DeadlineBeforeLoad(contrib, loaded, excl) ==
  IF Eligible(contrib, excl) = {} THEN NoTime
  ELSE Min({loaded[s] - MaxStaleness : s \in Eligible(contrib, excl)})

EarliestDeadline(contrib, loaded, excl) ==
  IF Eligible(contrib, excl) = {} THEN NoTime
  ELSE Min({loaded[s] + MaxStaleness : s \in Eligible(contrib, excl)})

ArmDeadline ==
  IF MaxStaleness = 0 THEN UNCHANGED deadlineVars
  ELSE /\ deadlineAt' = EarliestDeadline(contribution', loadedAt', excluded')
       /\ deadlineNew' = TRUE
       /\ deadlineSignal' = TRUE

\* Mutant: publishing a snapshot leaves the old deadline in place.
RecomposeUnarmed ==
  /\ snapshot' = Composition(contribution', excluded')
  /\ UNCHANGED deadlineVars

\* Publish the composition of the new source states and arm its deadline.
Recompose ==
  /\ snapshot' = Composition(contribution', excluded')
  /\ ArmDeadline

Install(s, c, at) ==
  /\ contribution' = [contribution EXCEPT ![s] = c]
  /\ loadedAt' = [loadedAt EXCEPT ![s] = at]
  /\ excluded' = [excluded EXCEPT ![s] = FALSE]
  /\ Recompose

\* Mutant: reinstatement does not republish the snapshot.
TouchUnpublished(s, at) ==
  /\ contribution[s] # NoContribution
  /\ loadedAt' = [loadedAt EXCEPT ![s] = at]
  /\ excluded' = [excluded EXCEPT ![s] = FALSE]
  /\ UNCHANGED <<contribution, snapshot>>
  /\ ArmDeadline

\* Mutant: a confirmation does not renew the age of the data.
TouchKeepsAge(s, at) ==
  /\ contribution[s] # NoContribution
  /\ excluded' = [excluded EXCEPT ![s] = FALSE]
  /\ UNCHANGED <<contribution, loadedAt>>
  /\ IF excluded[s] THEN Recompose ELSE ArmDeadline /\ UNCHANGED snapshot

Touch(s, at) ==
  /\ contribution[s] # NoContribution
  /\ loadedAt' = [loadedAt EXCEPT ![s] = at]
  /\ excluded' = [excluded EXCEPT ![s] = FALSE]
  /\ UNCHANGED contribution
  /\ IF excluded[s] THEN Recompose
     ELSE ArmDeadline /\ UNCHANGED snapshot
-----------------------------------------------------------------------------
(* Boot: every source is loaded once, in precedence order, before anything *)
(* is published or any goroutine runs.                                     *)

\* pc is where the goroutine stands; result and at belong to the load under
\* way and mean nothing between loads.
RunnerAt(pc, timer) ==
  [pc |-> pc, timer |-> timer, result |-> Failed, at |-> NoTime]

EvaluatorAt(pc, timer) == [pc |-> pc, timer |-> timer, deadline |-> NoTime]

Init ==
  /\ clock = 0
  /\ phase = "boot" /\ bootNext = 0
  /\ contribution = [s \in Source |-> NoContribution]
  /\ loadedAt = [s \in Source |-> 0]
  /\ excluded = [s \in Source |-> FALSE]
  /\ snapshot = {}
  /\ deadlineAt = NoTime /\ deadlineNew = FALSE /\ deadlineSignal = FALSE
  /\ evaluator = EvaluatorAt("off", NoTime)
  /\ runner = [s \in Declared |-> RunnerAt("off", 0)]
  /\ trigger = [s \in Declared |-> FALSE]

NextBootLoad ==
  /\ bootNext' = bootNext + 1
  /\ UNCHANGED phase

\* Install while booting records the contribution and publishes nothing.
BootInstalls(c) ==
  /\ contribution' = [contribution EXCEPT ![bootNext] = c]
  /\ loadedAt' = [loadedAt EXCEPT ![bootNext] = clock]
  /\ UNCHANGED excluded
  /\ NextBootLoad

\* An optional source may fail its boot load; a required one, the inline keys,
\* or a source that confirms what it never loaded fails the boot.
BootRejects(result) ==
  /\ UNCHANGED stateVars
  /\ IF result = Failed /\ bootNext \in Declared \ Required THEN NextBootLoad
     ELSE phase' = "failed" /\ UNCHANGED bootNext

BootLoad ==
  /\ phase = "boot" /\ bootNext \in Source
  /\ \/ \E c \in Publishes[bootNext] : BootInstalls(c)
     \/ \E result \in {Failed, Unchanged} : BootRejects(result)
  /\ UNCHANGED <<clock, snapshot, deadlineVars, evaluator, runnerVars>>

\* finishBoot publishes the first snapshot; start launches the goroutines.
Start ==
  /\ phase = "boot" /\ bootNext > Last
  /\ phase' = "serving"
  /\ UNCHANGED stateVars /\ Recompose
  /\ evaluator' = EvaluatorAt(IF MaxStaleness > 0 THEN "select" ELSE "off", NoTime)
  /\ runner' = [s \in Declared |-> RunnerAt("select", clock + PollInterval[s])]
  /\ UNCHANGED <<clock, bootNext, trigger>>
-----------------------------------------------------------------------------
(* A runner: wait for the poll timer or a trigger, load, commit, reset the *)
(* timer.                                                                  *)

unchangedByRunner == <<clock, phase, bootNext, evaluator>>

\* What the poll timer shows no longer matters: it is restarted afterwards.
BeginLoad(s) ==
  runner' = [runner EXCEPT ![s] = RunnerAt("loading", 0)]

PollFires(s) ==
  /\ runner[s].pc = "select" /\ clock >= runner[s].timer
  /\ BeginLoad(s)
  /\ UNCHANGED <<unchangedByRunner, stateVars, snapshot, deadlineVars, trigger>>

TriggerReceived(s) ==
  /\ runner[s].pc = "select" /\ trigger[s]
  /\ trigger' = [trigger EXCEPT ![s] = FALSE]
  /\ BeginLoad(s)
  /\ UNCHANGED <<unchangedByRunner, stateVars, snapshot, deadlineVars>>

\* The refresh is over: the poll timer is drained and restarted.
BackToSelect(s) ==
  runner' = [runner EXCEPT ![s] = RunnerAt("select", clock + PollInterval[s])]

\* A failed load keeps the last good contribution.
LoadFails(s) ==
  /\ runner[s].pc = "loading"
  /\ BackToSelect(s)
  /\ UNCHANGED <<unchangedByRunner, stateVars, snapshot, deadlineVars, trigger>>

\* The commit time is read here, before the lock is taken.
LoadReturns(s) ==
  /\ runner[s].pc = "loading"
  /\ \E result \in Publishes[s] \cup {Unchanged} :
       runner' = [runner EXCEPT ![s] =
         [RunnerAt("commit", 0) EXCEPT !.result = result, !.at = clock]]
  /\ UNCHANGED <<unchangedByRunner, stateVars, snapshot, deadlineVars, trigger>>

CommitUpdate(s) ==
  /\ runner[s].pc = "commit" /\ runner[s].result # Unchanged
  /\ Install(s, runner[s].result, runner[s].at)
  /\ BackToSelect(s)
  /\ UNCHANGED <<unchangedByRunner, trigger>>

CommitConfirmation(s) ==
  /\ runner[s].pc = "commit" /\ runner[s].result = Unchanged
  /\ Touch(s, runner[s].at)
  /\ BackToSelect(s)
  /\ UNCHANGED <<unchangedByRunner, trigger>>

\* Touch refuses to confirm a source that has nothing resident.
CommitRefused(s) ==
  /\ runner[s].pc = "commit" /\ runner[s].result = Unchanged
  /\ contribution[s] = NoContribution
  /\ BackToSelect(s)
  /\ UNCHANGED <<unchangedByRunner, stateVars, snapshot, deadlineVars, trigger>>

RunnerStops(s) ==
  /\ runner[s].pc = "select" /\ phase = "closing"
  /\ runner' = [runner EXCEPT ![s] = RunnerAt("off", 0)]
  /\ UNCHANGED <<unchangedByRunner, stateVars, snapshot, deadlineVars, trigger>>
-----------------------------------------------------------------------------
(* Requests for a refresh: a watcher's notify kicks one runner, SIGHUP     *)
(* kicks them all.  A full trigger absorbs the request.                    *)

\* Mutant: the trigger has no slot, and a runner that is busy does not hear it.
KickUnbuffered(S) ==
  /\ phase \in {"serving", "closing"}
  /\ trigger' = [s \in Declared |-> trigger[s] \/ (s \in S /\ runner[s].pc = "select")]
  /\ UNCHANGED <<clock, phase, bootNext, stateVars, snapshot, deadlineVars,
                 evaluator, runner>>

Kick(S) ==
  /\ phase \in {"serving", "closing"}
  /\ trigger' = [s \in Declared |-> trigger[s] \/ s \in S]
  /\ UNCHANGED <<clock, phase, bootNext, stateVars, snapshot, deadlineVars,
                 evaluator, runner>>

WatcherNotifies(s) == Kick({s})
TriggerAll == Kick(Declared)
-----------------------------------------------------------------------------
(* The staleness evaluator *)

unchangedByEvaluator == <<clock, phase, bootNext, runnerVars>>

SignalReceived ==
  /\ evaluator.pc = "select" /\ deadlineSignal
  /\ deadlineSignal' = FALSE
  /\ evaluator' = [evaluator EXCEPT !.pc = "read"]
  /\ UNCHANGED <<unchangedByEvaluator, stateVars, snapshot, deadlineAt, deadlineNew>>

\* Under the lock: a version already applied changes nothing; another one
\* stops the timer.
ReadDeadline ==
  /\ evaluator.pc = "read"
  /\ evaluator' =
       IF ~deadlineNew THEN [evaluator EXCEPT !.pc = "select"]
       ELSE IF deadlineAt = NoTime THEN EvaluatorAt("select", NoTime)
       ELSE [EvaluatorAt("arm", NoTime) EXCEPT !.deadline = deadlineAt]
  /\ deadlineNew' = FALSE
  /\ UNCHANGED <<unchangedByEvaluator, stateVars, snapshot, deadlineAt, deadlineSignal>>

\* Off the lock: the timer runs for what is left of the deadline.
ArmTimer ==
  /\ evaluator.pc = "arm"
  /\ evaluator' = EvaluatorAt("select", Max({clock, evaluator.deadline}))
  /\ UNCHANGED <<unchangedByEvaluator, stateVars, snapshot, deadlineVars>>

TimerFires ==
  /\ evaluator.pc = "select" /\ evaluator.timer # NoTime /\ clock >= evaluator.timer
  /\ evaluator' = EvaluatorAt("evaluate", NoTime)
  /\ UNCHANGED <<unchangedByEvaluator, stateVars, snapshot, deadlineVars>>

\* Mutant: the evaluation trusts the timer and does not look at the ages.
OverdueUnchecked == Eligible(contribution, excluded)

\* The sources whose last successful load is MaxStaleness old.
Overdue == {s \in Eligible(contribution, excluded) : clock >= loadedAt[s] + MaxStaleness}

\* Mutant: sources are marked excluded, the snapshot stays as it was.
EvaluateUnpublished ==
  /\ evaluator.pc = "evaluate"
  /\ excluded' = [s \in Source |-> excluded[s] \/ s \in Overdue]
  /\ UNCHANGED <<contribution, loadedAt, snapshot>>
  /\ ArmDeadline
  /\ evaluator' = [evaluator EXCEPT !.pc = "select"]
  /\ UNCHANGED unchangedByEvaluator

EvaluateStaleness ==
  /\ evaluator.pc = "evaluate"
  /\ excluded' = [s \in Source |-> excluded[s] \/ s \in Overdue]
  /\ UNCHANGED <<contribution, loadedAt>>
  /\ IF Overdue # {} THEN Recompose ELSE ArmDeadline /\ UNCHANGED snapshot
  /\ evaluator' = [evaluator EXCEPT !.pc = "select"]
  /\ UNCHANGED unchangedByEvaluator

EvaluatorStops ==
  /\ evaluator.pc = "select" /\ phase = "closing"
  /\ evaluator' = EvaluatorAt("off", NoTime)
  /\ UNCHANGED <<unchangedByEvaluator, stateVars, snapshot, deadlineVars>>
-----------------------------------------------------------------------------
(* Shutdown: Close cancels the context and joins every goroutine. *)

Close ==
  /\ phase = "serving"
  /\ phase' = "closing"
  /\ UNCHANGED <<clock, bootNext, stateVars, snapshot, deadlineVars, evaluator, runnerVars>>

\* Mutant: Close waits until every refresh that was asked for has been made.
JoinedServed ==
  /\ phase = "closing"
  /\ evaluator.pc = "off" /\ \A s \in Declared : runner[s].pc = "off" /\ ~trigger[s]
  /\ phase' = "closed"
  /\ UNCHANGED <<clock, bootNext, stateVars, snapshot, deadlineVars, evaluator, runnerVars>>

Joined ==
  /\ phase = "closing"
  /\ evaluator.pc = "off" /\ \A s \in Declared : runner[s].pc = "off"
  /\ phase' = "closed"
  /\ UNCHANGED <<clock, bootNext, stateVars, snapshot, deadlineVars, evaluator, runnerVars>>

Stopped == phase \in {"closed", "failed"} /\ UNCHANGED vars

Tick ==
  /\ clock < MaxClock
  /\ clock' = clock + 1
  /\ UNCHANGED <<phase, bootNext, stateVars, snapshot, deadlineVars, evaluator, runnerVars>>
-----------------------------------------------------------------------------
RunnerStep(s) ==
  \/ PollFires(s) \/ TriggerReceived(s)
  \/ LoadFails(s) \/ LoadReturns(s)
  \/ CommitUpdate(s) \/ CommitConfirmation(s) \/ CommitRefused(s)
  \/ RunnerStops(s)

EvaluatorStep ==
  \/ SignalReceived \/ ReadDeadline \/ ArmTimer
  \/ TimerFires \/ EvaluateStaleness \/ EvaluatorStops

Work ==
  \/ BootLoad \/ Start
  \/ \E s \in Declared : RunnerStep(s) \/ WatcherNotifies(s)
  \/ TriggerAll
  \/ EvaluatorStep
  \/ Close \/ Joined \/ Stopped

Next == Work \/ Tick

Spec == Init /\ [][Next]_vars
-----------------------------------------------------------------------------
(* Properties *)

TypeOK ==
  /\ clock \in Nat
  /\ phase \in {"boot", "serving", "closing", "closed", "failed"}
  /\ bootNext \in 0 .. Last + 1
  /\ contribution \in [Source -> Contribution \cup {NoContribution}]
  /\ loadedAt \in [Source -> Nat]
  /\ excluded \in [Source -> BOOLEAN]
  /\ snapshot \in SUBSET (Digests \X Source)
  /\ deadlineAt \in Nat \cup {NoTime}
  /\ deadlineNew \in BOOLEAN /\ deadlineSignal \in BOOLEAN
  /\ evaluator \in [pc : {"off", "select", "read", "arm", "evaluate"},
                    deadline : Nat \cup {NoTime}, timer : Nat \cup {NoTime}]
  /\ runner \in [Declared -> [pc : {"off", "select", "loading", "commit"},
                              timer : Nat, at : Nat \cup {NoTime},
                              result : Contribution \cup {Failed, Unchanged}]]
  /\ trigger \in [Declared -> BOOLEAN]

\* The data plane reads what the source states say: whichever goroutine
\* changed a contribution, an exclusion or a reinstatement, and in whatever
\* order they took the lock, it left the matching snapshot published.
SnapshotIsComposition ==
  phase \in {"serving", "closing", "closed"} =>
    snapshot = Composition(contribution, excluded)

\* A source is only out of service while its data is too old: an evaluation
\* that was set off by an older deadline never takes out a source whose
\* refresh committed in between.
FreshStaysInService ==
  \A s \in Source : excluded[s] =>
    s \in Declared /\ clock >= loadedAt[s] + MaxStaleness

\* No wakeup of the evaluator is lost: while a source has a deadline, a signal
\* is waiting, or the evaluator is on its way to look, or its timer fires no
\* later than that deadline (or at once, when the deadline is past).
DeadlineIsWatched ==
  phase = "serving" /\ MaxStaleness > 0 =>
    \A s \in Eligible(contribution, excluded) :
      LET deadline == loadedAt[s] + MaxStaleness IN
      \/ deadlineSignal
      \/ evaluator.pc \in {"read", "evaluate"}
      \/ evaluator.pc = "arm" /\ evaluator.deadline <= deadline
      \/ /\ evaluator.pc = "select" /\ evaluator.timer # NoTime
         /\ evaluator.timer <= deadline \/ evaluator.timer <= clock

\* A digest passes from one source to another only when the one that served
\* it stopped claiming it, or the other comes earlier.  Failing closed never
\* hands a credential to a lower source ("Composition and Precedence").
NoSilentReassignment ==
  [][\A d \in Digests : \A s, t \in Source :
       <<d, s>> \in snapshot /\ <<d, t>> \in snapshot' /\ s # t =>
         t < s \/ d \notin contribution'[s]]_vars

\* Data that got too old is taken out of service, or refreshed, or the store
\* is being closed: no order of refreshes, failures and signals leaves a
\* stale source in service for good.
StaleIsExcluded ==
  \A s \in Declared :
    []<>(phase = "serving" /\ MaxStaleness > 0 => s \notin Overdue)

\* Close returns, whatever the runners, the evaluator and the watchers were
\* doing when the context was cancelled.  ("closed" is the one phase that can
\* follow "closing".)
CloseReturns == []<>(phase # "closing")
-----------------------------------------------------------------------------
(* The store implements the union it promises.  While it boots nothing is  *)
(* visible.                                                                *)

Serving == phase \in {"serving", "closing", "closed"}

Claimed(s) == IF contribution[s] = NoContribution THEN {} ELSE contribution[s]

Union == INSTANCE KeyUnion WITH
  open <- Serving,
  claims <- [s \in Source |-> IF Serving THEN Claimed(s) ELSE {}],
  gone <- {s \in Source : excluded[s]},
  served <- snapshot

\* Every step of the store is a step of the abstract union: exclusion only
\* takes keys away, reinstatement only gives back, and only a delivered
\* contribution can move a key from one source to another.
ImplementsUnion == Union!USpec
=============================================================================
