------------------------ MODULE KeyStoreHealthProofs ------------------------
(***************************************************************************)
(* What the timing of the goroutines gives, for any number of sources and  *)
(* any durations that the configuration check accepts.                     *)
(***************************************************************************)
EXTENDS KeyStoreHealth, KeyStoreProofs

\* Every step under this timing is a step of the store, so whatever was proved
\* of the store holds here.
LEMMA HealthSteps == [HNext]_hvars => [Next]_vars
BY DEF HNext, Next, hvars, vars

LEMMA HealthIsStore == HSpec => Spec
<1>1. HInit => Init
  BY DEF HInit
<1>. QED
  BY <1>1, HealthSteps, PTL DEF HSpec, Spec

\* Only a tick moves the clock.
LEMMA WorkKeepsTime == Work => clock' = clock
<1>1. ASSUME NEW t \in Declared, RunnerStep(t) \/ WatcherNotifies(t) PROVE clock' = clock
  BY <1>1 DEF RunnerStep, PollFires, TriggerReceived, LoadFails, LoadReturns, CommitUpdate,
              CommitConfirmation, CommitRefused, RunnerStops, unchangedByRunner,
              WatcherNotifies, Kick
<1>2. ASSUME EvaluatorStep PROVE clock' = clock
  BY <1>2 DEF EvaluatorStep, SignalReceived, ReadDeadline, ArmTimer, TimerFires,
              EvaluateStaleness, EvaluatorStops, unchangedByEvaluator
<1>3. ASSUME BootLoad \/ Start \/ TriggerAll \/ Close \/ Joined \/ Stopped PROVE clock' = clock
  BY <1>3 DEF BootLoad, Start, TriggerAll, Kick, Close, Joined, Stopped, vars
<1>. QED
  BY <1>1, <1>2, <1>3 DEF Work
-----------------------------------------------------------------------------
(* Deadlines are met *)

\* Time does not pass while a source that is in service has overstayed its
\* deadline: the evaluator is due then.
THEOREM ExclusionIsOnTime == HSpec => ExcludedOnTime
<1>1. SafeInv /\ EvaluatorWatches /\ [HNext]_hvars =>
        [clock' > clock /\ phase = "serving" /\ MaxStaleness > 0 => Overdue = {}]_hvars
  <2> SUFFICES ASSUME SafeInv, EvaluatorWatches, [HNext]_hvars,
                      clock' > clock, phase = "serving", MaxStaleness > 0, NEW s \in Overdue
               PROVE  FALSE
    OBVIOUS
  <2>1. clock' # clock
    BY DEF SafeInv, TypeInv, TypeOK
  <2>2. ~Due
    BY <2>1, WorkKeepsTime DEF HNext, hvars, vars
  <2>3. DeadlineIsWatched
    BY WatchingSuffices
  <2>4. s \in Eligible(contribution, excluded) /\ clock >= loadedAt[s] + MaxStaleness
    BY DEF Overdue
  <2>5. evaluator.pc # "off"
    BY DEF EvaluatorWatches
  <2>6. /\ clock \in Nat /\ evaluator.timer \in Nat \cup {NoTime} /\ evaluator.pc \in
             {"off", "select", "read", "arm", "evaluate"}
        /\ loadedAt[s] + MaxStaleness \in Nat
    BY <2>4, SourceFacts, DurationAssumption DEF SafeInv, TypeInv, TypeOK, Eligible
  <2>7. evaluator.pc = "select" /\ ~deadlineSignal
    BY <2>2, <2>5, <2>6 DEF Due
  <2>8. evaluator.timer # NoTime /\ clock >= evaluator.timer
    BY <2>3, <2>4, <2>6, <2>7 DEF DeadlineIsWatched, NoTime
  <2>. QED
    BY <2>2, <2>7, <2>8 DEF Due
<1>. QED
  BY <1>1, HealthIsStore, SafeInvariant, WatchingInvariant, PTL DEF HSpec, ExcludedOnTime
-----------------------------------------------------------------------------
(* A source that is refreshed in time keeps its place *)

\* No goroutine overstays: a poll timer that has run out, a load past its
\* timeout and a commit are due before time passes.
Punctual ==
  \A s \in Declared :
    /\ runner[s].pc = "select" => clock <= runner[s].timer
    /\ runner[s].pc = "loading" => clock <= loadSince[s] + Timeout[s]
    /\ runner[s].pc = "commit" => runner[s].at = clock

\* The latest refresh of s committed, and the next one ends within a poll
\* interval and a timeout of it.
Young(s) == clock <= loadedAt[s] + PollInterval[s] + Timeout[s]

Renewing ==
  \A s \in Declared : recorded[s] = "success" =>
    /\ ~excluded[s] /\ Serving
    /\ runner[s].pc = "select" => runner[s].timer <= loadedAt[s] + PollInterval[s]
    /\ runner[s].pc = "loading" => loadSince[s] <= loadedAt[s] + PollInterval[s]
    /\ runner[s].pc = "commit" => Young(s)
    /\ runner[s].pc = "off" /\ phase = "closing" => Young(s)

\* Which goroutines run in which phase.
Running ==
  /\ phase = "serving" => \A s \in Declared : runner[s].pc # "off"
  /\ phase = "closed" \/ MaxStaleness = 0 => evaluator.pc = "off"

HealthType == loadSince \in [Source -> Nat] /\ recorded \in [Declared -> {"none", "failure", "success"}]

HealthInv == HealthType /\ Punctual /\ Renewing /\ Running

\* The part of the invariant that is about one source.
InTime(s) ==
  /\ runner[s].pc = "select" => clock <= runner[s].timer
  /\ runner[s].pc = "loading" => clock <= loadSince[s] + Timeout[s]
  /\ runner[s].pc = "commit" => runner[s].at = clock

Renewed(s) ==
  recorded[s] = "success" =>
    /\ ~excluded[s] /\ Serving
    /\ runner[s].pc = "select" => runner[s].timer <= loadedAt[s] + PollInterval[s]
    /\ runner[s].pc = "loading" => loadSince[s] <= loadedAt[s] + PollInterval[s]
    /\ runner[s].pc = "commit" => Young(s)
    /\ runner[s].pc = "off" /\ phase = "closing" => Young(s)

LEMMA PerSource ==
  /\ Punctual <=> \A s \in Declared : InTime(s)
  /\ Renewing <=> \A s \in Declared : Renewed(s)
  /\ Punctual' <=> \A s \in Declared : InTime(s)'
  /\ Renewing' <=> \A s \in Declared : Renewed(s)'
BY DEF Punctual, Renewing, InTime, Renewed

\* What the two history variables record.
Recorded ==
  /\ loadSince' = [s \in Source |-> IF LoadBegins(s) THEN clock ELSE loadSince[s]]
  /\ recorded' = [s \in Declared |-> IF RefreshEnds(s) THEN Result(s) ELSE recorded[s]]

LEMMA RecordedType == ASSUME TypeInv, HealthType, Recorded PROVE HealthType'
<1>1. clock \in Nat
  BY DEF TypeInv, TypeOK
<1>2. \A s \in Source : (IF LoadBegins(s) THEN clock ELSE loadSince[s]) \in Nat
  BY <1>1 DEF HealthType
<1>3. \A s \in Declared :
        (IF RefreshEnds(s) THEN Result(s) ELSE recorded[s]) \in {"none", "failure", "success"}
  BY DEF HealthType, Result
<1>. QED
  BY <1>2, <1>3 DEF HealthType, Recorded

\* The times of a source, as numbers.
LEMMA Times ==
  ASSUME TypeInv, HealthType, NEW s \in Declared
  PROVE  /\ clock \in Nat /\ loadedAt[s] \in Nat /\ loadSince[s] \in Nat
         /\ runner[s].timer \in Nat /\ PollInterval[s] \in Nat /\ Timeout[s] \in Nat
         /\ runner[s].pc \in {"off", "select", "loading", "commit"}
         /\ s \in Source
BY SourceFacts, DurationAssumption DEF TypeInv, TypeOK, HealthType

\* A source of which nothing changes keeps its place, if no time passes.
LEMMA BystanderKeeps ==
  ASSUME SafeInv, HealthInv, Recorded, NEW s \in Declared, runner'[s] = runner[s],
         clock' = clock, loadedAt'[s] = loadedAt[s], excluded'[s] = excluded[s],
         phase' = phase \/ (phase = "serving" /\ phase' = "closing")
           \/ (phase = "closing" /\ phase' = "closed")
  PROVE  InTime(s)' /\ Renewed(s)'
<1>1. recorded'[s] = recorded[s] /\ (runner[s].pc = "loading" => loadSince'[s] = loadSince[s])
  <2>1. runner[s].pc = "loading" => phase' # "boot"
    BY DEF SafeInv, Lifecycle, Serving
  <2>. QED
    BY <2>1, SourceFacts DEF Recorded, LoadBegins, RefreshEnds
<1>2. InTime(s) /\ Renewed(s)
  BY PerSource DEF HealthInv
<1>3. phase' = phase \/ runner[s].pc # "off" \/ phase' = "closed"
  BY DEF HealthInv, Running
<1>4. InTime(s)'
  BY <1>1, <1>2 DEF InTime
<1>5. ASSUME Serving PROVE Serving'
  BY <1>5 DEF Serving
<1>6. Renewed(s)'
  BY <1>1, <1>2, <1>3, <1>5 DEF Renewed, Young
<1>. QED
  BY <1>4, <1>6

\* A load begins in time, and the runner has its own timeout for it.
LEMMA LoadBeginsInTime ==
  ASSUME SafeInv, HealthInv, Recorded, NEW s \in Declared, PollFires(s) \/ TriggerReceived(s)
  PROVE  InTime(s)' /\ Renewed(s)'
<1>1. /\ runner[s].pc = "select" /\ runner'[s] = RunnerAt("loading", 0)
      /\ UNCHANGED <<clock, phase, contribution, loadedAt, excluded>>
  BY DEF PollFires, TriggerReceived, BeginLoad, unchangedByRunner, stateVars, SafeInv, TypeInv, TypeOK
<1>2. runner'[s].pc = "loading"
  BY <1>1 DEF RunnerAt
<1>3. loadSince'[s] = clock /\ recorded'[s] = recorded[s]
  BY <1>1, <1>2, SourceFacts DEF Recorded, LoadBegins, RefreshEnds
<1>4. InTime(s) /\ Renewed(s)
  BY PerSource DEF HealthInv
<1>5. /\ clock \in Nat /\ runner[s].timer \in Nat /\ loadedAt[s] \in Nat
      /\ PollInterval[s] \in Nat /\ Timeout[s] \in Nat
  BY Times DEF SafeInv, HealthInv
<1>6. InTime(s)'
  BY <1>1, <1>2, <1>3, <1>5 DEF InTime
<1>7. recorded[s] = "success" => clock <= loadedAt[s] + PollInterval[s]
  BY <1>1, <1>4, <1>5 DEF InTime, Renewed
<1>8. Renewed(s)'
  BY <1>1, <1>2, <1>3, <1>4, <1>7 DEF Renewed, Serving
<1>. QED
  BY <1>6, <1>8

\* A load that returned is committed before time passes.
LEMMA LoadReturnsInTime ==
  ASSUME SafeInv, HealthInv, Recorded, NEW s \in Declared, LoadReturns(s)
  PROVE  InTime(s)' /\ Renewed(s)'
<1>1. PICK result \in Publishes[s] \cup {Unchanged} :
        runner' = [runner EXCEPT ![s] =
          [RunnerAt("commit", 0) EXCEPT !.result = result, !.at = clock]]
  BY DEF LoadReturns
<1>2. runner'[s] = [RunnerAt("commit", 0) EXCEPT !.result = result, !.at = clock]
  BY <1>1 DEF SafeInv, TypeInv, TypeOK
<1>3. runner'[s].pc = "commit" /\ runner'[s].at = clock
  BY <1>2 DEF RunnerAt
<1>4. runner[s].pc = "loading" /\ UNCHANGED <<clock, phase, contribution, loadedAt, excluded>>
  BY DEF LoadReturns, unchangedByRunner, stateVars
<1>5. recorded'[s] = recorded[s]
  BY <1>3 DEF Recorded, RefreshEnds
<1>6. InTime(s) /\ Renewed(s)
  BY PerSource DEF HealthInv
<1>7. /\ clock \in Nat /\ loadSince[s] \in Nat /\ loadedAt[s] \in Nat
      /\ PollInterval[s] \in Nat /\ Timeout[s] \in Nat
  BY Times DEF SafeInv, HealthInv
<1>8. recorded[s] = "success" => Young(s)
  BY <1>4, <1>6, <1>7 DEF InTime, Renewed, Young
<1>9. InTime(s)'
  BY <1>3, <1>4 DEF InTime
<1>10. Renewed(s)'
  BY <1>3, <1>4, <1>5, <1>6, <1>8 DEF Renewed, Serving, Young
<1>. QED
  BY <1>9, <1>10

\* A refresh that failed leaves no claim behind.
LEMMA RefreshFails ==
  ASSUME SafeInv, HealthInv, Recorded, NEW s \in Declared, LoadFails(s) \/ CommitRefused(s)
  PROVE  InTime(s)' /\ Renewed(s)'
<1>1. /\ runner[s].pc \in {"loading", "commit"}
      /\ runner'[s] = RunnerAt("select", clock + PollInterval[s])
      /\ UNCHANGED <<clock, phase, contribution, loadedAt, excluded>>
      /\ runner[s].pc = "loading" \/ contribution[s] = NoContribution
  BY DEF LoadFails, CommitRefused, BackToSelect, unchangedByRunner, stateVars, SafeInv, TypeInv, TypeOK
<1>2. runner'[s].pc = "select" /\ runner'[s].timer = clock + PollInterval[s]
  BY <1>1 DEF RunnerAt
<1>3. recorded'[s] = "failure"
  BY <1>1, <1>2 DEF Recorded, RefreshEnds, Result
<1>4. clock \in Nat /\ PollInterval[s] \in Nat
  BY Times DEF SafeInv, HealthInv
<1>5. InTime(s)'
  BY <1>1, <1>2, <1>4 DEF InTime
<1>6. Renewed(s)'
  BY <1>3 DEF Renewed
<1>. QED
  BY <1>5, <1>6

\* A refresh that committed starts the interval that ends with the next one.
LEMMA RefreshCommits ==
  ASSUME SafeInv, HealthInv, Recorded, NEW s \in Declared, CommitUpdate(s) \/ CommitConfirmation(s)
  PROVE  InTime(s)' /\ Renewed(s)'
<1>1. /\ Serving' /\ clock' = clock /\ s \in Source
      /\ loadedAt' = [loadedAt EXCEPT ![s] = runner[s].at]
      /\ excluded' = [excluded EXCEPT ![s] = FALSE]
  BY CommitUpdateEffect, CommitConfirmationEffect, SourceFacts DEF SafeInv
<1>2. runner[s].pc = "commit" /\ runner'[s] = RunnerAt("select", clock + PollInterval[s])
  BY DEF CommitUpdate, CommitConfirmation, BackToSelect, SafeInv, TypeInv, TypeOK
<1>3. runner'[s].pc = "select" /\ runner'[s].timer = clock + PollInterval[s]
  BY <1>2 DEF RunnerAt
<1>4. runner[s].at = clock
  BY <1>2, PerSource DEF HealthInv, InTime
<1>5. loadedAt'[s] = clock /\ ~excluded'[s]
  BY <1>1, <1>4 DEF SafeInv, TypeInv, TypeOK
<1>6. clock \in Nat /\ PollInterval[s] \in Nat
  BY Times DEF SafeInv, HealthInv
<1>7. InTime(s)'
  BY <1>1, <1>3, <1>6 DEF InTime
<1>8. Renewed(s)'
  BY <1>1, <1>3, <1>5, <1>6 DEF Renewed
<1>. QED
  BY <1>7, <1>8

LEMMA RunnerStopsInTime ==
  ASSUME SafeInv, HealthInv, Recorded, NEW s \in Declared, RunnerStops(s)
  PROVE  InTime(s)' /\ Renewed(s)'
<1>1. /\ runner[s].pc = "select" /\ runner'[s] = RunnerAt("off", 0) /\ phase = "closing"
      /\ UNCHANGED <<clock, phase, contribution, loadedAt, excluded>>
  BY DEF RunnerStops, unchangedByRunner, stateVars, SafeInv, TypeInv, TypeOK
<1>2. runner'[s].pc = "off"
  BY <1>1 DEF RunnerAt
<1>3. recorded'[s] = recorded[s]
  BY <1>1 DEF Recorded, RefreshEnds
<1>4. InTime(s) /\ Renewed(s)
  BY PerSource DEF HealthInv
<1>5. /\ clock \in Nat /\ runner[s].timer \in Nat /\ loadedAt[s] \in Nat
      /\ PollInterval[s] \in Nat /\ Timeout[s] \in Nat
  BY Times DEF SafeInv, HealthInv
<1>6. recorded[s] = "success" => Young(s)
  BY <1>1, <1>4, <1>5 DEF InTime, Renewed, Young
<1>7. InTime(s)' /\ Renewed(s)'
  BY <1>1, <1>2, <1>3, <1>4, <1>6 DEF InTime, Renewed, Serving, Young
<1>. QED
  BY <1>7

\* Whoever's runner moves, all sources keep their place.
LEMMA RunnersInTime ==
  ASSUME SafeInv, HealthInv, Recorded, NEW s \in Declared,
         LocalRunnerStep(s) \/ CommitUpdate(s) \/ CommitConfirmation(s)
  PROVE  Punctual' /\ Renewing'
<1>1. InTime(s)' /\ Renewed(s)'
  BY LoadBeginsInTime, LoadReturnsInTime, RefreshFails, RefreshCommits, RunnerStopsInTime
     DEF LocalRunnerStep
<1>2. ASSUME NEW t \in Declared, t # s PROVE InTime(t)' /\ Renewed(t)'
  <2>1. t \in Source /\ s \in Source
    BY SourceFacts
  <2>2. runner'[t] = runner[t]
    BY <1>2 DEF LocalRunnerStep, PollFires, TriggerReceived, LoadFails, LoadReturns, CommitRefused,
                RunnerStops, CommitUpdate, CommitConfirmation, BeginLoad, BackToSelect,
                SafeInv, TypeInv, TypeOK
  <2>3. clock' = clock /\ phase' = phase /\ loadedAt'[t] = loadedAt[t] /\ excluded'[t] = excluded[t]
    <3>1. CASE LocalRunnerStep(s)
      BY <3>1, LocalRunnerFrame DEF stateVars
    <3>2. CASE CommitUpdate(s) \/ CommitConfirmation(s)
      BY <3>2, <1>2, <2>1, CommitUpdateEffect, CommitConfirmationEffect DEF SafeInv, TypeInv, TypeOK
    <3>. QED
      BY <3>1, <3>2
  <2>. QED
    BY <2>2, <2>3, BystanderKeeps
<1>. QED
  BY <1>1, <1>2, PerSource

\* The evaluation takes out no source that was refreshed.
LEMMA EvaluationSpares ==
  ASSUME SafeInv, HealthInv, Recorded, EvaluateStaleness
  PROVE  Punctual' /\ Renewing'
<1>1. /\ Serving /\ UNCHANGED <<clock, phase, runner, loadedAt>>
      /\ excluded' = [s \in Source |-> excluded[s] \/ s \in Overdue]
      /\ evaluator.pc = "evaluate"
  BY EvaluateStalenessEffect DEF EvaluateStaleness, SafeInv
<1>2. MaxStaleness > 0 /\ phase \in {"serving", "closing"}
  BY <1>1, DurationAssumption DEF HealthInv, Running, Serving
<1>3. ASSUME NEW s \in Declared PROVE InTime(s)' /\ Renewed(s)'
  <2>1. InTime(s) /\ Renewed(s)
    BY PerSource DEF HealthInv
  <2>2. /\ clock \in Nat /\ runner[s].timer \in Nat /\ loadedAt[s] \in Nat /\ loadSince[s] \in Nat
        /\ PollInterval[s] \in Nat /\ Timeout[s] \in Nat /\ s \in Source
        /\ runner[s].pc \in {"off", "select", "loading", "commit"}
    BY Times DEF SafeInv, HealthInv
  <2>3. recorded[s] = "success" => s \notin Overdue
    <3>1. SUFFICES ASSUME recorded[s] = "success" PROVE s \notin Overdue
      OBVIOUS
    <3>2. runner[s].pc = "off" => phase = "closing"
      BY <1>2 DEF HealthInv, Running
    <3>3. Young(s)
      BY <2>1, <2>2, <3>1, <3>2 DEF InTime, Renewed, Young
    <3>4. MaxStaleness > PollInterval[s] + Timeout[s] /\ MaxStaleness \in Nat
      BY <1>2, Validated, DurationAssumption
    <3>. QED
      BY <2>2, <3>3, <3>4 DEF Overdue, Young
  <2>4. recorded[s] = "success" => ~excluded'[s]
    BY <1>1, <2>1, <2>2, <2>3 DEF Renewed
  <2>5. recorded'[s] = recorded[s]
    BY <1>1 DEF Recorded, RefreshEnds
  <2>6. runner[s].pc = "loading" => loadSince'[s] = loadSince[s]
    BY <1>1, <1>2, <2>2 DEF Recorded, LoadBegins
  <2>. QED
    BY <1>1, <2>1, <2>4, <2>5, <2>6 DEF InTime, Renewed, Serving, Young
<1>. QED
  BY <1>3, PerSource

\* Time passes only while nobody is due.
LEMMA TimePasses ==
  ASSUME SafeInv, HealthInv, Recorded, Tick, ~Due
  PROVE  Punctual' /\ Renewing'
<1>1. clock' = clock + 1 /\ UNCHANGED <<phase, runner, loadedAt, excluded, bootNext>>
  BY DEF Tick, runnerVars, stateVars
<1>2. phase # "closing"
  BY DEF Due
<1>3. ASSUME NEW s \in Declared PROVE InTime(s)' /\ Renewed(s)'
  <2>1. InTime(s) /\ Renewed(s)
    BY PerSource DEF HealthInv
  <2>2. /\ clock \in Nat /\ runner[s].timer \in Nat /\ loadedAt[s] \in Nat /\ loadSince[s] \in Nat
        /\ PollInterval[s] \in Nat /\ Timeout[s] \in Nat /\ s \in Source
        /\ runner[s].pc \in {"off", "select", "loading", "commit"}
    BY Times DEF SafeInv, HealthInv
  <2>3. /\ runner[s].pc # "commit"
        /\ runner[s].pc = "select" => ~(clock >= runner[s].timer)
        /\ runner[s].pc = "loading" => ~TimedOut(s)
    BY DEF Due
  <2>4. /\ runner[s].pc = "select" => clock + 1 <= runner[s].timer
        /\ runner[s].pc = "loading" => clock + 1 <= loadSince[s] + Timeout[s]
    BY <2>2, <2>3 DEF TimedOut
  <2>5. recorded'[s] = recorded[s]
    BY <1>1 DEF Recorded, RefreshEnds
  <2>6. runner[s].pc = "loading" => loadSince'[s] = loadSince[s]
    BY <1>1, <2>2 DEF Recorded, LoadBegins
  <2>7. InTime(s)'
    BY <1>1, <2>3, <2>4, <2>6 DEF InTime
  <2>8. Renewed(s)'
    BY <1>1, <1>2, <2>1, <2>3, <2>5, <2>6 DEF Renewed, Serving, Young
  <2>. QED
    BY <2>7, <2>8
<1>. QED
  BY <1>3, PerSource

\* Before the store serves, nothing runs and nothing has been recorded.
LEMMA BootRecordsNothing ==
  ASSUME SafeInv, HealthInv, Recorded, BootLoad \/ Start
  PROVE  Punctual' /\ Renewing'
<1>1. ~Serving /\ clock' = clock
  BY BootLoadEffect, StartEffect DEF SafeInv
<1>2. ASSUME NEW s \in Declared PROVE InTime(s)' /\ Renewed(s)'
  <2>1. runner[s].pc = "off" /\ recorded[s] # "success"
    BY <1>1, PerSource DEF SafeInv, Lifecycle, HealthInv, Renewed
  <2>2. recorded'[s] # "success"
    BY <2>1 DEF Recorded, RefreshEnds
  <2>3. clock \in Nat /\ PollInterval[s] \in Nat
    BY Times DEF SafeInv, HealthInv
  <2>4. CASE BootLoad
    BY <2>1, <2>2, <2>4, BootLoadEffect DEF InTime, Renewed
  <2>5. CASE Start
    <3>1. runner'[s] = RunnerAt("select", clock + PollInterval[s])
      BY <2>5 DEF Start
    <3>2. runner'[s].pc = "select" /\ runner'[s].timer = clock + PollInterval[s]
      BY <3>1 DEF RunnerAt
    <3>. QED
      BY <1>1, <2>2, <2>3, <3>2 DEF InTime, Renewed
  <2>. QED
    BY <2>4, <2>5
<1>. QED
  BY <1>2, PerSource

LEMMA RunningStep ==
  ASSUME SafeInv, Running, [Next]_vars
  PROVE  Running'
<1>1. CASE BootLoad
  <2>1. evaluator.pc = "off" /\ evaluator' = evaluator /\ ~Serving'
    BY <1>1, BootLoadEffect DEF SafeInv, Lifecycle
  <2>. QED
    BY <2>1 DEF Running, Serving
<1>2. CASE Start
  <2>1. phase' = "serving" /\ evaluator' = EvaluatorAt(IF MaxStaleness > 0 THEN "select" ELSE "off", NoTime)
        /\ runner' = [s \in Declared |-> RunnerAt("select", clock + PollInterval[s])]
    BY <1>2 DEF Start
  <2>. QED
    BY <2>1, DurationAssumption DEF Running, RunnerAt, EvaluatorAt
<1>3. ASSUME NEW s \in Declared, LocalRunnerStep(s) \/ CommitUpdate(s) \/ CommitConfirmation(s)
      PROVE  Running'
  <2>1. phase' = phase /\ evaluator' = evaluator
    BY <1>3, LocalRunnerFrame, CommitUpdateEffect, CommitConfirmationEffect DEF SafeInv
  <2>2. ASSUME phase = "serving" PROVE runner'[s].pc # "off"
    <3>1. CASE LoadReturns(s)
      <4>1. PICK result : runner'[s] = [RunnerAt("commit", 0) EXCEPT !.result = result, !.at = clock]
        BY <3>1 DEF LoadReturns, SafeInv, TypeInv, TypeOK
      <4>. QED
        BY <4>1 DEF RunnerAt
    <3>2. CASE ~LoadReturns(s)
      <4>1. runner'[s] \in {RunnerAt("loading", 0), RunnerAt("select", clock + PollInterval[s])}
        BY <1>3, <2>2, <3>2 DEF LocalRunnerStep, PollFires, TriggerReceived, LoadFails,
           CommitRefused, RunnerStops, CommitUpdate, CommitConfirmation, BeginLoad, BackToSelect,
           SafeInv, TypeInv, TypeOK
      <4>. QED
        BY <4>1 DEF RunnerAt
    <3>. QED
      BY <3>1, <3>2
  <2>3. \A t \in Declared \ {s} : runner'[t] = runner[t]
    BY <1>3 DEF LocalRunnerStep, PollFires, TriggerReceived, LoadFails, LoadReturns, CommitRefused,
                RunnerStops, CommitUpdate, CommitConfirmation, BeginLoad, BackToSelect,
                SafeInv, TypeInv, TypeOK
  <2>. QED
    BY <2>1, <2>2, <2>3 DEF Running
<1>4. CASE LocalEvaluatorStep \/ EvaluateStaleness
  <2>1. UNCHANGED <<phase, runner>>
    BY <1>4, LocalEvaluatorFrame, EvaluateStalenessEffect DEF SafeInv, runnerVars
  <2>2. evaluator.pc # "off"
    BY <1>4 DEF LocalEvaluatorStep, SignalReceived, ReadDeadline, ArmTimer, TimerFires,
                EvaluatorStops, EvaluateStaleness
  <2>. QED
    BY <2>1, <2>2 DEF Running
<1>5. CASE OtherStep \/ UNCHANGED vars
  <2>1. UNCHANGED <<evaluator, runner>>
    BY <1>5, OtherFrame DEF vars, runnerVars
  <2>2. phase' = phase \/ phase' = "closing" \/ (phase' = "closed" /\ evaluator.pc = "off")
    BY <1>5 DEF OtherStep, Kick, Close, Joined, Tick, vars
  <2>. QED
    BY <2>1, <2>2 DEF Running
<1>. QED
  BY <1>1, <1>2, <1>3, <1>4, <1>5, Steps

LEMMA HealthStep ==
  ASSUME SafeInv, HealthInv, [HNext]_hvars
  PROVE  HealthInv'
<1>1. Running' /\ [Next]_vars
  BY RunningStep, HealthSteps DEF HealthInv
<1>2. CASE UNCHANGED hvars
  BY <1>2 DEF hvars, vars, stateVars, runnerVars, HealthInv, HealthType, Punctual, Renewing,
              Running, Young, Serving
<1>3. CASE HNext
  <2>1. Recorded
    BY <1>3 DEF HNext, Recorded
  <2>2. HealthType'
    BY <2>1, RecordedType DEF HealthInv, SafeInv
  <2>3. Tick => ~Due
    BY <1>3, WorkKeepsTime DEF HNext, Tick, SafeInv, TypeInv, TypeOK
  <2>4. CASE Tick
    BY <1>1, <2>1, <2>2, <2>3, <2>4, TimePasses DEF HealthInv
  <2>5. CASE BootLoad \/ Start
    BY <1>1, <2>1, <2>2, <2>5, BootRecordsNothing DEF HealthInv
  <2>6. ASSUME NEW s \in Declared, LocalRunnerStep(s) \/ CommitUpdate(s) \/ CommitConfirmation(s)
        PROVE  HealthInv'
    BY <1>1, <2>1, <2>2, <2>6, RunnersInTime DEF HealthInv
  <2>7. CASE EvaluateStaleness
    BY <1>1, <2>1, <2>2, <2>7, EvaluationSpares DEF HealthInv
  <2>8. ASSUME UNCHANGED <<clock, runner, loadedAt, excluded>>,
               phase' = phase \/ (phase = "serving" /\ phase' = "closing")
                 \/ (phase = "closing" /\ phase' = "closed")
        PROVE  HealthInv'
    <3>1. \A s \in Declared : InTime(s)' /\ Renewed(s)'
      BY <2>1, <2>8, BystanderKeeps
    <3>. QED
      BY <1>1, <2>2, <3>1, PerSource DEF HealthInv
  <2>9. CASE LocalEvaluatorStep
    BY <2>8, <2>9, LocalEvaluatorFrame DEF stateVars, runnerVars
  <2>10. ASSUME \E S \in SUBSET Declared : Kick(S) PROVE HealthInv'
    BY <2>8, <2>10 DEF Kick, stateVars
  <2>11. CASE Close \/ Joined
    BY <2>8, <2>11 DEF Close, Joined, stateVars, runnerVars
  <2>12. CASE UNCHANGED vars
    BY <2>8, <2>12 DEF vars, stateVars, runnerVars
  <2>. QED
    BY <1>1, <2>4, <2>5, <2>6, <2>7, <2>9, <2>10, <2>11, <2>12, Steps DEF OtherStep
<1>. QED
  BY <1>2, <1>3

LEMMA HealthInit == HInit => HealthInv
<1> SUFFICES ASSUME HInit PROVE HealthInv
  OBVIOUS
<1>1. /\ loadSince = [s \in Source |-> 0] /\ recorded = [s \in Declared |-> "none"]
      /\ phase = "boot" /\ evaluator.pc = "off"
  BY DEF HInit, Init, EvaluatorAt
<1>2. \A s \in Declared : runner[s].pc = "off"
  BY DEF HInit, Init, RunnerAt
<1>. QED
  BY <1>1, <1>2 DEF HealthInv, HealthType, Punctual, Renewing, Running

\* A source whose refreshes succeed in time stays in service, whatever the other
\* sources do: its next load ends before the deadline that the last one set.
THEOREM RefreshedIsServed == HSpec => []RefreshedStaysInService
<1>1. HealthInv => RefreshedStaysInService
  BY DEF HealthInv, Renewing, RefreshedStaysInService
<1>2. SafeInv /\ HealthInv /\ [HNext]_hvars => HealthInv'
  BY HealthStep
<1>. QED
  BY <1>1, <1>2, HealthInit, HealthIsStore, SafeInvariant, PTL DEF HSpec
=============================================================================
