--------------------------- MODULE KeyStoreProofs ---------------------------
(***************************************************************************)
(* What holds of the key store for any number of sources, any digests and  *)
(* any durations the configuration check accepts.                          *)
(***************************************************************************)
EXTENDS KeyStore, FiniteSets, FiniteSetTheorems, WellFoundedInduction, TLAPS

-----------------------------------------------------------------------------
(* Minimum of a set of naturals, by which the deadline is defined.         *)

\* Every nonempty set of naturals has a least element: the intervals 0 .. x
\* are finite sets, and strict inclusion is well founded on those.
LEMMA NatHasLeast ==
  ASSUME NEW S \in SUBSET Nat, S # {}
  PROVE  \E x \in S : \A y \in S : x <= y
<1> DEFINE D == {0 .. x : x \in S}
<1>1. D \subseteq FiniteSubsetsOf(Nat)
  <2>1. SUFFICES ASSUME NEW x \in S PROVE 0 .. x \in FiniteSubsetsOf(Nat)
    OBVIOUS
  <2>2. x \in Int /\ 0 \in Int /\ 0 .. x \subseteq Nat
    OBVIOUS
  <2>3. IsFiniteSet(0 .. x)
    BY <2>2, FS_Interval
  <2>4. QED BY <2>2, <2>3 DEF FiniteSubsetsOf
<1>2. D # {}
  OBVIOUS
<1>3. PICK I \in D : \A J \in D : <<J, I>> \notin StrictSubsetOrdering(Nat)
  BY <1>1, <1>2, FS_StrictSubsetOrderingWellFounded, WFMin
<1>4. PICK x \in S : I = 0 .. x
  OBVIOUS
<1>5. ASSUME NEW y \in S, ~(x <= y) PROVE FALSE
  <2>1. 0 .. y \subseteq 0 .. x /\ 0 .. y # 0 .. x /\ 0 .. x \in SUBSET Nat
    BY <1>5
  <2>2. <<0 .. y, 0 .. x>> \in StrictSubsetOrdering(Nat)
    BY <2>1 DEF StrictSubsetOrdering
  <2>3. QED BY <2>2, <1>3, <1>4
<1>6. QED BY <1>5

\* Min, which chooses it, returns that element.
LEMMA MinOfNats ==
  ASSUME NEW S \in SUBSET Nat, S # {}
  PROVE  Min(S) \in S /\ \A y \in S : Min(S) <= y
BY NatHasLeast DEF Min

LEMMA MaxOfTwo ==
  ASSUME NEW m \in Nat, NEW n \in Nat
  PROVE  Max({m, n}) \in Nat /\ (Max({m, n}) = m \/ Max({m, n}) = n)
<1>1. \E x \in {m, n} : \A y \in {m, n} : x >= y
  OBVIOUS
<1>2. Max({m, n}) \in {m, n}
  BY <1>1 DEF Max
<1>3. QED BY <1>2

\* The earliest deadline is a time, and no eligible source has an earlier one.
LEMMA EarliestDeadlineIsFirst ==
  ASSUME NEW contrib, NEW excl, NEW loaded \in [Source -> Nat]
  PROVE  /\ EarliestDeadline(contrib, loaded, excl) \in Nat \cup {NoTime}
         /\ \A s \in Eligible(contrib, excl) :
              /\ EarliestDeadline(contrib, loaded, excl) \in Nat
              /\ EarliestDeadline(contrib, loaded, excl) <= loaded[s] + MaxStaleness
<1> DEFINE E == Eligible(contrib, excl)
           D == {loaded[s] + MaxStaleness : s \in E}
<1>1. E \subseteq Source
  BY LastAssumption DEF Eligible, Declared, Source
<1>2. D \in SUBSET Nat
  BY <1>1, DurationAssumption
<1>3. CASE E = {}
  BY <1>3 DEF EarliestDeadline
<1>4. CASE E # {}
  <2>1. D # {}
    BY <1>4
  <2>2. Min(D) \in Nat /\ \A y \in D : Min(D) <= y
    BY <1>2, <2>1, MinOfNats
  <2>3. EarliestDeadline(contrib, loaded, excl) = Min(D)
    BY <1>4 DEF EarliestDeadline
  <2>4. QED BY <2>2, <2>3
<1>5. QED BY <1>3, <1>4
-----------------------------------------------------------------------------
(* Type correctness *)

\* A runner that is about to commit holds a result and a time.
CommitHolds ==
  \A s \in Declared : runner[s].pc = "commit" =>
    runner[s].at \in Nat /\ runner[s].result # Failed

ArmHolds == evaluator.pc = "arm" => evaluator.deadline \in Nat

TypeInv == TypeOK /\ CommitHolds /\ ArmHolds

LEMMA SourceFacts ==
  /\ Declared \subseteq Source /\ 0 \in Source /\ 0 \notin Declared
  /\ Source \subseteq Nat
BY LastAssumption DEF Source, Declared

\* Arming keeps the deadline a time, whatever the new source states are.
LEMMA ArmDeadlineType ==
  ASSUME deadlineAt \in Nat \cup {NoTime}, deadlineNew \in BOOLEAN,
         deadlineSignal \in BOOLEAN,
         loadedAt' \in [Source -> Nat], ArmDeadline
  PROVE  /\ deadlineAt' \in Nat \cup {NoTime}
         /\ deadlineNew' \in BOOLEAN /\ deadlineSignal' \in BOOLEAN
<1>1. EarliestDeadline(contribution', loadedAt', excluded') \in Nat \cup {NoTime}
  BY EarliestDeadlineIsFirst
<1>2. QED BY <1>1 DEF ArmDeadline, deadlineVars

LEMMA CompositionType ==
  ASSUME NEW contrib, NEW excl
  PROVE  Composition(contrib, excl) \in SUBSET (Digests \X Source)
BY DEF Composition

\* A runner that is back in its select, or off, is well formed.
LEMMA RunnerAtType ==
  ASSUME NEW pc \in {"off", "select", "loading", "commit"}, NEW t \in Nat
  PROVE  /\ RunnerAt(pc, t) \in [pc : {"off", "select", "loading", "commit"},
                                 timer : Nat, at : Nat \cup {NoTime},
                                 result : Contribution \cup {Failed, Unchanged}]
         /\ RunnerAt(pc, t).pc = pc
BY DEF RunnerAt

\* A runner that goes anywhere but to a commit keeps the types of the runners.
LEMMA RunnerGoesType ==
  ASSUME TypeInv, NEW s \in Declared, NEW pc \in {"off", "select", "loading"}, NEW t \in Nat,
         runner' = [runner EXCEPT ![s] = RunnerAt(pc, t)]
  PROVE  /\ runner' \in [Declared -> [pc : {"off", "select", "loading", "commit"},
                                      timer : Nat, at : Nat \cup {NoTime},
                                      result : Contribution \cup {Failed, Unchanged}]]
         /\ CommitHolds'
<1> DEFINE Runner == [pc : {"off", "select", "loading", "commit"},
                      timer : Nat, at : Nat \cup {NoTime},
                      result : Contribution \cup {Failed, Unchanged}]
           r == RunnerAt(pc, t)
<1>1. r \in Runner /\ r.pc # "commit"
  BY RunnerAtType
<1>2. runner \in [Declared -> Runner]
  BY DEF TypeInv, TypeOK
<1>3. runner' = [runner EXCEPT ![s] = r]
  OBVIOUS
<1> HIDE DEF Runner, r
<1>4. runner' \in [Declared -> Runner]
  BY <1>1, <1>2, <1>3
<1>5. runner'[s] = r /\ \A u \in Declared \ {s} : runner'[u] = runner[u]
  BY <1>2, <1>3
<1>6. CommitHolds'
  BY <1>1, <1>5 DEF TypeInv, CommitHolds
<1>. QED
  BY <1>4, <1>6 DEF Runner

LEMMA TypeInit == Init => TypeInv
<1> SUFFICES ASSUME Init PROVE TypeInv
  OBVIOUS
<1>1. /\ loadedAt \in [Source -> Nat] /\ excluded \in [Source -> BOOLEAN]
      /\ contribution \in [Source -> Contribution \cup {NoContribution}]
      /\ trigger \in [Declared -> BOOLEAN]
  BY DEF Init
<1>2. /\ runner \in [Declared -> [pc : {"off", "select", "loading", "commit"},
                                  timer : Nat, at : Nat \cup {NoTime},
                                  result : Contribution \cup {Failed, Unchanged}]]
      /\ CommitHolds
  <2>1. runner = [s \in Declared |-> RunnerAt("off", 0)]
    BY DEF Init
  <2>2. QED BY <2>1, RunnerAtType DEF CommitHolds
<1>3. /\ evaluator \in [pc : {"off", "select", "read", "arm", "evaluate"},
                        deadline : Nat \cup {NoTime}, timer : Nat \cup {NoTime}]
      /\ ArmHolds
  BY DEF Init, EvaluatorAt, ArmHolds
<1>4. clock \in Nat /\ phase = "boot" /\ bootNext \in 0 .. Last + 1
  BY LastAssumption DEF Init
<1>5. /\ snapshot \in SUBSET (Digests \X Source)
      /\ deadlineAt \in Nat \cup {NoTime}
  BY DEF Init
<1>6. deadlineNew \in BOOLEAN /\ deadlineSignal \in BOOLEAN
  BY DEF Init
<1>7. QED BY <1>1, <1>2, <1>3, <1>4, <1>5, <1>6 DEF TypeInv, TypeOK

LEMMA BootLoadType == TypeInv /\ BootLoad => TypeInv'
<1> SUFFICES ASSUME TypeInv, BootLoad PROVE TypeInv'
  OBVIOUS
<1> USE DEF TypeInv, TypeOK, CommitHolds, ArmHolds
<1>1. /\ UNCHANGED <<clock, snapshot, deadlineVars, evaluator, runnerVars>>
      /\ bootNext \in Source
  BY DEF BootLoad
<1>2. CASE \E c \in Publishes[bootNext] : BootInstalls(c)
  <2>1. PICK c \in Publishes[bootNext] : BootInstalls(c)
    BY <1>2
  <2>2. c \in Contribution
    BY <1>1, PublishesAssumption DEF Contribution
  <2>3. /\ contribution' \in [Source -> Contribution \cup {NoContribution}]
        /\ loadedAt' \in [Source -> Nat]
    BY <1>1, <2>1, <2>2 DEF BootInstalls
  <2>4. bootNext' \in 0 .. Last + 1 /\ phase' = phase /\ excluded' = excluded
    BY <1>1, <2>1, LastAssumption DEF BootInstalls, NextBootLoad, Source
  <2>5. QED BY <1>1, <2>3, <2>4 DEF deadlineVars, runnerVars
<1>3. CASE \E result \in {Failed, Unchanged} : BootRejects(result)
  <2>1. UNCHANGED stateVars
    BY <1>3 DEF BootRejects
  <2>2. bootNext' \in 0 .. Last + 1 /\ phase' \in {phase, "failed"}
    BY <1>1, <1>3, LastAssumption DEF BootRejects, NextBootLoad, Source
  <2>3. QED BY <1>1, <2>1, <2>2 DEF deadlineVars, runnerVars, stateVars
<1>4. QED BY <1>2, <1>3 DEF BootLoad

LEMMA StartType == TypeInv /\ Start => TypeInv'
<1> SUFFICES ASSUME TypeInv, Start PROVE TypeInv'
  OBVIOUS
<1> USE DEF TypeInv, TypeOK, CommitHolds, ArmHolds
<1>1. UNCHANGED stateVars /\ Recompose
  BY DEF Start
<1>2. loadedAt' \in [Source -> Nat]
  BY <1>1 DEF stateVars
<1>3. /\ deadlineAt' \in Nat \cup {NoTime}
      /\ deadlineNew' \in BOOLEAN /\ deadlineSignal' \in BOOLEAN
  BY <1>1, <1>2, ArmDeadlineType DEF Recompose
<1>4. snapshot' \in SUBSET (Digests \X Source)
  BY <1>1, CompositionType DEF Recompose
<1>5. \A s \in Declared : clock + PollInterval[s] \in Nat
  BY DurationAssumption
<1>6. /\ runner' \in [Declared -> [pc : {"off", "select", "loading", "commit"},
                                   timer : Nat, at : Nat \cup {NoTime},
                                   result : Contribution \cup {Failed, Unchanged}]]
      /\ \A s \in Declared : runner'[s].pc = "select"
  BY <1>5 DEF Start, RunnerAt
<1>7. /\ evaluator' \in [pc : {"off", "select", "read", "arm", "evaluate"},
                         deadline : Nat \cup {NoTime}, timer : Nat \cup {NoTime}]
      /\ evaluator'.pc # "arm"
  BY DEF Start, EvaluatorAt
<1>8. QED BY <1>1, <1>2, <1>3, <1>4, <1>6, <1>7 DEF Start, stateVars

LEMMA CommitUpdateType ==
  ASSUME TypeInv, NEW s \in Declared, CommitUpdate(s) PROVE TypeInv'
<1> USE DEF TypeInv, TypeOK, CommitHolds, ArmHolds
<1>1. /\ runner[s].result \in Contribution /\ runner[s].at \in Nat
      /\ Install(s, runner[s].result, runner[s].at)
  BY DEF CommitUpdate
<1>2. /\ contribution' \in [Source -> Contribution \cup {NoContribution}]
      /\ loadedAt' \in [Source -> Nat]
      /\ excluded' \in [Source -> BOOLEAN]
  BY <1>1 DEF Install
<1>3. /\ deadlineAt' \in Nat \cup {NoTime}
      /\ deadlineNew' \in BOOLEAN /\ deadlineSignal' \in BOOLEAN
  BY <1>1, <1>2, ArmDeadlineType DEF Install, Recompose
<1>4. snapshot' \in SUBSET (Digests \X Source)
  BY <1>1, CompositionType DEF Install, Recompose
<1>5. clock + PollInterval[s] \in Nat
  BY DurationAssumption
<1>6. runner' = [runner EXCEPT ![s] = RunnerAt("select", clock + PollInterval[s])]
  BY DEF CommitUpdate, BackToSelect
<1>7. /\ runner' \in [Declared -> [pc : {"off", "select", "loading", "commit"},
                                   timer : Nat, at : Nat \cup {NoTime},
                                   result : Contribution \cup {Failed, Unchanged}]]
      /\ CommitHolds'
  BY <1>5, <1>6, RunnerGoesType
<1>8. QED
  BY <1>2, <1>3, <1>4, <1>7 DEF CommitUpdate, unchangedByRunner

LEMMA CommitConfirmationType ==
  ASSUME TypeInv, NEW s \in Declared, CommitConfirmation(s) PROVE TypeInv'
<1> USE DEF TypeInv, TypeOK, CommitHolds, ArmHolds
<1>1. runner[s].at \in Nat /\ Touch(s, runner[s].at)
  BY DEF CommitConfirmation
<1>2. /\ contribution' = contribution
      /\ loadedAt' \in [Source -> Nat]
      /\ excluded' \in [Source -> BOOLEAN]
  BY <1>1 DEF Touch
<1>3. ArmDeadline /\ (snapshot' = Composition(contribution', excluded') \/ snapshot' = snapshot)
  BY <1>1 DEF Touch, Recompose
<1>4. /\ deadlineAt' \in Nat \cup {NoTime}
      /\ deadlineNew' \in BOOLEAN /\ deadlineSignal' \in BOOLEAN
  BY <1>2, <1>3, ArmDeadlineType
<1>5. snapshot' \in SUBSET (Digests \X Source)
  BY <1>3, CompositionType
<1>6. clock + PollInterval[s] \in Nat
  BY DurationAssumption
<1>7. runner' = [runner EXCEPT ![s] = RunnerAt("select", clock + PollInterval[s])]
  BY DEF CommitConfirmation, BackToSelect
<1>8. /\ runner' \in [Declared -> [pc : {"off", "select", "loading", "commit"},
                                   timer : Nat, at : Nat \cup {NoTime},
                                   result : Contribution \cup {Failed, Unchanged}]]
      /\ CommitHolds'
  BY <1>6, <1>7, RunnerGoesType
<1>9. QED
  BY <1>2, <1>4, <1>5, <1>8 DEF CommitConfirmation, unchangedByRunner

\* The steps of a runner that touch no state shared with the store.
LocalRunnerStep(s) ==
  \/ PollFires(s) \/ TriggerReceived(s) \/ LoadFails(s) \/ LoadReturns(s)
  \/ CommitRefused(s) \/ RunnerStops(s)

LEMMA LocalRunnerFrame ==
  ASSUME NEW s \in Declared, LocalRunnerStep(s)
  PROVE  UNCHANGED <<clock, phase, bootNext, stateVars, snapshot, deadlineVars, evaluator>>
BY DEF LocalRunnerStep, PollFires, TriggerReceived, LoadFails, LoadReturns, CommitRefused,
       RunnerStops, unchangedByRunner

LEMMA LocalRunnerType ==
  ASSUME TypeInv, NEW s \in Declared, LocalRunnerStep(s) PROVE TypeInv'
<1> USE DEF TypeInv, TypeOK, CommitHolds, ArmHolds
<1>1. UNCHANGED <<clock, phase, bootNext, stateVars, snapshot, deadlineVars, evaluator>>
  BY LocalRunnerFrame
<1>2. trigger' \in [Declared -> BOOLEAN]
  BY DEF LocalRunnerStep, PollFires, TriggerReceived, LoadFails, LoadReturns, CommitRefused,
         RunnerStops
<1>3. clock + PollInterval[s] \in Nat
  BY DurationAssumption
<1>4. /\ runner' \in [Declared -> [pc : {"off", "select", "loading", "commit"},
                                   timer : Nat, at : Nat \cup {NoTime},
                                   result : Contribution \cup {Failed, Unchanged}]]
      /\ CommitHolds'
  <2>1. CASE LoadReturns(s)
    <3>1. PICK r \in Publishes[s] \cup {Unchanged} :
            runner' = [runner EXCEPT ![s] =
              [RunnerAt("commit", 0) EXCEPT !.result = r, !.at = clock]]
      BY <2>1 DEF LoadReturns
    <3>2. r \in Contribution \cup {Unchanged} /\ r # Failed
      BY PublishesAssumption, OutcomeAssumption, SourceFacts DEF Contribution
    <3>3. /\ runner'[s] \in [pc : {"off", "select", "loading", "commit"},
                             timer : Nat, at : Nat \cup {NoTime},
                             result : Contribution \cup {Failed, Unchanged}]
          /\ runner'[s].at \in Nat /\ runner'[s].result # Failed
      <4>1. runner'[s] = [RunnerAt("commit", 0) EXCEPT !.result = r, !.at = clock]
        BY <3>1
      <4>2. runner'[s] = [pc |-> "commit", timer |-> 0, result |-> r, at |-> clock]
        BY <4>1 DEF RunnerAt
      <4>3. QED BY <3>2, <4>2
    <3>4. \A t \in Declared \ {s} : runner'[t] = runner[t]
      BY <3>1
    <3>5. runner' = [t \in Declared |-> runner'[t]]
      BY <3>1
    <3>6. QED BY <3>3, <3>4, <3>5
  <2>2. CASE ~LoadReturns(s)
    <3>1. \E pc \in {"off", "select", "loading"}, t \in Nat :
            runner' = [runner EXCEPT ![s] = RunnerAt(pc, t)]
      BY <2>2, <1>3 DEF LocalRunnerStep, PollFires, TriggerReceived, LoadFails, CommitRefused,
                        RunnerStops, BeginLoad, BackToSelect
    <3>2. PICK pc \in {"off", "select", "loading"}, t \in Nat :
            runner' = [runner EXCEPT ![s] = RunnerAt(pc, t)]
      BY <3>1
    <3>3. QED BY <3>2, RunnerGoesType
  <2>3. QED BY <2>1, <2>2
<1>5. QED BY <1>1, <1>2, <1>4 DEF stateVars, deadlineVars

\* The steps of the evaluator that leave the source states alone.
LocalEvaluatorStep ==
  \/ SignalReceived \/ ReadDeadline \/ ArmTimer \/ TimerFires \/ EvaluatorStops

LEMMA LocalEvaluatorFrame ==
  ASSUME LocalEvaluatorStep
  PROVE  UNCHANGED <<clock, phase, bootNext, runnerVars, stateVars, snapshot, deadlineAt>>
BY DEF LocalEvaluatorStep, SignalReceived, ReadDeadline, ArmTimer, TimerFires, EvaluatorStops,
       unchangedByEvaluator, deadlineVars

LEMMA EvaluatorAtType ==
  ASSUME NEW pc \in {"off", "select", "read", "arm", "evaluate"}, NEW t \in Nat \cup {NoTime}
  PROVE  /\ EvaluatorAt(pc, t) \in [pc : {"off", "select", "read", "arm", "evaluate"},
                                    deadline : Nat \cup {NoTime}, timer : Nat \cup {NoTime}]
         /\ EvaluatorAt(pc, t).pc = pc /\ EvaluatorAt(pc, t).timer = t
BY DEF EvaluatorAt

LEMMA LocalEvaluatorType ==
  ASSUME TypeInv, LocalEvaluatorStep PROVE TypeInv'
<1> USE DEF TypeInv, TypeOK, CommitHolds, ArmHolds
<1>1. UNCHANGED <<clock, phase, bootNext, runnerVars, stateVars, snapshot, deadlineAt>>
  BY LocalEvaluatorFrame
<1>2. deadlineNew' \in BOOLEAN /\ deadlineSignal' \in BOOLEAN
  BY DEF LocalEvaluatorStep, SignalReceived, ReadDeadline, ArmTimer, TimerFires,
         EvaluatorStops, deadlineVars
<1> DEFINE E == [pc : {"off", "select", "read", "arm", "evaluate"},
                 deadline : Nat \cup {NoTime}, timer : Nat \cup {NoTime}]
<1>3. evaluator' \in E /\ ArmHolds'
  <2>1. CASE SignalReceived
    BY <2>1 DEF SignalReceived
  <2>2. CASE ReadDeadline
    <3>1. CASE ~deadlineNew
      BY <2>2, <3>1 DEF ReadDeadline
    <3>2. CASE deadlineNew /\ deadlineAt = NoTime
      <4>1. evaluator' = EvaluatorAt("select", NoTime)
        BY <2>2, <3>2 DEF ReadDeadline
      <4>2. QED BY <4>1, EvaluatorAtType
    <3>3. CASE deadlineNew /\ deadlineAt # NoTime
      <4>1. evaluator' = [EvaluatorAt("arm", NoTime) EXCEPT !.deadline = deadlineAt]
        BY <2>2, <3>3 DEF ReadDeadline
      <4>2. QED BY <3>3, <4>1, EvaluatorAtType
    <3>4. QED BY <3>1, <3>2, <3>3
  <2>3. CASE ArmTimer
    <3>1. /\ evaluator' = EvaluatorAt("select", Max({clock, evaluator.deadline}))
          /\ evaluator.deadline \in Nat
      BY <2>3 DEF ArmTimer
    <3>2. Max({clock, evaluator.deadline}) \in Nat
      BY <3>1, MaxOfTwo
    <3>3. QED BY <3>1, <3>2, EvaluatorAtType
  <2>4. CASE TimerFires
    BY <2>4, EvaluatorAtType DEF TimerFires
  <2>5. CASE EvaluatorStops
    BY <2>5, EvaluatorAtType DEF EvaluatorStops
  <2>6. QED BY <2>1, <2>2, <2>3, <2>4, <2>5 DEF LocalEvaluatorStep
<1>4. QED BY <1>1, <1>2, <1>3 DEF runnerVars, stateVars

LEMMA EvaluateStalenessType ==
  ASSUME TypeInv, EvaluateStaleness PROVE TypeInv'
<1> USE DEF TypeInv, TypeOK, CommitHolds, ArmHolds
<1>1. /\ UNCHANGED <<clock, phase, bootNext, runnerVars, contribution, loadedAt>>
      /\ excluded' \in [Source -> BOOLEAN]
  BY DEF EvaluateStaleness, unchangedByEvaluator
<1>2. ArmDeadline /\ (snapshot' = Composition(contribution', excluded') \/ snapshot' = snapshot)
  BY DEF EvaluateStaleness, Recompose
<1>3. /\ deadlineAt' \in Nat \cup {NoTime}
      /\ deadlineNew' \in BOOLEAN /\ deadlineSignal' \in BOOLEAN
  BY <1>1, <1>2, ArmDeadlineType
<1>4. snapshot' \in SUBSET (Digests \X Source)
  BY <1>2, CompositionType
<1>5. evaluator' = [evaluator EXCEPT !.pc = "select"]
  BY DEF EvaluateStaleness
<1>6. QED BY <1>1, <1>3, <1>4, <1>5 DEF runnerVars

\* Everything else: requests, the clock and the shutdown.
OtherStep ==
  \/ \E S \in SUBSET Declared : Kick(S)
  \/ Close \/ Joined \/ Tick

LEMMA OtherFrame ==
  ASSUME OtherStep
  PROVE  UNCHANGED <<bootNext, stateVars, snapshot, deadlineVars, evaluator, runner>>
BY DEF OtherStep, Kick, Close, Joined, Tick, runnerVars

LEMMA OtherType ==
  ASSUME TypeInv, OtherStep PROVE TypeInv'
<1> USE DEF TypeInv, TypeOK, CommitHolds, ArmHolds
<1>1. UNCHANGED <<bootNext, stateVars, snapshot, deadlineVars, evaluator, runner>>
  BY OtherFrame
<1>2. /\ clock' \in Nat
      /\ phase' \in {"boot", "serving", "closing", "closed", "failed"}
  BY DEF OtherStep, Kick, Close, Joined, Tick
<1>3. trigger' \in [Declared -> BOOLEAN]
  <2>1. ASSUME NEW S \in SUBSET Declared, Kick(S) PROVE trigger' \in [Declared -> BOOLEAN]
    <3>1. trigger' = [s \in Declared |-> trigger[s] \/ s \in S]
      BY <2>1 DEF Kick
    <3>2. QED BY <3>1
  <2>2. ASSUME Close \/ Joined \/ Tick PROVE trigger' = trigger
    BY <2>2 DEF Close, Joined, Tick, runnerVars
  <2>3. QED BY <2>1, <2>2 DEF OtherStep
<1>4. QED BY <1>1, <1>2, <1>3 DEF stateVars, deadlineVars

\* A step is one of these; stopping and stuttering change nothing.
LEMMA Steps ==
  ASSUME [Next]_vars
  PROVE  \/ BootLoad \/ Start
         \/ \E s \in Declared : CommitUpdate(s) \/ CommitConfirmation(s) \/ LocalRunnerStep(s)
         \/ LocalEvaluatorStep \/ EvaluateStaleness
         \/ OtherStep
         \/ UNCHANGED vars
<1>1. ASSUME NEW s \in Declared, WatcherNotifies(s) PROVE OtherStep
  BY <1>1 DEF WatcherNotifies, OtherStep
<1>2. ASSUME TriggerAll PROVE OtherStep
  BY <1>2 DEF TriggerAll, OtherStep
<1>3. QED
  BY <1>1, <1>2 DEF Next, Work, RunnerStep, EvaluatorStep, LocalRunnerStep,
                    LocalEvaluatorStep, OtherStep, Stopped

LEMMA TypeStep == ASSUME TypeInv, [Next]_vars PROVE TypeInv'
<1>1. ASSUME UNCHANGED vars PROVE TypeInv'
  BY <1>1 DEF TypeInv, TypeOK, CommitHolds, ArmHolds, vars, stateVars, deadlineVars, runnerVars
<1>2. QED
  BY <1>1, Steps, BootLoadType, StartType, CommitUpdateType, CommitConfirmationType,
     LocalRunnerType, LocalEvaluatorType, EvaluateStalenessType, OtherType

\* The inductive form, for the invariants that follow.
LEMMA TypeInvariant == Spec => []TypeInv
<1>1. TypeInv /\ [Next]_vars => TypeInv'
  BY TypeStep
<1>2. QED BY <1>1, TypeInit, PTL DEF Spec

\* Every variable keeps its type, whichever goroutine takes a step.
THEOREM TypeCorrect == Spec => []TypeOK
<1>1. TypeInv => TypeOK
  BY DEF TypeInv
<1>2. QED BY <1>1, TypeInvariant, PTL
-----------------------------------------------------------------------------
(* Safety.  Before the first snapshot nothing runs and nothing is out of   *)
(* service; afterwards the snapshot is the composition of the states.      *)

Lifecycle ==
  ~Serving =>
    /\ snapshot = {} /\ evaluator.pc = "off"
    /\ \A s \in Source : ~excluded[s]
    /\ \A s \in Declared : runner[s].pc = "off"

Composed == Serving => snapshot = Composition(contribution, excluded)

SafeInv == TypeInv /\ Lifecycle /\ Composed /\ FreshStaysInService

\* What each kind of step does to the source states and to the snapshot.
LEMMA CommitUpdateEffect ==
  ASSUME TypeInv, Lifecycle, NEW s \in Declared, CommitUpdate(s)
  PROVE  /\ Serving /\ Serving'
         /\ runner[s].result \in Contribution
         /\ contribution' = [contribution EXCEPT ![s] = runner[s].result]
         /\ loadedAt' = [loadedAt EXCEPT ![s] = runner[s].at]
         /\ excluded' = [excluded EXCEPT ![s] = FALSE]
         /\ snapshot' = Composition(contribution', excluded')
         /\ UNCHANGED <<clock, phase, evaluator>> /\ ArmDeadline
         /\ \A t \in Declared : t # s => runner'[t] = runner[t]
BY DEF CommitUpdate, Install, Recompose, Lifecycle, TypeInv, TypeOK, CommitHolds, Serving,
       unchangedByRunner, BackToSelect

LEMMA CommitConfirmationEffect ==
  ASSUME TypeInv, Lifecycle, Composed, NEW s \in Declared, CommitConfirmation(s)
  PROVE  /\ Serving /\ Serving'
         /\ contribution[s] # NoContribution /\ contribution' = contribution
         /\ loadedAt' = [loadedAt EXCEPT ![s] = runner[s].at]
         /\ excluded' = [excluded EXCEPT ![s] = FALSE]
         /\ snapshot' = Composition(contribution', excluded')
         /\ UNCHANGED <<clock, phase, evaluator>> /\ ArmDeadline
         /\ \A t \in Declared : t # s => runner'[t] = runner[t]
<1>1. /\ Touch(s, runner[s].at) /\ runner[s].pc = "commit"
      /\ UNCHANGED <<clock, phase, evaluator>> /\ BackToSelect(s)
  BY DEF CommitConfirmation, unchangedByRunner
<1>2. Serving /\ Serving'
  BY <1>1 DEF Lifecycle, Serving
<1>3. CASE excluded[s]
  BY <1>1, <1>2, <1>3 DEF Touch, Recompose, TypeInv, TypeOK, BackToSelect
<1>4. CASE ~excluded[s]
  <2>1. excluded' = excluded
    <3>1. excluded' = [excluded EXCEPT ![s] = FALSE]
      BY <1>1 DEF Touch
    <3>2. excluded[s] = FALSE
      BY <1>4, SourceFacts DEF TypeInv, TypeOK
    <3>3. QED BY <3>1, <3>2 DEF TypeInv, TypeOK
  <2>2. snapshot' = snapshot /\ contribution' = contribution
    BY <1>1, <1>4 DEF Touch
  <2>3. snapshot' = Composition(contribution', excluded')
    BY <2>1, <2>2, <1>2 DEF Composed
  <2>4. QED BY <1>1, <1>2, <1>4, <2>3 DEF Touch, TypeInv, TypeOK, BackToSelect
<1>5. QED BY <1>3, <1>4

LEMMA EvaluateStalenessEffect ==
  ASSUME TypeInv, Lifecycle, Composed, EvaluateStaleness
  PROVE  /\ Serving /\ Serving'
         /\ UNCHANGED <<clock, phase, runner, contribution, loadedAt>>
         /\ excluded' = [s \in Source |-> excluded[s] \/ s \in Overdue]
         /\ snapshot' = Composition(contribution', excluded')
         /\ ArmDeadline /\ evaluator' = [evaluator EXCEPT !.pc = "select"]
<1>1. /\ evaluator.pc = "evaluate" /\ UNCHANGED <<clock, phase, runner, contribution, loadedAt>>
      /\ excluded' = [s \in Source |-> excluded[s] \/ s \in Overdue]
      /\ ArmDeadline /\ evaluator' = [evaluator EXCEPT !.pc = "select"]
  BY DEF EvaluateStaleness, unchangedByEvaluator, runnerVars, Recompose
<1>2. Serving /\ Serving'
  BY <1>1 DEF Lifecycle, Serving
<1>3. CASE Overdue # {}
  BY <1>1, <1>2, <1>3 DEF EvaluateStaleness, Recompose
<1>4. CASE Overdue = {}
  <2>1. excluded' = excluded
    BY <1>1, <1>4 DEF TypeInv, TypeOK
  <2>2. snapshot' = snapshot
    BY <1>4 DEF EvaluateStaleness
  <2>3. QED BY <1>1, <1>2, <2>1, <2>2 DEF Composed
<1>5. QED BY <1>3, <1>4

LEMMA StartEffect ==
  ASSUME TypeInv, Lifecycle, Start
  PROVE  /\ ~Serving /\ Serving' /\ phase' = "serving"
         /\ UNCHANGED <<clock, contribution, loadedAt, excluded>>
         /\ snapshot' = Composition(contribution', excluded') /\ ArmDeadline
         /\ evaluator' = EvaluatorAt(IF MaxStaleness > 0 THEN "select" ELSE "off", NoTime)
BY DEF Start, Recompose, Serving, stateVars

LEMMA BootLoadEffect ==
  ASSUME BootLoad
  PROVE  /\ ~Serving /\ ~Serving'
         /\ UNCHANGED <<clock, snapshot, excluded, evaluator, runner>>
BY DEF BootLoad, BootInstalls, BootRejects, NextBootLoad, Serving, stateVars, runnerVars

\* The remaining steps change neither a source state nor the snapshot.
QuietStep ==
  \/ \E s \in Declared : LocalRunnerStep(s)
  \/ LocalEvaluatorStep \/ OtherStep \/ UNCHANGED vars

LEMMA QuietEffect ==
  ASSUME TypeInv, Lifecycle, QuietStep
  PROVE  /\ UNCHANGED <<contribution, loadedAt, excluded, snapshot>>
         /\ clock' \in Nat /\ clock' >= clock /\ Serving' = Serving
         /\ ~Serving => evaluator'.pc = "off" /\ \A s \in Declared : runner'[s].pc = "off"
<1>1. ASSUME NEW s \in Declared, LocalRunnerStep(s)
      PROVE  /\ UNCHANGED <<contribution, loadedAt, excluded, snapshot, clock, phase>>
             /\ Serving
  <2>1. UNCHANGED <<clock, phase, bootNext, stateVars, snapshot, deadlineVars, evaluator>>
    BY <1>1, LocalRunnerFrame
  <2>2. runner[s].pc # "off"
    BY <1>1 DEF LocalRunnerStep, PollFires, TriggerReceived, LoadFails, LoadReturns,
                CommitRefused, RunnerStops
  <2>3. QED BY <2>1, <2>2 DEF Lifecycle, stateVars
<1>2. ASSUME LocalEvaluatorStep
      PROVE  /\ UNCHANGED <<contribution, loadedAt, excluded, snapshot, clock, phase>>
             /\ Serving
  <2>1. UNCHANGED <<clock, phase, bootNext, runnerVars, stateVars, snapshot, deadlineAt>>
    BY <1>2, LocalEvaluatorFrame
  <2>2. evaluator.pc # "off"
    BY <1>2 DEF LocalEvaluatorStep, SignalReceived, ReadDeadline, ArmTimer, TimerFires,
                EvaluatorStops
  <2>3. QED BY <2>1, <2>2 DEF Lifecycle, stateVars
<1>3. ASSUME OtherStep
      PROVE  /\ UNCHANGED <<contribution, loadedAt, excluded, snapshot, evaluator, runner>>
             /\ clock' \in Nat /\ clock' >= clock /\ Serving' = Serving
  BY <1>3 DEF OtherStep, Kick, Close, Joined, Tick, stateVars, runnerVars, Serving,
              TypeInv, TypeOK
<1>4. clock \in Nat
  BY DEF TypeInv, TypeOK
<1>5. QED
  BY <1>1, <1>2, <1>3, <1>4 DEF QuietStep, vars, stateVars, runnerVars, Serving, Lifecycle

LEMMA StepKinds ==
  ASSUME [Next]_vars
  PROVE  \/ BootLoad \/ Start \/ EvaluateStaleness \/ QuietStep
         \/ \E s \in Declared : CommitUpdate(s) \/ CommitConfirmation(s)
BY Steps DEF QuietStep

LEMMA SafeInit == Init => SafeInv
BY TypeInit DEF Init, SafeInv, Lifecycle, Composed, FreshStaysInService, Serving, RunnerAt,
                EvaluatorAt

LEMMA FreshStep ==
  ASSUME SafeInv, [Next]_vars, TypeInv' PROVE FreshStaysInService'
<1> USE DEF SafeInv, FreshStaysInService
<1>1. CASE BootLoad \/ Start
  BY <1>1, BootLoadEffect, StartEffect DEF Lifecycle
<1>2. ASSUME NEW s \in Declared, CommitUpdate(s) PROVE FreshStaysInService'
  BY <1>2, CommitUpdateEffect DEF TypeInv, TypeOK
<1>3. ASSUME NEW s \in Declared, CommitConfirmation(s) PROVE FreshStaysInService'
  BY <1>3, CommitConfirmationEffect DEF TypeInv, TypeOK
<1>4. CASE EvaluateStaleness
  BY <1>4, EvaluateStalenessEffect DEF Overdue, Eligible
<1>5. CASE QuietStep
  <2>1. /\ UNCHANGED <<loadedAt, excluded>> /\ clock' \in Nat /\ clock' >= clock
        /\ clock \in Nat /\ \A s \in Source : loadedAt[s] \in Nat
    BY <1>5, QuietEffect DEF TypeInv, TypeOK
  <2>2. QED BY <2>1, DurationAssumption
<1>6. QED BY <1>1, <1>2, <1>3, <1>4, <1>5, StepKinds

LEMMA LifecycleStep ==
  ASSUME SafeInv, [Next]_vars PROVE Lifecycle' /\ Composed'
<1> USE DEF SafeInv
<1>1. CASE BootLoad
  BY <1>1, BootLoadEffect DEF Lifecycle, Composed
<1>2. CASE Start
  BY <1>2, StartEffect DEF Lifecycle, Composed
<1>3. ASSUME NEW s \in Declared, CommitUpdate(s) PROVE Lifecycle' /\ Composed'
  BY <1>3, CommitUpdateEffect DEF Lifecycle, Composed
<1>4. ASSUME NEW s \in Declared, CommitConfirmation(s) PROVE Lifecycle' /\ Composed'
  BY <1>4, CommitConfirmationEffect DEF Lifecycle, Composed
<1>5. CASE EvaluateStaleness
  BY <1>5, EvaluateStalenessEffect DEF Lifecycle, Composed
<1>6. CASE QuietStep
  BY <1>6, QuietEffect DEF Lifecycle, Composed
<1>7. QED BY <1>1, <1>2, <1>3, <1>4, <1>5, <1>6, StepKinds

LEMMA SafeStep == ASSUME SafeInv, [Next]_vars PROVE SafeInv'
BY TypeStep, FreshStep, LifecycleStep DEF SafeInv

LEMMA SafeInvariant == Spec => []SafeInv
<1>1. SafeInv /\ [Next]_vars => SafeInv'
  BY SafeStep
<1>2. QED BY <1>1, SafeInit, PTL DEF Spec

\* The published snapshot is what the source states say, always.
THEOREM SnapshotCorrect == Spec => []SnapshotIsComposition
<1>1. SafeInv => SnapshotIsComposition
  BY DEF SafeInv, Composed, SnapshotIsComposition, Serving
<1>2. QED BY <1>1, SafeInvariant, PTL

\* No evaluation, however late its timer, excludes a source that is fresh.
THEOREM FreshCorrect == Spec => []FreshStaysInService
<1>1. SafeInv => FreshStaysInService
  BY DEF SafeInv
<1>2. QED BY <1>1, SafeInvariant, PTL
-----------------------------------------------------------------------------
(* No wakeup is lost: a deadline the evaluator has not applied is announced *)
(* by a signal, and one it has applied is covered by its timer.             *)

\* The timer fires at time d or earlier, or at once.
Covers(d) == evaluator.timer # NoTime /\ (evaluator.timer <= d \/ evaluator.timer <= clock)

EvaluatorWatches ==
  phase = "serving" /\ MaxStaleness > 0 =>
    /\ deadlineAt = EarliestDeadline(contribution, loadedAt, excluded)
    /\ evaluator.pc # "off"
    /\ deadlineNew => deadlineSignal \/ evaluator.pc = "read"
    /\ ~deadlineNew /\ deadlineAt # NoTime =>
         \/ evaluator.pc = "evaluate"
         \/ evaluator.pc = "arm" /\ evaluator.deadline = deadlineAt
         \/ evaluator.pc \in {"select", "read"} /\ Covers(deadlineAt)
    /\ evaluator.pc = "arm" => evaluator.deadline \in Nat

\* Every transition of the source states announces the deadline it computed.
LEMMA ArmingWatches ==
  ASSUME ArmDeadline, phase' = "serving", MaxStaleness > 0, evaluator'.pc # "off",
         evaluator'.pc = "arm" => evaluator'.deadline \in Nat
  PROVE  EvaluatorWatches'
BY DurationAssumption DEF ArmDeadline, EvaluatorWatches

LEMMA WatchingStep ==
  ASSUME SafeInv, EvaluatorWatches, [Next]_vars PROVE EvaluatorWatches'
<1> SUFFICES ASSUME phase' = "serving", MaxStaleness > 0 PROVE EvaluatorWatches'
  BY DEF EvaluatorWatches
<1> USE DEF SafeInv
<1>1. CASE BootLoad
  BY <1>1, BootLoadEffect DEF Serving
<1>2. CASE Start
  BY <1>2, StartEffect, ArmingWatches DEF EvaluatorAt
<1>3. ASSUME NEW s \in Declared, CommitUpdate(s) \/ CommitConfirmation(s) PROVE EvaluatorWatches'
  <2>1. ArmDeadline /\ phase' = phase /\ evaluator' = evaluator
    BY <1>3, CommitUpdateEffect, CommitConfirmationEffect
  <2>2. QED BY <2>1, ArmingWatches DEF EvaluatorWatches
<1>4. CASE EvaluateStaleness
  <2>1. ArmDeadline /\ evaluator' = [evaluator EXCEPT !.pc = "select"]
    BY <1>4, EvaluateStalenessEffect
  <2>2. evaluator'.pc = "select"
    BY <2>1 DEF TypeInv, TypeOK
  <2>3. QED BY <2>1, <2>2, ArmingWatches
<1>5. CASE QuietStep
  <2>1. UNCHANGED <<contribution, loadedAt, excluded>> /\ clock' >= clock
        /\ clock \in Nat /\ clock' \in Nat
    BY <1>5, QuietEffect DEF TypeInv, TypeOK
  <2>2. ASSUME NEW s \in Declared, LocalRunnerStep(s) PROVE EvaluatorWatches'
    <3>1. UNCHANGED <<clock, phase, stateVars, deadlineVars, evaluator>>
      BY <2>2, LocalRunnerFrame
    <3>2. QED BY <3>1 DEF EvaluatorWatches, Covers, stateVars, deadlineVars
  <2>3. CASE LocalEvaluatorStep
    <3>1. UNCHANGED <<clock, phase, stateVars, deadlineAt>> /\ phase = "serving"
      BY <2>3, LocalEvaluatorFrame
    <3>2. CASE SignalReceived
      BY <3>1, <3>2 DEF SignalReceived, EvaluatorWatches, Covers, stateVars, TypeInv, TypeOK
    <3>3. CASE ReadDeadline
      <4>1. deadlineNew' = FALSE /\ deadlineAt \in Nat \cup {NoTime}
        BY <3>3 DEF ReadDeadline, TypeInv, TypeOK
      <4>2. CASE ~deadlineNew
        BY <3>1, <3>3, <4>1, <4>2
           DEF ReadDeadline, EvaluatorWatches, Covers, stateVars, TypeInv, TypeOK
      <4>3. CASE deadlineNew /\ deadlineAt = NoTime
        <5>1. evaluator' = EvaluatorAt("select", NoTime)
          BY <3>3, <4>3 DEF ReadDeadline
        <5>2. QED BY <3>1, <4>1, <4>3, <5>1, EvaluatorAtType DEF EvaluatorWatches, stateVars
      <4>4. CASE deadlineNew /\ deadlineAt # NoTime
        <5>1. evaluator' = [EvaluatorAt("arm", NoTime) EXCEPT !.deadline = deadlineAt]
          BY <3>3, <4>4 DEF ReadDeadline
        <5>2. evaluator'.pc = "arm" /\ evaluator'.deadline = deadlineAt
          BY <5>1 DEF EvaluatorAt
        <5>3. QED BY <3>1, <4>1, <4>4, <5>2 DEF EvaluatorWatches, stateVars
      <4>5. QED BY <4>2, <4>3, <4>4
    <3>4. CASE ArmTimer
      <4>1. /\ evaluator' = EvaluatorAt("select", Max({clock, evaluator.deadline}))
            /\ evaluator.pc = "arm" /\ evaluator.deadline \in Nat
            /\ UNCHANGED <<deadlineNew, deadlineSignal>>
        BY <3>4 DEF ArmTimer, deadlineVars, TypeInv, ArmHolds
      <4>2. /\ Max({clock, evaluator.deadline}) \in Nat
            /\ \/ Max({clock, evaluator.deadline}) = clock
               \/ Max({clock, evaluator.deadline}) = evaluator.deadline
        BY <2>1, <4>1, MaxOfTwo
      <4>3. evaluator'.pc = "select" /\ evaluator'.timer = Max({clock, evaluator.deadline})
        BY <4>1 DEF EvaluatorAt
      <4>4. QED
        BY <2>1, <3>1, <4>1, <4>2, <4>3 DEF EvaluatorWatches, Covers, stateVars, NoTime
    <3>5. CASE TimerFires
      BY <3>1, <3>5, EvaluatorAtType DEF TimerFires, EvaluatorWatches, stateVars, deadlineVars
    <3>6. CASE EvaluatorStops
      BY <3>1, <3>6 DEF EvaluatorStops
    <3>7. QED BY <2>3, <3>2, <3>3, <3>4, <3>5, <3>6 DEF LocalEvaluatorStep
  <2>4. CASE OtherStep
    <3>1. UNCHANGED <<stateVars, deadlineVars, evaluator>>
      BY <2>4, OtherFrame
    <3>2. phase = "serving"
      BY <2>4 DEF OtherStep, Kick, Close, Joined, Tick
    <3>3. evaluator.timer \in Nat \cup {NoTime}
      BY DEF TypeInv, TypeOK
    <3>4. QED BY <2>1, <3>1, <3>2, <3>3 DEF EvaluatorWatches, Covers, stateVars, deadlineVars, NoTime
  <2>5. CASE UNCHANGED vars
    BY <2>5 DEF vars, stateVars, deadlineVars, EvaluatorWatches, Covers
  <2>6. QED BY <1>5, <2>2, <2>3, <2>4, <2>5 DEF QuietStep
<1>6. QED BY <1>1, <1>2, <1>3, <1>4, <1>5, StepKinds

LEMMA WatchingInvariant == Spec => []EvaluatorWatches
<1>1. Init => EvaluatorWatches
  BY DEF Init, EvaluatorWatches
<1>2. SafeInv /\ EvaluatorWatches /\ [Next]_vars => EvaluatorWatches'
  BY WatchingStep
<1>3. QED BY <1>1, <1>2, SafeInvariant, PTL DEF Spec

\* While a source has a deadline the evaluator is on its way to it.
LEMMA WatchingSuffices == SafeInv /\ EvaluatorWatches => DeadlineIsWatched
<1> SUFFICES ASSUME SafeInv, EvaluatorWatches, phase = "serving", MaxStaleness > 0,
                    NEW s \in Eligible(contribution, excluded)
             PROVE  LET deadline == loadedAt[s] + MaxStaleness IN
                      \/ deadlineSignal
                      \/ evaluator.pc \in {"read", "evaluate"}
                      \/ evaluator.pc = "arm" /\ evaluator.deadline <= deadline
                      \/ /\ evaluator.pc = "select" /\ evaluator.timer # NoTime
                         /\ evaluator.timer <= deadline \/ evaluator.timer <= clock
  BY DEF DeadlineIsWatched
<1>1. loadedAt \in [Source -> Nat] /\ evaluator.timer \in Nat \cup {NoTime} /\ clock \in Nat
  BY DEF SafeInv, TypeInv, TypeOK
<1>2. deadlineAt \in Nat /\ deadlineAt <= loadedAt[s] + MaxStaleness
  BY <1>1, EarliestDeadlineIsFirst DEF EvaluatorWatches
<1>3. loadedAt[s] \in Nat /\ MaxStaleness \in Nat
  BY <1>1, DurationAssumption, SourceFacts DEF Eligible
<1>4. deadlineAt # NoTime
  BY <1>2 DEF NoTime
<1>5. QED BY <1>1, <1>2, <1>3, <1>4 DEF EvaluatorWatches, Covers, NoTime

\* No wakeup of the evaluator is lost, however its steps and the runners' interleave.
THEOREM DeadlineWatched == Spec => []DeadlineIsWatched
<1> QED BY WatchingSuffices, WatchingInvariant, SafeInvariant, PTL
-----------------------------------------------------------------------------
(* A credential is never handed to another source behind its owner's back. *)

\* Once loaded, a source has a contribution for good.
LEMMA ContributionStays ==
  ASSUME SafeInv, [Next]_vars, Serving, NEW s \in Source, contribution[s] # NoContribution
  PROVE  contribution'[s] # NoContribution
<1> USE DEF SafeInv
<1>1. CASE BootLoad \/ Start
  BY <1>1, BootLoadEffect, StartEffect
<1>2. ASSUME NEW t \in Declared, CommitUpdate(t) PROVE contribution'[s] # NoContribution
  BY <1>2, CommitUpdateEffect, OutcomeAssumption DEF TypeInv, TypeOK, Contribution
<1>3. ASSUME NEW t \in Declared, CommitConfirmation(t) PROVE contribution'[s] # NoContribution
  BY <1>3, CommitConfirmationEffect
<1>4. CASE EvaluateStaleness \/ QuietStep
  BY <1>4, EvaluateStalenessEffect, QuietEffect
<1>5. QED BY <1>1, <1>2, <1>3, <1>4, StepKinds

\* Two snapshots, before and after a step that keeps every source loaded.
Fair(d, s, t) ==
  <<d, s>> \in snapshot /\ <<d, t>> \in snapshot' /\ s # t =>
    t < s \/ d \notin contribution'[s]

LEMMA FairStep ==
  ASSUME SafeInv, SafeInv', NEW d \in Digests, NEW s \in Source, NEW t \in Source,
         Serving /\ contribution[s] # NoContribution => contribution'[s] # NoContribution
  PROVE  Fair(d, s, t)
<1> SUFFICES ASSUME <<d, s>> \in snapshot, <<d, t>> \in snapshot', s # t, ~(t < s)
             PROVE  d \notin contribution'[s]
  BY DEF Fair
<1>1. Serving /\ snapshot = Composition(contribution, excluded)
  BY DEF SafeInv, Lifecycle, Composed
<1>2. Serving' /\ snapshot' = Composition(contribution', excluded')
  BY DEF SafeInv, Lifecycle, Composed
<1>3. contribution[s] # NoContribution /\ contribution'[s] # NoContribution
  BY <1>1 DEF Composition, Wins
<1>4. s < t
  BY SourceFacts
<1>5. QED BY <1>2, <1>3, <1>4 DEF Composition, Wins

\* A digest changes hands only when its source stopped claiming it or an
\* earlier source claims it.
THEOREM Reassignment == Spec => NoSilentReassignment
<1>1. SafeInv /\ SafeInv' /\ [Next]_vars =>
        [\A d \in Digests : \A s, t \in Source : Fair(d, s, t)]_vars
  BY ContributionStays, FairStep
<1>2. QED BY <1>1, SafeInvariant, PTL DEF Spec, NoSilentReassignment, Fair
-----------------------------------------------------------------------------
(* The store implements the abstract union. *)

Claims == [s \in Source |-> IF Serving THEN Claimed(s) ELSE {}]
Gone == {s \in Source : excluded[s]}

\* What the sources in service are first to claim is the composition.
LEMMA CompositionIsUnion ==
  ASSUME TypeOK, Serving
  PROVE  Composition(contribution, excluded) =
           UNION {Union!Share(Claims, s) : s \in Source \ Gone}
<1>1. ASSUME NEW d \in Digests, NEW s \in Source
      PROVE  Wins(contribution, s, d) <=> Union!First(Claims, d, s)
  BY DEF Wins, Union!First, Union!Source, Claims, Claimed, Source
<1>2. ASSUME NEW p \in Composition(contribution, excluded)
      PROVE  p \in UNION {Union!Share(Claims, s) : s \in Source \ Gone}
  <2>1. p[1] \in Digests /\ p[2] \in Source /\ p = <<p[1], p[2]>>
        /\ Wins(contribution, p[2], p[1]) /\ ~excluded[p[2]]
    BY DEF Composition
  <2>2. p \in Union!Share(Claims, p[2])
    BY <1>1, <2>1 DEF Union!Share
  <2>3. p[2] \in Source \ Gone
    BY <2>1 DEF Gone
  <2>4. QED BY <2>2, <2>3
<1>3. ASSUME NEW s \in Source \ Gone, NEW p \in Union!Share(Claims, s)
      PROVE  p \in Composition(contribution, excluded)
  BY <1>1 DEF Union!Share, Composition, Gone
<1>4. QED BY <1>2, <1>3

LEMMA ClaimsType ==
  ASSUME TypeOK PROVE Claims \in [Source -> SUBSET Digests]
BY DEF Claims, Claimed, TypeOK, Contribution

\* Steps that leave the states, the snapshot and the phase group alone.
LEMMA QuietStutters ==
  ASSUME UNCHANGED <<contribution, excluded, snapshot>>, Serving' = Serving
  PROVE  UNCHANGED <<Serving, Claims, Gone, snapshot>>
BY DEF Claims, Claimed, Gone

LEMMA UnionInit == Init => Union!UInit
BY LastAssumption DEF Init, Union!UInit, Union!Source, Source, Serving, Claimed

LEMMA UnionStart ==
  ASSUME SafeInv, TypeInv', Start PROVE Union!Open
<1>1. /\ ~Serving /\ Serving' /\ excluded' = excluded
      /\ snapshot' = Composition(contribution', excluded')
  BY StartEffect DEF SafeInv
<1>2. TypeOK' /\ \A s \in Source : ~excluded[s]
  BY <1>1 DEF SafeInv, TypeInv, Lifecycle
<1>3. snapshot' = UNION {Union!Share(Claims', s) : s \in Source \ Gone'}
  <2>1. (TypeOK /\ Serving =>
           Composition(contribution, excluded) =
             UNION {Union!Share(Claims, s) : s \in Source \ Gone})'
    BY CompositionIsUnion, PTL
  <2>2. QED BY <1>1, <1>2, <2>1
<1>4. Gone' = {} /\ Gone = {} /\ Source \ Gone' = Source
  BY <1>1, <1>2 DEF Gone
<1>5. Claims' \in [Source -> SUBSET Digests]
  <2>1. (TypeOK => Claims \in [Source -> SUBSET Digests])'
    BY ClaimsType, PTL
  <2>2. QED BY <1>2, <2>1
<1>6. QED BY <1>1, <1>3, <1>4, <1>5 DEF Union!Open, Union!Source, Source, Claims, Gone

\* After a step into service, the snapshot is the union of what is claimed.
LEMMA UnionAfter ==
  ASSUME TypeInv', Serving', snapshot' = Composition(contribution', excluded')
  PROVE  snapshot' = UNION {Union!Share(Claims', s) : s \in Source \ Gone'}
<1>1. (TypeOK /\ Serving =>
         Composition(contribution, excluded) =
           UNION {Union!Share(Claims, s) : s \in Source \ Gone})'
  BY CompositionIsUnion, PTL
<1>2. TypeOK'
  BY DEF TypeInv
<1>3. QED BY <1>1, <1>2

LEMMA UnionAccept ==
  ASSUME SafeInv, TypeInv', NEW s \in Declared, CommitUpdate(s) PROVE Union!Accept(s)
<1> DEFINE c == runner[s].result
<1>1. /\ Serving /\ Serving' /\ c \in Contribution
      /\ contribution' = [contribution EXCEPT ![s] = c]
      /\ excluded' = [excluded EXCEPT ![s] = FALSE]
      /\ snapshot' = Composition(contribution', excluded')
  BY CommitUpdateEffect DEF SafeInv
<1>2. c \in SUBSET Digests /\ c # NoContribution
  BY <1>1, OutcomeAssumption DEF Contribution
<1>3. /\ contribution \in [Source -> Contribution \cup {NoContribution}]
      /\ excluded \in [Source -> BOOLEAN] /\ s \in Source
  BY SourceFacts DEF SafeInv, TypeInv, TypeOK
<1>4. Claims' = [Claims EXCEPT ![s] = c]
  BY <1>1, <1>2, <1>3 DEF Claims, Claimed
<1>5. Gone' = Gone \ {s}
  BY <1>1, <1>3 DEF Gone
<1>6. snapshot' = UNION {Union!Share(Claims', t) : t \in Source \ Gone'}
  BY <1>1, UnionAfter
<1>7. QED BY <1>1, <1>2, <1>4, <1>5, <1>6 DEF Union!Accept, Union!Source, Source, Claims, Gone

\* A confirmation gives back what the source was first to claim, if it was out
\* of service, and changes nothing otherwise.
LEMMA UnionReinstate ==
  ASSUME SafeInv, TypeInv', NEW s \in Declared, CommitConfirmation(s)
  PROVE  Union!Reinstate(s) \/ UNCHANGED Union!uvars
<1>1. /\ Serving /\ Serving' /\ contribution' = contribution
      /\ excluded' = [excluded EXCEPT ![s] = FALSE]
      /\ snapshot' = Composition(contribution', excluded')
      /\ snapshot = Composition(contribution, excluded)
  BY CommitConfirmationEffect DEF SafeInv, Composed
<1>2. excluded \in [Source -> BOOLEAN] /\ s \in Source /\ TypeOK
  BY SourceFacts DEF SafeInv, TypeInv, TypeOK
<1>3. Claims' = Claims /\ Gone' = Gone \ {s}
  BY <1>1, <1>2 DEF Claims, Claimed, Gone
<1>4. CASE excluded[s]
  <2>1. s \in Gone
    BY <1>2, <1>4 DEF Gone
  <2>2. snapshot' = UNION {Union!Share(Claims', t) : t \in Source \ Gone'}
    BY <1>1, UnionAfter
  <2>3. snapshot = UNION {Union!Share(Claims, t) : t \in Source \ Gone}
    BY <1>1, <1>2, CompositionIsUnion
  <2>4. Source \ Gone' = (Source \ Gone) \cup {s}
    BY <1>2, <1>3, <2>1
  <2>5. snapshot' = snapshot \cup Union!Share(Claims, s)
    BY <1>3, <2>2, <2>3, <2>4
  <2>6. QED
    BY <1>1, <1>3, <2>1, <2>5 DEF Union!Reinstate, Union!Source, Source, Claims, Gone
<1>5. CASE ~excluded[s]
  <2>1. excluded' = excluded
    BY <1>1, <1>2, <1>5
  <2>2. UNCHANGED <<Serving, Claims, Gone, snapshot>>
    BY <1>1, <2>1 DEF Claims, Claimed, Gone
  <2>3. QED BY <2>2 DEF Union!uvars, Claims, Gone
<1>6. QED BY <1>4, <1>5

\* An evaluation takes away exactly what the overdue sources served.
LEMMA UnionExclude ==
  ASSUME SafeInv, TypeInv', EvaluateStaleness
  PROVE  \E S \in SUBSET (1 .. Last) : Union!Exclude(S)
<1>1. /\ Serving /\ Serving' /\ contribution' = contribution
      /\ excluded' = [s \in Source |-> excluded[s] \/ s \in Overdue]
      /\ snapshot' = Composition(contribution', excluded')
      /\ snapshot = Composition(contribution, excluded)
  BY EvaluateStalenessEffect DEF SafeInv, Composed
<1>2. Overdue \in SUBSET (1 .. Last) /\ Overdue \cap Gone = {} /\ Overdue \subseteq Source
  BY SourceFacts DEF Overdue, Eligible, Declared, Gone
<1>3. Claims' = Claims
  BY <1>1 DEF Claims, Claimed
<1>4. Gone' = Gone \cup Overdue
  BY <1>1, <1>2 DEF Gone
<1>5. snapshot' = {p \in snapshot : p[2] \notin Overdue}
  BY <1>1, <1>2 DEF Composition
<1>6. QED
  BY <1>1, <1>2, <1>3, <1>4, <1>5 DEF Union!Exclude, Union!Source, Source, Claims, Gone

LEMMA UnionStep ==
  ASSUME SafeInv, TypeInv', [Next]_vars PROVE [Union!UNext]_(Union!uvars)
<1> USE DEF SafeInv
<1>1. CASE BootLoad
  <2>1. /\ ~Serving /\ ~Serving' /\ snapshot' = snapshot /\ excluded' = excluded
    BY <1>1, BootLoadEffect
  <2>2. UNCHANGED <<Serving, Claims, Gone, snapshot>>
    BY <2>1 DEF Claims, Gone, Serving
  <2>3. QED BY <2>2 DEF Union!uvars, Claims, Gone
<1>2. CASE Start
  BY <1>2, UnionStart DEF Union!UNext
<1>3. ASSUME NEW s \in Declared, CommitUpdate(s) PROVE Union!UNext
  BY <1>3, UnionAccept, SourceFacts DEF Union!UNext, Union!Source, Source
<1>4. ASSUME NEW s \in Declared, CommitConfirmation(s)
      PROVE  [Union!UNext]_(Union!uvars)
  BY <1>4, UnionReinstate, SourceFacts DEF Union!UNext, Union!Source, Source
<1>5. CASE EvaluateStaleness
  BY <1>5, UnionExclude DEF Union!UNext
<1>6. CASE QuietStep
  <2>1. UNCHANGED <<Serving, Claims, Gone, snapshot>>
    BY <1>6, QuietEffect, QuietStutters
  <2>2. QED BY <2>1 DEF Union!uvars, Claims, Gone
<1>7. QED BY <1>1, <1>2, <1>3, <1>4, <1>5, <1>6, StepKinds

\* The store keeps the promise the data plane relies on.
THEOREM StoreImplementsUnion == Spec => ImplementsUnion
<1>1. SafeInv /\ TypeInv' /\ [Next]_vars => [Union!UNext]_(Union!uvars)
  BY UnionStep
<1>2. QED
  BY <1>1, UnionInit, SafeInvariant, TypeInvariant, PTL
     DEF Spec, ImplementsUnion, Union!USpec
=============================================================================
