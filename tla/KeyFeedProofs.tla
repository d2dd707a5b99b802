--------------------------- MODULE KeyFeedProofs ----------------------------
(***************************************************************************)
(* What holds between the key store and its sources for any number of      *)
(* sources, any documents and any durations, and that the store keeps with *)
(* them the guarantees it has alone.  The theorems of KeyStoreProofs are   *)
(* about a clock that only goes forward; here the origin of time moves.    *)
(***************************************************************************)
EXTENDS KeyFeed, KeyStoreProofs

Document == Contribution \cup {Failed}

FeedTypes ==
  /\ clock \in Int
  /\ contribution \in [Source -> Contribution \cup {NoContribution}]
  /\ runner \in [Declared -> [pc : {"off", "select", "loading", "commit"},
                              timer : Int, at : Int,
                              result : Contribution \cup {Failed, Unchanged}]]
  /\ \A s \in Declared : runner[s].pc = "commit" => runner[s].result # Failed
  /\ trigger \in [Declared -> BOOLEAN]
  /\ files \in SUBSET Declared
  /\ document \in [Declared -> Document]
  /\ etag \in [Declared -> Document]
  /\ seen \in [Declared -> Document]
  /\ event \in [Declared -> BOOLEAN]
  /\ watch \in [Declared -> {"off", "idle", "debouncing"}]

\* No goroutine runs before every source has been loaded once.
NothingRunsYet ==
  phase = "boot" => \A s \in Declared : runner[s].pc = "off" /\ watch[s] = "off"

\* What s holds, or is about to: a load that returned a document has replaced
\* the ETag before its commit has the lock.
Resident(s) ==
  IF runner[s].pc = "commit" /\ runner[s].result # Unchanged THEN runner[s].result
  ELSE contribution[s]

\* What was read, and the ETag a 304 would confirm, both stand for that.
StandsForResident ==
  \A s \in Declared :
    /\ seen[s] # Failed => seen[s] = Resident(s)
    /\ etag[s] # Failed => etag[s] = Resident(s) /\ s \notin files

\* NoChangeIsLost in every phase.  The directory is watched before the
\* goroutine runs: a change made during boot is an event, which keeps.
ChangeIsOnItsWay ==
  \A s \in files :
    (phase = "boot" \/ Watching(s)) /\ seen[s] \notin {document[s], Failed} =>
      event[s] \/ watch[s] = "debouncing" \/ trigger[s] \/ runner[s].pc = "loading"

FeedInv == FeedTypes /\ NothingRunsYet /\ StandsForResident /\ ChangeIsOnItsWay
-----------------------------------------------------------------------------
LEMMA Facts ==
  /\ Declared \subseteq Source /\ 0 \notin Declared
  /\ \A s \in Source : Publishes[s] \subseteq Contribution
  /\ \A c \in Contribution : c # Failed /\ c # Unchanged
  /\ Failed # Unchanged
  /\ \A s \in Declared : PollInterval[s] \in Int
BY LastAssumption, PublishesAssumption, OutcomeAssumption, DurationAssumption
   DEF Source, Declared, Contribution

LEMMA FeedInit == FInit => FeedInv
<1> SUFFICES ASSUME FInit PROVE FeedInv
  OBVIOUS
<1> USE Facts DEF FInit, Init
<1>1. document \in [Declared -> Document]
  BY DEF Document
<1>2. FeedTypes
  BY <1>1 DEF FeedTypes, RunnerAt, NoTime, Document
<1>3. NothingRunsYet
  BY DEF NothingRunsYet, RunnerAt
<1>4. StandsForResident
  BY DEF StandsForResident
<1>5. ChangeIsOnItsWay
  BY DEF ChangeIsOnItsWay
<1>6. QED BY <1>2, <1>3, <1>4, <1>5 DEF FeedInv

\* A step that leaves alone what FeedInv speaks of, up to the times a runner
\* keeps: the evaluator, Close, the end of a watcher, a step of the clock.
SameRunners ==
  /\ runner' \in [Declared -> [pc : {"off", "select", "loading", "commit"},
                               timer : Int, at : Int,
                               result : Contribution \cup {Failed, Unchanged}]]
  /\ \A s \in Declared : runner'[s].pc = runner[s].pc /\ runner'[s].result = runner[s].result

Quiet ==
  /\ clock' \in Int /\ SameRunners
  /\ phase' = phase \/ phase' # "boot"
  /\ trigger' \in [Declared -> BOOLEAN] /\ \A s \in Declared : trigger[s] => trigger'[s]
  /\ UNCHANGED <<contribution, feedVars>>

LEMMA QuietInv == FeedInv /\ Quiet => FeedInv'
<1> SUFFICES ASSUME FeedInv, Quiet PROVE FeedInv'
  OBVIOUS
<1> USE DEF FeedInv, Quiet, SameRunners, feedVars
<1>1. FeedTypes'
  BY DEF FeedTypes
<1>2. NothingRunsYet'
  BY DEF NothingRunsYet
<1>3. StandsForResident'
  BY DEF StandsForResident, Resident
<1>4. ChangeIsOnItsWay'
  BY DEF ChangeIsOnItsWay, Watching, FeedTypes
<1>5. QED BY <1>1, <1>2, <1>3, <1>4

LEMMA StutterInv == FeedInv /\ UNCHANGED fvars => FeedInv'
BY QuietInv DEF fvars, vars, stateVars, runnerVars, Quiet, SameRunners, FeedInv, FeedTypes

LEMMA SlidesQuiet == FeedInv /\ Slides /\ UNCHANGED feedVars => Quiet
<1> SUFFICES ASSUME FeedInv, Slides, UNCHANGED feedVars PROVE Quiet
  OBVIOUS
<1>1. \A t \in Int : Older(t) \in Int /\ Nearer(t) \in Int
  BY DEF Older, Nearer, FeedInv, FeedTypes
<1>2. SameRunners
  <2> DEFINE after(s) == [runner[s] EXCEPT !.timer = Nearer(@), !.at = Older(@)]
  <2>1. runner' = [s \in Declared |-> after(s)]
    BY DEF Slides
  <2>2. ASSUME NEW s \in Declared
        PROVE  /\ after(s) \in [pc : {"off", "select", "loading", "commit"},
                                timer : Int, at : Int,
                                result : Contribution \cup {Failed, Unchanged}]
               /\ after(s).pc = runner[s].pc /\ after(s).result = runner[s].result
    <3>1. runner[s] \in [pc : {"off", "select", "loading", "commit"},
                        timer : Int, at : Int,
                        result : Contribution \cup {Failed, Unchanged}]
      BY DEF FeedInv, FeedTypes
    <3>2. Nearer(runner[s].timer) \in Int /\ Older(runner[s].at) \in Int
      BY <1>1, <3>1
    <3>. QED  BY <3>1, <3>2
  <2> HIDE DEF after
  <2>. QED  BY <2>1, <2>2 DEF SameRunners
<1>3. QED BY <1>2 DEF Slides, Quiet, feedVars, FeedInv, FeedTypes

\* The steps of FNext in which nothing is loaded, changed or noticed.
Apart ==
  \/ FeedJoined \/ Passes
  \/ (TriggerAll \/ EvaluatorStep \/ Close \/ Stopped) /\ UNCHANGED feedVars

LEMMA ApartQuiet == FeedInv /\ Apart => Quiet
<1> SUFFICES ASSUME FeedInv, Apart PROVE Quiet
  OBVIOUS
<1> USE DEF Quiet, SameRunners, FeedInv, FeedTypes
<1>1. FeedJoined => Quiet
  BY DEF FeedJoined, Joined, runnerVars, stateVars
<1>2. CASE Passes
  <2>1. CASE Tick
    BY <1>2, <2>1 DEF Passes, Tick, runnerVars, stateVars
  <2>2. QED BY <1>2, <2>1, SlidesQuiet DEF Passes
<1>3. TriggerAll /\ UNCHANGED feedVars => Quiet
  BY DEF TriggerAll, Kick, stateVars
<1>4. EvaluatorStep /\ UNCHANGED feedVars => Quiet
  BY DEF EvaluatorStep, SignalReceived, ReadDeadline, ArmTimer, TimerFires, EvaluateStaleness,
         EvaluatorStops, unchangedByEvaluator, runnerVars, stateVars
<1>5. (Close \/ Stopped) /\ UNCHANGED feedVars => Quiet
  BY DEF Close, Stopped, vars, runnerVars, stateVars
<1>6. QED BY <1>1, <1>2, <1>3, <1>4, <1>5 DEF Apart
-----------------------------------------------------------------------------
(* Boot *)

\* A boot load runs nothing, and changes no source but the one it loads.
LEMMA FeedBootLoadEffect ==
  FeedInv /\ BootLoad =>
    /\ UNCHANGED <<clock, runner, trigger>> /\ phase = "boot"
    /\ \/ UNCHANGED contribution
       \/ \E c \in Publishes[bootNext] :
            contribution' = [contribution EXCEPT ![bootNext] = c] /\ phase' = "boot"
    /\ bootNext \in Source
BY DEF BootLoad, BootInstalls, BootRejects, NextBootLoad, stateVars, runnerVars

LEMMA FeedBootsInv == FeedInv /\ FeedBoots => FeedInv'
<1> SUFFICES ASSUME FeedInv, FeedBoots PROVE FeedInv'
  OBVIOUS
<1> DEFINE s == bootNext
<1> USE DEF FeedInv
<1>1. BootLoad
  BY DEF FeedBoots
<1>2. /\ UNCHANGED <<clock, runner, trigger>> /\ phase = "boot" /\ s \in Source
      /\ \/ UNCHANGED contribution
         \/ \E c \in Publishes[s] : contribution' = [contribution EXCEPT ![s] = c]
  BY <1>1, FeedBootLoadEffect
<1>3. \A t \in Declared : runner[t].pc = "off" /\ watch[t] = "off"
  BY <1>2 DEF NothingRunsYet
<1>4. contribution' \in [Source -> Contribution \cup {NoContribution}]
  BY <1>2, Facts DEF FeedTypes
<1>5. CASE s = 0
  <2>1. UNCHANGED feedVars
    BY <1>5 DEF FeedBoots
  <2>2. \A t \in Declared : contribution'[t] = contribution[t]
    BY <1>2, <1>5, Facts DEF FeedTypes
  <2>3. FeedTypes'
    BY <1>2, <1>4, <2>1 DEF FeedTypes, feedVars
  <2>4. NothingRunsYet'
    BY <1>2, <1>3, <2>1 DEF NothingRunsYet, feedVars
  <2>5. StandsForResident'
    BY <1>2, <2>1, <2>2 DEF StandsForResident, Resident, feedVars
  <2>6. ChangeIsOnItsWay'
    BY <1>2, <1>3, <2>1 DEF ChangeIsOnItsWay, Watching, feedVars, FeedTypes
  <2>7. QED BY <2>3, <2>4, <2>5, <2>6
<1>6. CASE s # 0
  <2>1. s \in Declared
    BY <1>2, <1>6, LastAssumption DEF Source, Declared
  <2>2. /\ UNCHANGED <<files, document, event, watch>>
        /\ \/ /\ contribution'[s] = document[s] /\ contribution'[s] \in Contribution
              /\ Revalidates(s) /\ seen' = [seen EXCEPT ![s] = document[s]]
           \/ UNCHANGED <<contribution, etag>> /\ seen' = [seen EXCEPT ![s] = Failed]
    <3>1. CASE UNCHANGED contribution
      BY <1>6, <3>1 DEF FeedBoots, NotLoaded, Reads
    <3>2. CASE ~UNCHANGED contribution
      <4>1. Decoded(s, contribution'[s]) /\ Reads(s, document[s])
        BY <1>6, <3>2 DEF FeedBoots
      <4>2. contribution'[s] \in Contribution
        BY <1>2, <3>2, Facts DEF FeedTypes
      <4>3. QED BY <4>1, <4>2 DEF Decoded, Reads
    <3>3. QED BY <3>1, <3>2
  <2>3. \A t \in Declared : t # s => contribution'[t] = contribution[t]
    BY <1>2, Facts DEF FeedTypes
  <2>4. /\ etag' \in [Declared -> Document]
        /\ \A t \in Declared : t # s => etag'[t] = etag[t]
        /\ s \in files => UNCHANGED etag
        /\ etag'[s] # Failed /\ s \notin files => etag'[s] = contribution'[s]
    <3>1. CASE UNCHANGED <<contribution, etag>>
      BY <2>1, <3>1, <1>3 DEF FeedTypes, StandsForResident, Resident
    <3>2. CASE contribution'[s] = document[s] /\ Revalidates(s)
      BY <2>1, <3>2 DEF FeedTypes, Revalidates, Document
    <3>3. QED BY <2>2, <3>1, <3>2
  <2>5. FeedTypes'
    BY <1>2, <1>4, <2>1, <2>2, <2>4 DEF FeedTypes, Document
  <2>6. NothingRunsYet'
    BY <1>2, <1>3, <2>2 DEF NothingRunsYet
  <2>7. StandsForResident'
    <3>1. \A t \in Declared : t # s => seen'[t] = seen[t] /\ etag'[t] = etag[t]
      BY <2>2, <2>4 DEF FeedTypes
    <3>2. seen'[s] # Failed => seen'[s] = contribution'[s]
      BY <2>1, <2>2 DEF FeedTypes
    <3>3. etag'[s] # Failed => etag'[s] = contribution'[s] /\ s \notin files
      BY <2>1, <2>4 DEF StandsForResident
    <3>4. QED BY <1>2, <1>3, <2>2, <2>3, <3>1, <3>2, <3>3 DEF StandsForResident, Resident
  <2>8. ChangeIsOnItsWay'
    BY <1>2, <1>3, <2>1, <2>2 DEF ChangeIsOnItsWay, Watching, FeedTypes
  <2>9. QED BY <2>5, <2>6, <2>7, <2>8
<1>7. QED BY <1>5, <1>6

\* A change made while the sources were loaded is an event that the goroutine
\* launched here still finds.
LEMMA FeedStartsInv == FeedInv /\ FeedStarts => FeedInv'
<1> SUFFICES ASSUME FeedInv, FeedStarts PROVE FeedInv'
  OBVIOUS
<1> USE DEF FeedInv
<1>1. /\ UNCHANGED <<clock, contribution, trigger, files, document, etag, event, seen>>
      /\ phase = "boot" /\ phase' = "serving"
      /\ runner' = [s \in Declared |-> RunnerAt("select", clock + PollInterval[s])]
      /\ watch' = [s \in Declared |-> IF s \in files THEN "idle" ELSE "off"]
  BY DEF FeedStarts, Start, stateVars
<1>2. \A s \in Declared : runner[s].pc = "off" /\ watch[s] = "off"
  BY <1>1 DEF NothingRunsYet
<1>3. FeedTypes'
  BY <1>1, Facts DEF FeedTypes, RunnerAt, NoTime
<1>4. NothingRunsYet'
  BY <1>1 DEF NothingRunsYet
<1>5. StandsForResident'
  BY <1>1, <1>2 DEF StandsForResident, Resident, RunnerAt
<1>6. ChangeIsOnItsWay'
  BY <1>1, <1>2 DEF ChangeIsOnItsWay, Watching, RunnerAt, FeedTypes
<1>7. QED BY <1>3, <1>4, <1>5, <1>6
-----------------------------------------------------------------------------
(* A load returns *)

\* What a step of runner s leaves alone.
LoadsOnly(s) ==
  /\ UNCHANGED <<clock, phase, contribution, trigger, files, document, event, watch>>
  /\ runner' = [runner EXCEPT ![s] = runner'[s]]
  /\ runner[s].pc = "loading"
  /\ \A t \in Declared : t # s => seen'[t] = seen[t] /\ etag'[t] = etag[t] /\ runner'[t] = runner[t]

\* A load that has read the document it holds, or an error, preserves the
\* invariant if the ETag stands for what the commit will leave resident.
LEMMA LoadInv ==
  ASSUME NEW s \in Declared, FeedInv, LoadsOnly(s),
         runner'[s] \in [pc : {"select", "commit"}, timer : Int, at : Int,
                         result : Contribution \cup {Failed, Unchanged}],
         runner'[s].pc = "commit" => runner'[s].result # Failed,
         seen' \in [Declared -> Document], etag' \in [Declared -> Document],
         seen'[s] \in {document[s], Failed},
         seen'[s] # Failed => seen'[s] = Resident(s)',
         etag'[s] # Failed => etag'[s] = Resident(s)' /\ s \notin files
  PROVE  FeedInv'
<1> USE DEF FeedInv, LoadsOnly
<1>1. FeedTypes'
  <2>1. runner' \in [Declared -> [pc : {"off", "select", "loading", "commit"}, timer : Int,
                                  at : Int, result : Contribution \cup {Failed, Unchanged}]]
    BY DEF FeedTypes
  <2>2. \A t \in Declared : runner'[t].pc = "commit" => runner'[t].result # Failed
    BY DEF FeedTypes
  <2>3. QED BY <2>1, <2>2 DEF FeedTypes
<1>2. NothingRunsYet'
  BY DEF NothingRunsYet
<1>3. StandsForResident'
  BY DEF StandsForResident, Resident
<1>4. ChangeIsOnItsWay'
  BY DEF ChangeIsOnItsWay, Watching, FeedTypes
<1>5. QED BY <1>1, <1>2, <1>3, <1>4

LEMMA FeedReturnsInv == ASSUME NEW s \in Declared, FeedInv, FeedReturns(s) PROVE FeedInv'
<1> DEFINE result == runner'[s].result
<1> USE DEF FeedInv
<1>1. /\ LoadReturns(s) /\ runner[s].pc = "loading"
      /\ seen' = [seen EXCEPT ![s] = document[s]]
      /\ UNCHANGED <<clock, phase, contribution, trigger, files, document, event, watch>>
  BY DEF FeedReturns, Reads, LoadReturns, unchangedByRunner, stateVars
<1>2. PICK r \in Publishes[s] \cup {Unchanged} :
        runner' = [runner EXCEPT ![s] = [RunnerAt("commit", 0) EXCEPT !.result = r, !.at = clock]]
  BY <1>1 DEF LoadReturns
<1>3. /\ result = r /\ runner'[s].pc = "commit"
      /\ runner'[s] \in [pc : {"select", "commit"}, timer : Int, at : Int,
                         result : Contribution \cup {Failed, Unchanged}]
      /\ result # Failed
  <2>1. runner'[s] = [pc |-> "commit", timer |-> 0, result |-> r, at |-> clock]
    BY <1>2 DEF FeedTypes, RunnerAt
  <2>2. r \in Contribution \cup {Unchanged} /\ r # Failed
    BY Facts
  <2>3. QED BY <2>1, <2>2 DEF FeedTypes
<1>4. seen' \in [Declared -> Document] /\ seen'[s] = document[s] /\ document[s] # Unchanged
  BY <1>1, Facts DEF FeedTypes, Document
<1>5. /\ etag' \in [Declared -> Document]
      /\ \A t \in Declared : t # s => etag'[t] = etag[t]
      /\ document[s] = Resident(s)'
      /\ etag'[s] # Failed => etag'[s] = document[s] /\ s \notin files
  <2>1. CASE Decoded(s, result)
    <3>1. result = document[s] /\ Revalidates(s)
      BY <2>1 DEF Decoded
    <3>2. Resident(s)' = document[s]
      BY <1>3, <1>4, <3>1 DEF Resident
    <3>3. QED BY <3>1, <3>2 DEF Revalidates, FeedTypes, Document, StandsForResident
  <2>2. CASE NotModified(s, result)
    <3>1. result = Unchanged /\ etag[s] = document[s] /\ etag[s] # Failed /\ s \notin files
          /\ UNCHANGED etag
      BY <2>2 DEF NotModified
    <3>2. etag[s] = contribution[s]
      BY <1>1, <3>1 DEF StandsForResident, Resident
    <3>3. Resident(s)' = contribution[s]
      BY <1>1, <3>1 DEF Resident
    <3>4. QED BY <3>1, <3>2, <3>3 DEF FeedTypes
  <2>3. QED BY <2>1, <2>2 DEF FeedReturns
<1>6. LoadsOnly(s)
  BY <1>1, <1>2, <1>5 DEF LoadsOnly, FeedTypes
<1>7. QED BY <1>3, <1>4, <1>5, <1>6, LoadInv

\* A failed load leaves the ETag, which stands for what stays resident.
LEMMA FeedFailsInv == ASSUME NEW s \in Declared, FeedInv, FeedFails(s) PROVE FeedInv'
<1> USE DEF FeedInv
<1>1. /\ runner[s].pc = "loading"
      /\ runner' = [runner EXCEPT ![s] = RunnerAt("select", clock + PollInterval[s])]
      /\ seen' = [seen EXCEPT ![s] = Failed] /\ UNCHANGED etag
      /\ UNCHANGED <<clock, phase, contribution, trigger, files, document, event, watch>>
  BY DEF FeedFails, LoadFails, BackToSelect, NotLoaded, Reads, unchangedByRunner, stateVars
<1>2. /\ runner'[s].pc = "select"
      /\ runner'[s] \in [pc : {"select", "commit"}, timer : Int, at : Int,
                         result : Contribution \cup {Failed, Unchanged}]
  BY <1>1, Facts DEF FeedTypes, RunnerAt, NoTime
<1>3. seen' \in [Declared -> Document] /\ seen'[s] = Failed
  BY <1>1 DEF FeedTypes, Document
<1>4. etag'[s] # Failed => etag'[s] = Resident(s)' /\ s \notin files
  BY <1>1, <1>2 DEF StandsForResident, Resident
<1>5. LoadsOnly(s)
  BY <1>1 DEF LoadsOnly, FeedTypes
<1>6. QED BY <1>1, <1>2, <1>3, <1>4, <1>5, LoadInv DEF FeedTypes
-----------------------------------------------------------------------------
(* The other steps of a runner *)

\* They leave what is resident, or about to be, and the trigger as they are,
\* or begin a load.
LEMMA RunnerFrameInv ==
  ASSUME NEW s \in Declared, FeedInv, UNCHANGED <<clock, phase, feedVars>>, phase # "boot",
         contribution' \in [Source -> Contribution \cup {NoContribution}],
         \A t \in Declared : Resident(t)' = Resident(t),
         \A t \in Declared : t # s => runner'[t] = runner[t] /\ trigger'[t] = trigger[t],
         runner' \in [Declared -> [pc : {"off", "select", "loading", "commit"}, timer : Int,
                                   at : Int, result : Contribution \cup {Failed, Unchanged}]],
         runner'[s].pc # "commit",
         trigger' \in [Declared -> BOOLEAN],
         \/ runner'[s].pc = "loading"
         \/ runner[s].pc # "loading" /\ trigger'[s] = trigger[s]
  PROVE  FeedInv'
<1> USE DEF FeedInv, feedVars
<1>1. FeedTypes'
  BY DEF FeedTypes
<1>2. NothingRunsYet'
  BY DEF NothingRunsYet
<1>3. StandsForResident'
  BY DEF StandsForResident
<1>4. ChangeIsOnItsWay'
  <2>1. files' = files /\ files \subseteq Declared /\ document' = document /\ seen' = seen
        /\ event' = event /\ watch' = watch /\ phase' = phase
    BY DEF FeedTypes
  <2>2. ASSUME NEW t \in files, Watching(t), seen[t] \notin {document[t], Failed}
        PROVE  event[t] \/ watch[t] = "debouncing" \/ trigger'[t] \/ runner'[t].pc = "loading"
    <3>1. event[t] \/ watch[t] = "debouncing" \/ trigger[t] \/ runner[t].pc = "loading"
      BY <2>2 DEF ChangeIsOnItsWay
    <3>. QED  BY <2>1, <3>1
  <2>. QED  BY <2>1, <2>2 DEF ChangeIsOnItsWay, Watching
<1>5. QED BY <1>1, <1>2, <1>3, <1>4

LEMMA FeedRunsInv == ASSUME NEW s \in Declared, FeedInv, FeedRuns(s) PROVE FeedInv'
<1> USE DEF FeedInv
<1>1. UNCHANGED <<clock, phase, feedVars>> /\ runner[s].pc # "off" /\ phase # "boot"
  <2>1. UNCHANGED <<clock, phase, feedVars>> /\ runner[s].pc \in {"select", "commit"}
    BY DEF FeedRuns, PollFires, TriggerReceived, RunnerStops, CommitUpdate, CommitConfirmation,
           CommitRefused, unchangedByRunner
  <2>2. QED BY <2>1 DEF NothingRunsYet
<1>2. CASE PollFires(s) \/ TriggerReceived(s) \/ RunnerStops(s) \/ CommitRefused(s)
  <2>1. /\ UNCHANGED contribution
        /\ \E pc \in {"off", "select", "loading"}, timer \in Int :
             runner' = [runner EXCEPT ![s] = RunnerAt(pc, timer)]
    BY <1>2, Facts DEF PollFires, TriggerReceived, RunnerStops, CommitRefused, BeginLoad,
       BackToSelect, stateVars, FeedTypes
  <2>2. /\ runner' \in [Declared -> [pc : {"off", "select", "loading", "commit"}, timer : Int,
                                     at : Int, result : Contribution \cup {Failed, Unchanged}]]
        /\ \A t \in Declared : t # s => runner'[t] = runner[t]
        /\ runner'[s].pc # "commit"
    BY <2>1 DEF FeedTypes, RunnerAt, NoTime
  <2>3. /\ trigger' \in [Declared -> BOOLEAN]
        /\ \A t \in Declared : t # s => trigger'[t] = trigger[t]
        /\ \/ runner'[s].pc = "loading"
           \/ runner[s].pc # "loading" /\ trigger'[s] = trigger[s]
    <3>1. CASE TriggerReceived(s)
      BY <3>1 DEF TriggerReceived, BeginLoad, RunnerAt, FeedTypes
    <3>2. CASE PollFires(s) \/ RunnerStops(s) \/ CommitRefused(s)
      BY <3>2 DEF PollFires, RunnerStops, CommitRefused, FeedTypes
    <3>3. QED BY <1>2, <3>1, <3>2
  <2>4. runner[s].pc = "commit" => runner[s].result = Unchanged
    BY <1>2 DEF PollFires, TriggerReceived, RunnerStops, CommitRefused
  <2>5. \A t \in Declared : Resident(t)' = Resident(t)
    BY <2>1, <2>2, <2>4 DEF Resident
  <2>6. QED BY <1>1, <2>1, <2>2, <2>3, <2>5, RunnerFrameInv DEF FeedTypes
<1>3. CASE CommitUpdate(s) \/ CommitConfirmation(s)
  <2>1. /\ runner[s].pc = "commit" /\ UNCHANGED trigger
        /\ runner' = [runner EXCEPT ![s] = RunnerAt("select", clock + PollInterval[s])]
        /\ \/ /\ runner[s].result # Unchanged
              /\ contribution' = [contribution EXCEPT ![s] = runner[s].result]
           \/ runner[s].result = Unchanged /\ UNCHANGED contribution
    BY <1>3 DEF CommitUpdate, CommitConfirmation, BackToSelect, Install, Touch
  <2>2. /\ runner' \in [Declared -> [pc : {"off", "select", "loading", "commit"}, timer : Int,
                                     at : Int, result : Contribution \cup {Failed, Unchanged}]]
        /\ \A t \in Declared : t # s => runner'[t] = runner[t]
        /\ runner'[s].pc = "select"
    BY <2>1, Facts DEF FeedTypes, RunnerAt, NoTime
  <2>3. \A t \in Declared : Resident(t)' = Resident(t)
    BY <2>1, <2>2, Facts DEF Resident, FeedTypes
  <2>4. contribution' \in [Source -> Contribution \cup {NoContribution}]
    BY <2>1, Facts DEF FeedTypes
  <2>5. QED BY <1>1, <2>1, <2>2, <2>3, <2>4, RunnerFrameInv DEF FeedTypes
<1>4. QED BY <1>2, <1>3 DEF FeedRuns
-----------------------------------------------------------------------------
(* A document changes, and its watcher *)

\* What these steps leave alone of the store and of what was loaded.
LEMMA WatchFrame ==
  ASSUME FeedInv, UNCHANGED <<clock, contribution, runner, files, etag, seen, phase>>,
         document' \in [Declared -> Document], event' \in [Declared -> BOOLEAN],
         watch' \in [Declared -> {"off", "idle", "debouncing"}], trigger' \in [Declared -> BOOLEAN],
         \A s \in Declared : watch[s] = "off" => watch'[s] = "off",
         ChangeIsOnItsWay'
  PROVE  FeedInv'
<1> USE DEF FeedInv
<1>1. FeedTypes'
  BY DEF FeedTypes
<1>2. NothingRunsYet'
  BY DEF NothingRunsYet
<1>3. StandsForResident'
  BY DEF StandsForResident, Resident
<1>4. QED BY <1>1, <1>2, <1>3

LEMMA DocumentChangesInv == ASSUME NEW s \in Declared, FeedInv, DocumentChanges(s) PROVE FeedInv'
<1> USE DEF FeedInv
<1>1. PICK d \in Publishes[s] \cup {Failed} : document' = [document EXCEPT ![s] = d]
  BY DEF DocumentChanges
<1>2. /\ event' = [event EXCEPT ![s] = s \in files]
      /\ UNCHANGED <<clock, contribution, runner, trigger, files, etag, watch, seen, phase>>
  BY DEF DocumentChanges, vars, stateVars, runnerVars
<1>3. document' \in [Declared -> Document] /\ event' \in [Declared -> BOOLEAN]
  BY <1>1, <1>2, Facts DEF FeedTypes, Document
<1>4. ChangeIsOnItsWay'
  BY <1>1, <1>2 DEF ChangeIsOnItsWay, Watching, FeedTypes
<1>5. QED BY <1>2, <1>3, <1>4, WatchFrame DEF FeedTypes

LEMMA EventReceivedInv == ASSUME NEW s \in Declared, FeedInv, EventReceived(s) PROVE FeedInv'
<1> USE DEF FeedInv
<1>1. /\ event' = [event EXCEPT ![s] = FALSE] /\ watch' = [watch EXCEPT ![s] = "debouncing"]
      /\ watch[s] # "off"
      /\ UNCHANGED <<clock, contribution, runner, trigger, files, document, etag, seen, phase>>
  BY DEF EventReceived, Watching, vars, stateVars, runnerVars
<1>2. ChangeIsOnItsWay'
  BY <1>1 DEF ChangeIsOnItsWay, Watching, FeedTypes
<1>3. QED BY <1>1, <1>2, WatchFrame DEF FeedTypes

LEMMA DebounceFiresInv == ASSUME NEW s \in Declared, FeedInv, DebounceFires(s) PROVE FeedInv'
<1> USE DEF FeedInv
<1>1. /\ watch' = [watch EXCEPT ![s] = "idle"] /\ watch[s] # "off"
      /\ trigger' = [t \in Declared |-> trigger[t] \/ t = s]
      /\ UNCHANGED <<clock, contribution, runner, files, document, etag, event, seen, phase>>
  BY DEF DebounceFires, WatcherNotifies, Kick, stateVars
<1>2. trigger' \in [Declared -> BOOLEAN]
  BY <1>1
<1>3. ChangeIsOnItsWay'
  BY <1>1 DEF ChangeIsOnItsWay, Watching, FeedTypes
<1>4. QED BY <1>1, <1>2, <1>3, WatchFrame DEF FeedTypes

LEMMA WatchEndsInv ==
  ASSUME NEW s \in Declared, FeedInv, WatchEnds(s), phase # "boot" PROVE FeedInv'
<1> USE DEF FeedInv
<1>1. /\ watch' = [watch EXCEPT ![s] = "off"]
      /\ UNCHANGED <<clock, contribution, runner, trigger, files, document, etag, event, seen, phase>>
  BY DEF WatchEnds, vars, stateVars, runnerVars
<1>2. ChangeIsOnItsWay'
  BY <1>1 DEF ChangeIsOnItsWay, Watching, FeedTypes
<1>3. QED BY <1>1, <1>2, WatchFrame DEF FeedTypes
-----------------------------------------------------------------------------
LEMMA FeedStep == FeedInv /\ [FNext]_fvars => FeedInv'
<1> SUFFICES ASSUME FeedInv, [FNext]_fvars PROVE FeedInv'
  OBVIOUS
<1>1. CASE FeedBoots
  BY <1>1, FeedBootsInv
<1>2. CASE FeedStarts
  BY <1>2, FeedStartsInv
<1>3. CASE Apart
  BY <1>3, ApartQuiet, QuietInv
<1>4. ASSUME NEW s \in Declared, FeedReturns(s) \/ FeedFails(s) \/ FeedRuns(s) PROVE FeedInv'
  BY <1>4, FeedReturnsInv, FeedFailsInv, FeedRunsInv
<1>5. ASSUME NEW s \in Declared, DocumentChanges(s) \/ WatchStep(s) \/ WatchFails(s) PROVE FeedInv'
  <2>1. CASE WatchFails(s) \/ WatchStops(s)
    BY <2>1, WatchEndsInv DEF WatchFails, WatchStops
  <2>2. QED BY <1>5, <2>1, DocumentChangesInv, EventReceivedInv, DebounceFiresInv DEF WatchStep
<1>6. CASE UNCHANGED fvars
  BY <1>6, StutterInv
<1>7. QED BY <1>1, <1>2, <1>3, <1>4, <1>5, <1>6 DEF FNext, Apart

LEMMA FeedInvariant == FSpec => []FeedInv
<1> QED BY FeedInit, FeedStep, PTL DEF FSpec

\* Whatever the order of changes, failed decodings, answers without an ETag and
\* commits, a source at rest holds what its last successful load has read, the
\* load a 304 answered included.
THEOREM LoadedResident == FSpec => []LoadedIsResident
<1>1. FeedInv => LoadedIsResident
  BY DEF FeedInv, StandsForResident, Resident, LoadedIsResident
<1>2. QED BY <1>1, FeedInvariant, PTL

\* A change of a watched file its last load has not read is an event, under the
\* debounce timer, in the trigger, or about to be read: none is lost, with any
\* number of sources and also when it is made before the watcher runs.
THEOREM ChangeOnItsWay == FSpec => []NoChangeIsLost
<1>1. FeedInv => NoChangeIsLost
  BY DEF FeedInv, ChangeIsOnItsWay, NoChangeIsLost
<1>2. QED BY <1>1, FeedInvariant, PTL
-----------------------------------------------------------------------------
(* The store under what its sources really deliver.  A step is one of the  *)
(* store or moves the origin of time, which changes no source in service.  *)

LEMMA FeedStepKinds ==
  ASSUME [FNext]_fvars
  PROVE  [Next]_vars \/ Slides
<1>1. CASE FeedBoots \/ FeedStarts \/ FeedJoined \/ Passes
  BY <1>1 DEF FeedBoots, FeedStarts, FeedJoined, Passes, Next, Work
<1>2. ASSUME NEW s \in Declared, FeedReturns(s) \/ FeedFails(s) \/ FeedRuns(s) PROVE Next
  BY <1>2 DEF FeedReturns, FeedFails, FeedRuns, Next, Work, RunnerStep
<1>3. ASSUME NEW s \in Declared, DocumentChanges(s) \/ WatchStep(s) \/ WatchFails(s)
      PROVE  [Next]_vars
  <2>1. UNCHANGED vars \/ WatcherNotifies(s)
    BY <1>3 DEF DocumentChanges, WatchStep, WatchFails, WatchStops, WatchEnds, EventReceived,
                DebounceFires
  <2>2. QED BY <2>1 DEF Next, Work
<1>4. CASE TriggerAll \/ EvaluatorStep \/ Close \/ Stopped
  BY <1>4 DEF Next, Work
<1>5. CASE UNCHANGED fvars
  BY <1>5 DEF fvars
<1>6. QED BY <1>1, <1>2, <1>3, <1>4, <1>5 DEF FNext

LEMMA ShiftedTimes ==
  ASSUME clock \in Nat
  PROVE  /\ \A t \in Nat : Older(t) \in Nat /\ Older(t) <= t /\ Nearer(t) \in Nat
         /\ Older(NoTime) = NoTime /\ Nearer(NoTime) = NoTime
BY DEF Older, Nearer, NoTime

LEMMA SlidesTypes ==
  ASSUME TypeInv, Slides
  PROVE  TypeInv'
<1> DEFINE Runners == [pc : {"off", "select", "loading", "commit"}, timer : Nat,
                       at : Nat \cup {NoTime}, result : Contribution \cup {Failed, Unchanged}]
           Evaluators == [pc : {"off", "select", "read", "arm", "evaluate"},
                          deadline : Nat \cup {NoTime}, timer : Nat \cup {NoTime}]
<1>1. clock \in Nat
  BY DEF TypeInv, TypeOK
<1>2. loadedAt' \in [Source -> Nat] /\ deadlineAt' \in Nat \cup {NoTime}
  BY <1>1, ShiftedTimes DEF Slides, TypeInv, TypeOK
<1>3. /\ evaluator' \in Evaluators /\ evaluator'.pc = evaluator.pc
      /\ evaluator'.deadline = Nearer(evaluator.deadline)
  BY <1>1, ShiftedTimes DEF Slides, TypeInv, TypeOK
<1>4. ASSUME NEW s \in Declared
      PROVE  /\ runner'[s] \in Runners /\ runner'[s].pc = runner[s].pc
             /\ runner'[s].at = Older(runner[s].at) /\ runner'[s].result = runner[s].result
  <2>1. runner[s] \in Runners
    BY DEF TypeInv, TypeOK
  <2>2. runner'[s] = [runner[s] EXCEPT !.timer = Nearer(@), !.at = Older(@)]
    BY DEF Slides
  <2>3. Nearer(runner[s].timer) \in Nat /\ Older(runner[s].at) \in Nat \cup {NoTime}
    BY <1>1, <2>1, ShiftedTimes
  <2>4. QED BY <2>1, <2>2, <2>3
<1>5. runner' \in [Declared -> Runners]
  BY <1>4 DEF Slides
<1>6. CommitHolds'
  BY <1>1, <1>4, ShiftedTimes DEF TypeInv, CommitHolds
<1>7. ArmHolds'
  BY <1>1, <1>3, ShiftedTimes DEF TypeInv, ArmHolds
<1>8. QED BY <1>2, <1>3, <1>5, <1>6, <1>7 DEF Slides, TypeInv, TypeOK

\* What is too old stays so when the origin moves: a load before it is past the
\* limit, and no load gets younger.
LEMMA SlidesSafe ==
  ASSUME SafeInv, Slides
  PROVE  /\ SafeInv'
         /\ UNCHANGED <<contribution, excluded, snapshot>> /\ Serving' = Serving
<1>1. TypeInv' /\ UNCHANGED <<clock, phase, contribution, excluded, snapshot>>
  BY SlidesTypes DEF SafeInv, Slides
<1>2. clock \in Nat /\ loadedAt \in [Source -> Nat] /\ loadedAt' \in [Source -> Nat]
  BY <1>1 DEF SafeInv, TypeInv, TypeOK
<1>3. \A s \in Source : loadedAt'[s] <= loadedAt[s]
  BY <1>2, ShiftedTimes DEF Slides
<1>4. FreshStaysInService'
  BY <1>1, <1>2, <1>3, DurationAssumption DEF SafeInv, FreshStaysInService
<1>5. evaluator'.pc = evaluator.pc
  BY DEF Slides, SafeInv, TypeInv, TypeOK
<1>6. \A s \in Declared : runner'[s].pc = runner[s].pc
  BY DEF Slides, SafeInv, TypeInv, TypeOK
<1>7. Serving' = Serving
  BY <1>1 DEF Serving
<1>8. Lifecycle'
  BY <1>1, <1>5, <1>6, <1>7 DEF SafeInv, Lifecycle
<1>9. Composed'
  BY <1>1, <1>7 DEF SafeInv, Composed
<1>10. QED BY <1>1, <1>4, <1>7, <1>8, <1>9 DEF SafeInv

LEMMA FeedSafeStep == ASSUME SafeInv, [FNext]_fvars PROVE SafeInv'
BY FeedStepKinds, SafeStep, SlidesSafe

LEMMA FeedSafe == FSpec => []SafeInv
<1>1. FInit => SafeInv
  BY SafeInit DEF FInit
<1>2. SafeInv /\ [FNext]_fvars => SafeInv'
  BY FeedSafeStep
<1>3. QED BY <1>1, <1>2, PTL DEF FSpec

\* With loads that read documents, 304 answers and watchers in the place of
\* loads that return anything, and with no last instant, every goroutine still
\* leaves the snapshot published that the source states call for.
THEOREM FeedSnapshotCorrect == FSpec => []SnapshotIsComposition
<1>1. SafeInv => SnapshotIsComposition
  BY DEF SafeInv, Composed, SnapshotIsComposition, Serving
<1>2. QED BY <1>1, FeedSafe, PTL

\* However long the store runs, a source whose last load, or last 304, is
\* younger than the limit is in service.
THEOREM FeedFreshCorrect == FSpec => []FreshStaysInService
<1>1. SafeInv => FreshStaysInService
  BY DEF SafeInv
<1>2. QED BY <1>1, FeedSafe, PTL

\* No change of a document and no time that passes moves a digest to a later
\* source while the one that served it still claims it.
THEOREM FeedReassignment == FSpec => NoSilentReassignment
<1>1. ASSUME SafeInv, SafeInv', [FNext]_fvars
      PROVE  [\A d \in Digests : \A s, t \in Source : Fair(d, s, t)]_vars
  BY <1>1, FeedStepKinds, ContributionStays, SlidesSafe, FairStep
<1>2. SafeInv /\ SafeInv' /\ [FNext]_fvars =>
        [\A d \in Digests : \A s, t \in Source : Fair(d, s, t)]_vars
  BY <1>1
<1>3. QED BY <1>2, FeedSafe, PTL DEF FSpec, NoSilentReassignment, Fair

\* The store with its sources keeps the promise of the union to the data plane:
\* what the sources add, and time, are steps the data plane does not see.
THEOREM FeedImplementsUnion == FSpec => ImplementsUnion
<1>1. ASSUME SafeInv, SafeInv', [FNext]_fvars
      PROVE  [Union!UNext]_(Union!uvars)
  <2>1. CASE [Next]_vars
    BY <1>1, <2>1, UnionStep DEF SafeInv
  <2>2. CASE Slides
    <3>1. UNCHANGED <<Serving, Claims, Gone, snapshot>>
      BY <1>1, <2>2, SlidesSafe, QuietStutters
    <3>2. QED BY <3>1 DEF Union!uvars, Claims, Gone
  <2>3. QED BY <1>1, <2>1, <2>2, FeedStepKinds
<1>2. SafeInv /\ SafeInv' /\ [FNext]_fvars => [Union!UNext]_(Union!uvars)
  BY <1>1
<1>3. FInit => Union!UInit
  BY UnionInit DEF FInit
<1>4. QED BY <1>2, <1>3, FeedSafe, PTL DEF FSpec, ImplementsUnion, Union!USpec
=============================================================================
