------------------------------ MODULE KeyFeed -------------------------------
(***************************************************************************)
(* The key store and what its sources read: src/keys/httpSource.go and     *)
(* fileSource.go.  An HTTP source keeps the ETag of the last document it   *)
(* decoded and sends it along; a file source has a watcher goroutine that  *)
(* waits for a burst of file events to end before it asks for a refresh.   *)
(*                                                                         *)
(* A document is what decoding it yields: a contribution, or Failed.  An   *)
(* ETag names the document it was sent with, so the document stands for it.*)
(* Only differences of times matter: the first load is made when the clock *)
(* is at MaxClock, and from then on the origin moves along with time.      *)
(***************************************************************************)
EXTENDS KeyStore

VARIABLES
  files,     \* the declared sources that are files; the others are key APIs
  document,  \* document[s]: what the server or the file of s now holds
  etag,      \* httpSource.etag: a document, or Failed for the empty string
  event,     \* event[s]: the directory watcher holds an event nobody received
  watch,     \* the goroutine of fileSource.Watch: "off", "idle" or "debouncing"
  seen       \* history: what the latest load of s has read, Failed for an error

feedVars == <<files, document, etag, event, watch, seen>>
fvars == <<vars, feedVars>>

\* The directory is watched from the construction of the source on, before any
\* source has been loaded.
FInit ==
  /\ Init
  /\ files \in SUBSET Declared
  /\ \E d \in [Declared -> UNION {Publishes[s] : s \in Declared}] :
       document = d /\ \A s \in Declared : d[s] \in Publishes[s]
  /\ etag = [s \in Declared |-> Failed]
  /\ event = [s \in Declared |-> FALSE]
  /\ watch = [s \in Declared |-> "off"]
  /\ seen = [s \in Declared |-> Failed]
-----------------------------------------------------------------------------
(* Load *)

Reads(s, result) ==
  /\ seen' = [seen EXCEPT ![s] = result]
  /\ UNCHANGED <<files, document, event, watch>>

\* Mutant: an answer without an ETag leaves the one of an older document.
RevalidatesKeeping(s) ==
  UNCHANGED etag \/ (s \notin files /\ etag' = [etag EXCEPT ![s] = document[s]])

\* A decoded answer replaces the ETag, or clears it if it came without one.
Revalidates(s) ==
  IF s \in files THEN UNCHANGED etag
  ELSE \E tag \in {document[s], Failed} : etag' = [etag EXCEPT ![s] = tag]

\* A document that was read and decoded.
Decoded(s, result) == result = document[s] /\ Revalidates(s)

\* The server answers 304 only to the ETag of the document it has.
NotModified(s, result) ==
  /\ result = Unchanged
  /\ s \notin files /\ etag[s] = document[s] /\ etag[s] # Failed
  /\ UNCHANGED etag

\* Mutant: the ETag is taken from the header before the body is read and decoded.
NotLoadedTagged(s) ==
  /\ etag' = [etag EXCEPT ![s] = IF s \in files THEN @ ELSE document[s]]
  /\ Reads(s, Failed)

\* No answer, another status, a body that is too long or does not decode, a 304
\* that was not asked for: the ETag stays.
NotLoaded(s) == UNCHANGED etag /\ Reads(s, Failed)

FeedBoots ==
  LET s == bootNext IN
  /\ clock = MaxClock /\ BootLoad
  /\ IF s = 0 THEN UNCHANGED feedVars
     ELSE IF contribution' # contribution
     THEN Decoded(s, contribution'[s]) /\ Reads(s, document[s])
     ELSE NotLoaded(s) /\ (phase' = "failed" => s \in Required)

FeedStarts ==
  /\ Start
  /\ watch' = [s \in Declared |-> IF s \in files THEN "idle" ELSE "off"]
  /\ UNCHANGED <<files, document, etag, event, seen>>

FeedReturns(s) ==
  /\ LoadReturns(s)
  /\ \/ Decoded(s, runner'[s].result)
     \/ NotModified(s, runner'[s].result)
  /\ Reads(s, document[s])

FeedFails(s) == LoadFails(s) /\ NotLoaded(s)

\* The steps of a runner but those of a load.
FeedRuns(s) ==
  /\ \/ PollFires(s) \/ TriggerReceived(s) \/ RunnerStops(s)
     \/ CommitUpdate(s) \/ CommitConfirmation(s) \/ CommitRefused(s)
  /\ UNCHANGED feedVars
-----------------------------------------------------------------------------
(* The document changes, and the watcher notices *)

DocumentChanges(s) ==
  /\ document' \in {[document EXCEPT ![s] = d] : d \in (Publishes[s] \cup {Failed}) \ {document[s]}}
  /\ event' = [event EXCEPT ![s] = s \in files]
  /\ UNCHANGED <<vars, files, etag, watch, seen>>

Watching(s) == watch[s] \in {"idle", "debouncing"}

\* An event starts the debounce timer, or starts it again.
EventReceived(s) ==
  /\ Watching(s) /\ event[s]
  /\ event' = [event EXCEPT ![s] = FALSE]
  /\ watch' = [watch EXCEPT ![s] = "debouncing"]
  /\ UNCHANGED <<vars, files, document, etag, seen>>

DebounceFires(s) ==
  /\ watch[s] = "debouncing"
  /\ watch' = [watch EXCEPT ![s] = "idle"]
  /\ WatcherNotifies(s)
  /\ UNCHANGED <<files, document, etag, event, seen>>

WatchEnds(s) ==
  /\ Watching(s)
  /\ watch' = [watch EXCEPT ![s] = "off"]
  /\ UNCHANGED <<vars, files, document, etag, event, seen>>

\* The watcher reports an error: the goroutine ends, the source is polled.
WatchFails(s) == phase = "serving" /\ WatchEnds(s)

WatchStops(s) == phase = "closing" /\ WatchEnds(s)

WatchStep(s) == EventReceived(s) \/ DebounceFires(s) \/ WatchStops(s)

\* Close joins the watchers as well.
FeedJoined == Joined /\ (\A s \in Declared : ~Watching(s)) /\ UNCHANGED feedVars
-----------------------------------------------------------------------------
(* Time *)

\* Instants before the origin are one to the limit on staleness, and instants
\* that are past are one to a timer.
Older(t) == IF t > 0 THEN t - 1 ELSE t
Nearer(t) == IF t > clock THEN t - 1 ELSE t

\* A step of the clock, seen from an origin that moves along.
Slides ==
  /\ clock = MaxClock
  /\ loadedAt' = [s \in Source |-> Older(loadedAt[s])]
  /\ deadlineAt' = Nearer(deadlineAt)
  /\ evaluator' = [evaluator EXCEPT !.timer = Nearer(@), !.deadline = Nearer(@)]
  /\ runner' = [s \in Declared |-> [runner[s] EXCEPT !.timer = Nearer(@), !.at = Older(@)]]
  /\ UNCHANGED <<clock, phase, bootNext, contribution, excluded, snapshot, deadlineNew,
                 deadlineSignal, trigger>>

Passes == (Tick \/ Slides) /\ UNCHANGED feedVars
-----------------------------------------------------------------------------
FNext ==
  \/ FeedBoots \/ FeedStarts \/ FeedJoined \/ Passes
  \/ \E s \in Declared :
       \/ FeedReturns(s) \/ FeedFails(s) \/ FeedRuns(s)
       \/ DocumentChanges(s) \/ WatchStep(s) \/ WatchFails(s)
  \/ (TriggerAll \/ EvaluatorStep \/ Close \/ Stopped) /\ UNCHANGED feedVars

Stops ==
  \/ EvaluatorStops /\ UNCHANGED feedVars
  \/ \E s \in Declared : WatchStops(s) \/ (RunnerStops(s) /\ UNCHANGED feedVars)

\* The Go scheduler runs every goroutine that can run, a load returns within its
\* timeout, and a select picks a ready case at random: the timer is picked in the
\* end although signals come in between, and a goroutine that can stop again and
\* again stops, which it does once.  Nothing is asked of the watchers but to stop.
FFairness ==
  /\ WF_fvars(Passes)
  /\ \A s \in Declared : WF_fvars(FeedRuns(s) \/ FeedReturns(s) \/ FeedFails(s))
  /\ WF_fvars(EvaluatorStep /\ UNCHANGED feedVars) /\ SF_fvars(TimerFires /\ UNCHANGED feedVars)
  /\ SF_fvars(Stops)
  /\ WF_fvars(FeedJoined)

FSpec == FInit /\ [][FNext]_fvars /\ FFairness
-----------------------------------------------------------------------------
(* Properties *)

\* A source at rest holds the document its last successful load has read, also
\* when the server only confirmed it: no order of changes, answers without an
\* ETag and failed decodings makes a 304 confirm another document
\* (httpSource.go:62-110, the comment on lines 104-105).
LoadedIsResident ==
  \A s \in Declared :
    runner[s].pc = "select" /\ seen[s] # Failed => contribution[s] = seen[s]

\* While a file is watched, a change its last load has not read is on its way to
\* the next one: as an event, under the debounce timer, or in the one-slot
\* trigger; also one made during boot or while a load is under way.
NoChangeIsLost ==
  phase = "serving" =>
    \A s \in files : Watching(s) /\ seen[s] \notin {document[s], Failed} =>
      event[s] \/ watch[s] = "debouncing" \/ trigger[s] \/ runner[s].pc = "loading"

\* Polling is the convergence floor (the comment of source.go:16-17): when a
\* document stays as it is and loading it fails no more it gets resident and stays
\* so, whatever ETag is held and whether or not a watcher is left.
FeedIsServed ==
  \A s \in Declared : \A d \in Publishes[s] :
    <>[](phase = "serving" /\ document[s] = d /\ seen[s] # Failed) => <>[](contribution[s] = d)
=============================================================================
