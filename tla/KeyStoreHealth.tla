--------------------------- MODULE KeyStoreHealth ---------------------------
(***************************************************************************)
(* The key store under the timing its configuration check reasons about    *)
(* (src/keys/validate.go): goroutines that are ready run at once and every *)
(* load, at boot and later, takes at most its timeout.  Then only a source *)
(* whose loads fail should ever be taken out of service.                   *)
(***************************************************************************)
EXTENDS KeyStore

VARIABLES
  loadSince,  \* loadSince[s]: when the latest load of s began
  recorded    \* the result refresh recorded last: "none", "failure" or "success"

hvars == <<vars, loadSince, recorded>>

HInit ==
  /\ Init
  /\ loadSince = [s \in Source |-> 0]
  /\ recorded = [s \in Declared |-> "none"]

\* The load of s has run for as long as its timeout lets it.  Inline keys are
\* read from memory.
TimedOut(s) == clock >= loadSince[s] + (IF s \in Declared THEN Timeout[s] ELSE 0)

\* Somebody has to act before time may pass.
Due ==
  \/ phase = "boot" /\ (bootNext > Last \/ TimedOut(bootNext))
  \/ phase = "closing"   \* the cancelled context ends every load and select
  \/ evaluator.pc \in {"read", "arm", "evaluate"}
  \/ evaluator.pc = "select" /\ deadlineSignal
  \/ evaluator.pc = "select" /\ evaluator.timer # NoTime /\ clock >= evaluator.timer
  \/ \E s \in Declared :
       \/ runner[s].pc = "select" /\ (trigger[s] \/ clock >= runner[s].timer)
       \/ runner[s].pc = "loading" /\ TimedOut(s)
       \/ runner[s].pc = "commit"

\* A load of s is under way after this step and was not before it.
LoadBegins(s) ==
  \/ phase' = "boot" /\ bootNext' = s /\ bootNext # s
  \/ s \in Declared /\ runner'[s].pc = "loading" /\ runner[s].pc # "loading"

\* refresh ends with recordRefresh: a failed load, or a confirmation of
\* nothing, is a failure.
Result(s) ==
  IF runner[s].pc = "loading" \/ contribution'[s] = NoContribution
  THEN "failure" ELSE "success"

RefreshEnds(s) ==
  runner[s].pc \in {"loading", "commit"} /\ runner'[s].pc = "select"

HNext ==
  /\ Work \/ (Tick /\ ~Due)
  /\ loadSince' = [s \in Source |-> IF LoadBegins(s) THEN clock ELSE loadSince[s]]
  /\ recorded' = [s \in Declared |-> IF RefreshEnds(s) THEN Result(s) ELSE recorded[s]]

HSpec == HInit /\ [][HNext]_hvars
-----------------------------------------------------------------------------
\* A source whose refreshes succeed in time stays in service: its next load
\* ends before the deadline the last one set.
RefreshedStaysInService ==
  \A s \in Declared : excluded[s] => recorded[s] # "success"

\* The documentation's claim, from the boot load on: max_staleness greater
\* than poll_interval + timeout keeps a healthy source from being excluded
\* "while its scheduled load is still allowed to run".
HealthyStaysInService ==
  \A s \in Declared : excluded[s] => recorded[s] = "failure"

\* The exact-deadline timer: time does not pass while a source that is in
\* service has overstayed its deadline.
ExcludedOnTime ==
  [][clock' > clock /\ phase = "serving" /\ MaxStaleness > 0 => Overdue = {}]_hvars
=============================================================================
