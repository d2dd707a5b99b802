----------------------------- MODULE Lifetimes ------------------------------
(***************************************************************************)
(* What the gateway promises about everything it holds, without the        *)
(* stages, goroutines and signals that keep the promise                    *)
(* (src/gateway/gateway.go: New, Run, cleanup).                            *)
(*                                                                         *)
(* A resource is acquired when what it needs stands, and is given up once  *)
(* nobody needs it; nothing comes back; and nothing that has to be         *)
(* released is held in the end.  One part may have to be given up ahead of *)
(* the rest: it is dismantled in that order within itself, whoever outside *)
(* still relies on it.                                                     *)
(***************************************************************************)

CONSTANTS
  Resource,  \* what may be held
  Needs,     \* Needs[r]: the resources that r is of no use without
  Kept,      \* those that must not be held in the end
  Part       \* those that may be given up ahead of the rest

VARIABLES
  wanted,    \* what this process is to hold
  life,      \* life[r]: "absent", "held", "gone"
  stage      \* "up", "ahead" (giving up the part), "down", "over"

lvars == <<wanted, life, stage>>

LInit ==
  /\ wanted \in SUBSET Resource
  /\ life = [r \in Resource |-> "absent"]
  /\ stage = "up"

\* It is the turn of r: what it needs, if it is there at all, stands.
Ready(r) ==
  /\ stage = "up" /\ r \in wanted /\ life[r] = "absent"
  /\ \A q \in Needs[r] \cap wanted : life[q] = "held"

Acquire(r) ==
  /\ Ready(r)
  /\ life' = [life EXCEPT ![r] = "held"]
  /\ UNCHANGED <<wanted, stage>>

\* Acquiring r fails, what there is of it is given back.
Abandon(r) ==
  /\ Ready(r)
  /\ life' = [life EXCEPT ![r] = "gone"] /\ stage' = "down"
  /\ UNCHANGED wanted

Descend ==
  /\ stage = "up" /\ stage' \in {"ahead", "down"}
  /\ UNCHANGED <<wanted, life>>

\* Nobody of S needs r any more.
Unused(r, S) == \A q \in S : life[q] = "held" => r \notin Needs[q]

GiveUp(r, S) ==
  /\ life[r] = "held" /\ Unused(r, S)
  /\ life' = [life EXCEPT ![r] = "gone"]
  /\ UNCHANGED <<wanted, stage>>

GiveUpAhead(r) == stage = "ahead" /\ r \in Part /\ GiveUp(r, Part)

PartIsGivenUp ==
  /\ stage = "ahead" /\ \A r \in Part : life[r] # "held"
  /\ stage' = "down"
  /\ UNCHANGED <<wanted, life>>

Release(r) == stage = "down" /\ GiveUp(r, Resource)

End ==
  /\ stage = "down" /\ \A r \in Kept : life[r] # "held"
  /\ stage' = "over"
  /\ UNCHANGED <<wanted, life>>

LNext ==
  \/ \E r \in Resource : Acquire(r) \/ Abandon(r) \/ GiveUpAhead(r) \/ Release(r)
  \/ Descend \/ PartIsGivenUp \/ End

LSpec == LInit /\ [][LNext]_lvars
=============================================================================
