---------------------------- MODULE RoundLedger ----------------------------
(***************************************************************************)
(* What the model rounds of a run promise, one round after the other: an   *)
(* answer is found; if it acts, it says so first and acts once; it is      *)
(* settled once, which charges its usage and decides whether the run goes  *)
(* on or ends with it.  A run is done only with a final answer; it may     *)
(* fail at any time.                                                       *)
(***************************************************************************)
EXTENDS Integers

VARIABLES round, stage, acted, charged, outcome

vars == <<round, stage, acted, charged, outcome>>

Fresh == round = 0 /\ stage = "open" /\ acted = 0 /\ charged = 0 /\ outcome = "running"

Find ==
  /\ stage = "open" /\ stage' = "answered"
  /\ UNCHANGED <<round, acted, charged, outcome>>

Begin ==
  /\ stage = "answered" /\ stage' = "acting"
  /\ UNCHANGED <<round, acted, charged, outcome>>

Act ==
  /\ stage = "acting" /\ acted = 0 /\ acted' = 1
  /\ UNCHANGED <<round, stage, charged, outcome>>

Settle ==
  /\ stage \in {"answered", "acting"} /\ stage' \in {"continue", "terminal"}
  /\ charged' = charged + 1
  /\ UNCHANGED <<round, acted, outcome>>

Advance ==
  /\ stage = "continue" /\ stage' = "open" /\ round' = round + 1 /\ acted' = 0
  /\ UNCHANGED <<charged, outcome>>

End ==
  /\ outcome' \in {"done", "failed"}
  /\ outcome' = "done" => stage = "terminal"
  /\ UNCHANGED <<round, stage, acted, charged>>

NewRun == outcome # "running" /\ Fresh'

Next ==
  \/ outcome = "running" /\ (Find \/ Begin \/ Act \/ Settle \/ Advance \/ End)
  \/ NewRun

Spec == Fresh /\ [][Next]_vars
=============================================================================
