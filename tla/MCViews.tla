------------------------------- MODULE MCViews -------------------------------
(* One request at all its doors, or one view read while the world moves.   *)
EXTENDS Surfaces, ReadModels

\* The header is read twice; a gate goes through all its states.
OneOrTwo == [v \in Views |-> IF v = "header" THEN 2 ELSE 1]
Moves == [header |-> 4, proofs |-> 3, steps |-> 4, gate |-> 5, repro |-> 5, signoff |-> 2]

\* The theorem about the doors, whose hypothesis this is, speaks of these tables.
ASSUME HypothesisHolds == TwoFaultsHonest

viewVars == <<surfaceVars, readVars>>
ViewsInit == (StartCase /\ ReadIdle) \/ (StartIdle /\ ReadInit)
ViewsNext ==
  \/ SurfacesStep /\ UNCHANGED readVars
  \/ ReadsStep /\ UNCHANGED surfaceVars
ViewsSpec == ViewsInit /\ [][ViewsNext]_viewVars
==============================================================================
