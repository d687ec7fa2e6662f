----------------------------- MODULE MCIntentRun -----------------------------
(* Instances of IntentRun for TLC. *)
EXTENDS IntentRun, TLC

\* Tasks and people are interchangeable; used where no liveness is checked.
Symmetry == Permutations(Tasks) \cup Permutations(Clients)
=============================================================================
