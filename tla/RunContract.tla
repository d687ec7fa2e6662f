----------------------------- MODULE RunContract -----------------------------
(***************************************************************************)
(* What a run promises to the people who watch it and approve it, without  *)
(* workers, steps, crashes or messages:                                    *)
(*   - its status moves between the open statuses until it is closed, and  *)
(*     never opens again;                                                  *)
(*   - its plan gets at most one verdict, which never changes;             *)
(*   - a task is launched at most once and only after a verdict of yes;    *)
(*   - it succeeds only when every task was launched, and a run that was   *)
(*     rejected never does.                                                *)
(***************************************************************************)
EXTENDS RunRow

CONSTANT Tasks
VARIABLES status, verdict, launched

cvars == <<status, verdict, launched>>

OpenStatus == {"queued", "running", "waiting_input"}

CInit == status = "queued" /\ verdict = "none" /\ launched = {}

Progress ==
  /\ status \in OpenStatus /\ status' \in {"running", "waiting_input"}
  /\ UNCHANGED <<verdict, launched>>

Rule ==
  /\ verdict = "none" /\ verdict' \in {"yes", "no"}
  /\ UNCHANGED <<status, launched>>

Launch ==
  /\ verdict = "yes"
  /\ \E t \in Tasks \ launched : launched' = launched \cup {t}
  /\ UNCHANGED <<status, verdict>>

Succeed ==
  /\ verdict = "yes" /\ launched = Tasks /\ status' = "succeeded"
  /\ UNCHANGED <<verdict, launched>>

\* A run that succeeded is not reported as failed afterwards.
GiveUp ==
  /\ status # "succeeded" /\ status' = "retries_exceeded"
  /\ UNCHANGED <<verdict, launched>>

Stop == status' = "canceled" /\ UNCHANGED <<verdict, launched>>

CNext == Progress \/ Rule \/ Launch \/ Succeed \/ GiveUp \/ Stop

CSpec == CInit /\ [][CNext]_cvars
=============================================================================
