------------------------------- MODULE RunRow -------------------------------
(***************************************************************************)
(* The row of app.runs that every part of the harness projects its         *)
(* progress onto, and the two UPDATE statements that write it              *)
(* (src/db/runRepo.ts).  A terminal status is sticky: a non-terminal       *)
(* status written over it is ignored, while one terminal status replaces   *)
(* another.  Only the repair workflow, which raises retry_count in the     *)
(* same call, may take a run out of a terminal status.                     *)
(***************************************************************************)
EXTENDS Naturals

RunStatus == {"queued", "running", "waiting_input", "repairing",
              "succeeded", "failed", "retries_exceeded", "canceled"}

TerminalStatus == {"succeeded", "failed", "retries_exceeded", "canceled"}

StepIds == {"CompileST", "ApplyPatchST", "DecideST", "ExecuteST"}

NextActions == {"null", "APPROVE_PLAN", "REPAIR", "NONE"}

(***************************************************************************)
(* What last_error may hold, as far as the properties tell errors apart.   *)
(***************************************************************************)
Errors == {"null", "ask_timeout", "rejected", "budget", "step", "sbx",
           "rollback_failed", "canceled"}

RunRows == [status : RunStatus, lastStep : StepIds \cup {"null"},
            error : Errors, nextAction : NextActions, retryCount : Nat]

NewRun == [status |-> "queued", lastStep |-> "null", error |-> "null",
           nextAction |-> "null", retryCount |-> 0]

(***************************************************************************)
(* The CASE of both UPDATE statements: the status the row has after new is *)
(* written over old.  reopen is the allowTerminalReentry parameter.        *)
(***************************************************************************)
Settle(old, new, reopen) ==
  IF old \in TerminalStatus /\ new \notin TerminalStatus /\ ~reopen
    THEN old ELSE new

\* updateRunStatus(id, status)
SetStatus(row, status) ==
  [row EXCEPT !.status = Settle(@, status, FALSE)]

\* updateRunOps(id, {lastStep})
SetLastStep(row, step) == [row EXCEPT !.lastStep = step]

\* updateRunOps(id, {nextAction})
SetNextAction(row, action) == [row EXCEPT !.nextAction = action]

(***************************************************************************)
(* persistTerminalFailure's updateRunOps(id, {status, error, nextAction}). *)
(***************************************************************************)
SetFailure(row, status, error, action) ==
  [row EXCEPT !.status = Settle(@, status, FALSE), !.error = error,
              !.nextAction = action]
=============================================================================
