------------------------------ MODULE RepairRun ------------------------------
(***************************************************************************)
(* The repair of a run that failed: the retry route that starts it under   *)
(* the fixed workflow id repair-<run>, repairRunWorkflow                   *)
(* (src/workflow/wf/run-intent.wf.ts), which skips the steps that have a   *)
(* row in run_steps, and operators who cancel, resume or fork it           *)
(* (src/server/ops-api.ts).  A fork is a second executor of the same run.  *)
(*                                                                         *)
(* A repair that finds no DecideST row opens the plan gate again, but what *)
(* people answer goes to the mailbox of the run's own workflow while the   *)
(* repair listens on its own.                                              *)
(***************************************************************************)
EXTENDS RunRow, FiniteSets

CONSTANTS Tasks,        \* what the decision fans out to
          Operators,    \* people at the ops board
          Failures,     \* the states in which runs were left by their failure
          Budgeted,     \* the intent has a budget
          MaxRecovery,  \* maxRecoveryAttempts
          ForkFrom,     \* bound: the statuses in which repairs are forked
          MaxTroubles   \* bound: operator actions and deaths, together

ASSUME RepairAssumption ==
  /\ MaxRecovery \in Nat /\ MaxTroubles \in Nat /\ Budgeted \in BOOLEAN
  /\ "absent" \notin ForkFrom

StepRows == [StepIds -> {"none", "ok", "bad"}]
TaskStates == {"none", "queued", "ok", "failed", "threw"}

\* A run that may be retried; it has a DecideST row and task workflows only if
\* its plan was approved, and a good ExecuteST row only of good results.
ASSUME FailuresAssumption ==
  /\ Failures \subseteq
       [status : {"failed", "retries_exceeded"}, lastStep : StepIds \cup {"null"},
        error : Errors, steps : StepRows, receipts : Nat, patched : BOOLEAN,
        approved : BOOLEAN, gate : BOOLEAN, child : TaskStates]
  /\ \A f \in Failures :
       /\ f.steps["DecideST"] # "none" \/ f.child # "none" => f.approved
       /\ f.steps["ExecuteST"] = "ok" => f.child = "ok"

Executors == {"repair", "fork"}
Templates == {"cold", "hot"}
Keys == Tasks \X Templates
Open == {"ENQUEUED", "PENDING"}
DbosStatus == Open \cup {"absent", "SUCCESS", "ERROR", "CANCELLED",
                         "MAX_RECOVERY_ATTEMPTS_EXCEEDED"}

VARIABLES
  row,        \* the row of app.runs
  steps,      \* run_steps: what each step's row says
  receipts,   \* seen_count of the ExecuteST receipt
  patched,    \* the plan's patches are in the workspace
  approved,   \* the run's own workflow took a yes before it failed
  approvals,  \* app.plan_approvals has a row
  mail,       \* a yes waits in the mailbox of each workflow
  gate,       \* the plan gate has a row in app.human_gates
  escalated,  \* the workflow esc:<run>:<gate> exists
  child,      \* the task workflows, by task and template
  hot,        \* a template for the run's recipe was registered
  exec,       \* the workflows repair-<run> and its fork
  operator,   \* where each operator is
  audit,      \* the op-intent artifacts
  ghosts,     \* rows of app.runs made up for the audit
  ops,        \* how often operators acted
  deaths      \* how often workers and servers died
runVars == <<row, steps, receipts, patched>>
gateVars == <<approved, approvals, mail, gate, escalated>>
taskVars == <<child, hot>>
opsVars == <<operator, audit, ghosts, ops>>
vars == <<runVars, gateVars, taskVars, exec, opsVars, deaths>>

Positions == {"reopen", "read", "compile", "compiled", "apply", "applied",
              "planWait", "planOps", "bridge", "prompt", "recv", "escalate",
              "planClear", "planRun", "decide", "decided", "build", "start",
              "join", "save", "saved", "sbx", "succeed", "succeedEvt",
              "budget", "fail", "failEvt", "end"}
CatchSteps == {"budget", "fail", "failEvt", "end"}
Ops == {"cancel", "resume", "fork"}

ExecStates == [db : DbosStatus, live : BOOLEAN, attempts : 0..MaxRecovery,
               pc : Positions, mem : {"none", "run", "ok", "err"}, err : Errors,
               seen : StepRows, tmpl : Templates]

TypeOK ==
  /\ row \in RunRows /\ steps \in StepRows
  /\ receipts \in Nat /\ {patched, approved, approvals, gate, escalated, hot} \subseteq BOOLEAN
  /\ mail \in [{"run"} \cup Executors -> BOOLEAN]
  /\ child \in [Keys -> TaskStates]
  /\ exec \in [Executors -> ExecStates]
  /\ operator \in [Operators -> [at : {"idle", "act", "audit"}, op : Ops,
                                 on : Executors]]
  /\ audit \subseteq [op : Ops, on : Executors]
  /\ ghosts \subseteq Executors /\ ops \in Nat /\ deaths \in Nat

Idle == [at |-> "idle", op |-> "cancel", on |-> "repair"]
NoExecutor == [db |-> "absent", live |-> FALSE, attempts |-> 0, pc |-> "reopen",
               mem |-> "none", err |-> "null", seen |-> [s \in StepIds |-> "none"],
               tmpl |-> "cold"]

\* A run that failed, in one of the states IntentRun's runs fail in.
Init ==
  /\ \E f \in Failures :
       /\ row = [status |-> f.status, lastStep |-> f.lastStep, error |-> f.error,
                 nextAction |-> "REPAIR", retryCount |-> 0]
       /\ steps = f.steps /\ receipts = f.receipts /\ patched = f.patched
       /\ approved = f.approved /\ gate = f.gate /\ escalated = FALSE
       /\ child = [k \in Keys |-> IF k[2] = "cold" THEN f.child ELSE "none"]
  /\ approvals = FALSE
  /\ mail = [w \in {"run"} \cup Executors |-> FALSE]
  /\ hot = FALSE
  /\ exec = [w \in Executors |-> NoExecutor]
  /\ operator = [o \in Operators |-> Idle]
  /\ audit = {} /\ ghosts = {} /\ ops = 0 /\ deaths = 0
-----------------------------------------------------------------------------
(***************************************************************************)
(* An executor.  DBOS starts a step unless the workflow is cancelled; a    *)
(* step with an effect on the run is recorded by Record, after the effect. *)
(***************************************************************************)
Start(w, p) ==
  exec[w].live /\ exec[w].db # "CANCELLED" /\ exec[w].pc = p /\ exec[w].mem = "none"
Inside(w, p) == exec[w].live /\ exec[w].pc = p /\ exec[w].mem = "run"

Mem(w, m) == exec' = [exec EXCEPT ![w].mem = m]
Goto(w, p) == exec' = [exec EXCEPT ![w].pc = p, ![w].mem = "none"]
Throw(w, e) ==
  exec' = [exec EXCEPT ![w].pc = IF e = "budget" THEN "budget" ELSE "fail",
                       ![w].mem = "none", ![w].err = e]

\* The branches on the checkpoints that were read.
Execute(seen) == CASE seen["ExecuteST"] = "none" -> "build"
                   [] seen["ExecuteST"] = "ok" -> "succeed"
                   [] seen["ExecuteST"] = "bad" -> "sbx"
FromDecide(seen) == IF seen["DecideST"] = "none" THEN "planWait" ELSE Execute(seen)
FromApply(seen) == IF seen["ApplyPatchST"] = "none" THEN "apply" ELSE FromDecide(seen)
FromCompile(seen) == IF seen["CompileST"] = "none" THEN "compile" ELSE FromApply(seen)

Flow == [reopen |-> "read", compile |-> "compiled", apply |-> "applied",
         planWait |-> "planOps", planOps |-> "bridge", planClear |-> "planRun",
         planRun |-> "decide", decide |-> "decided", save |-> "saved",
         saved |-> "sbx", succeed |-> "succeedEvt", budget |-> "fail",
         fail |-> "failEvt"]
After(w) == LET e == exec[w] IN
  CASE e.pc = "compiled" -> FromApply(e.seen)
    [] e.pc = "applied" -> FromDecide(e.seen)
    [] e.pc = "decided" -> Execute(e.seen)
    [] OTHER -> Flow[e.pc]

\* retry_count is raised by a statement of its own; because the second one
\* carries the count it may take the row out of a terminal status.
RaiseRetryCount(w) ==
  /\ Start(w, "reopen") /\ Mem(w, "run")
  /\ row' = [row EXCEPT !.retryCount = @ + 1]
  /\ UNCHANGED <<steps, receipts, patched, gateVars, taskVars, opsVars, deaths>>

Reopen(w) ==
  /\ Inside(w, "reopen") /\ Mem(w, "ok")
  /\ row' = [row EXCEPT !.status = Settle(@, "repairing", TRUE), !.nextAction = "NONE"]
  /\ UNCHANGED <<steps, receipts, patched, gateVars, taskVars, opsVars, deaths>>

\* getRun, load and getRunSteps.
ReadCheckpoints(w) ==
  /\ Start(w, "read")
  /\ exec' = [exec EXCEPT ![w].seen = steps, ![w].pc = FromCompile(steps)]
  /\ UNCHANGED <<runVars, gateVars, taskVars, opsVars, deaths>>

\* The updates of the row between the steps, and of the catch; they may be
\* written again after a crash, and say the same.
RowAfter(w, p) ==
  CASE p = "compiled" -> SetLastStep(row, "CompileST")
    [] p = "applied" -> SetLastStep(row, "ApplyPatchST")
    [] p = "planWait" -> SetStatus(row, "waiting_input")
    [] p = "planOps" -> SetNextAction(row, "APPROVE_PLAN")
    [] p = "planClear" -> SetNextAction(row, "null")
    [] p = "planRun" -> SetStatus(row, "running")
    [] p = "decided" -> SetLastStep(row, "DecideST")
    [] p = "saved" -> SetLastStep(row, "ExecuteST")
    [] p = "succeed" -> SetStatus(row, "succeeded")
    [] p = "fail" -> SetFailure(row, "retries_exceeded", exec[w].err, "REPAIR")

WriteRow(w) ==
  /\ \E p \in {"compiled", "applied", "planWait", "planOps", "planClear", "planRun",
               "decided", "saved", "succeed", "fail"} :
       Start(w, p) /\ row' = RowAfter(w, p)
  /\ Goto(w, After(w))
  /\ UNCHANGED <<steps, receipts, patched, gateVars, taskVars, opsVars, deaths>>

\* compile, decide: their rows, or an error.
Produce(w, p, s) ==
  /\ Start(w, p)
  /\ \/ steps' = [steps EXCEPT ![s] = "ok"] /\ Mem(w, "ok")
     \/ UNCHANGED steps /\ Mem(w, "err")
  /\ UNCHANGED <<row, receipts, patched, gateVars, taskVars, opsVars, deaths>>

\* applyPatch: a failure leaves what was patched before it.
ApplyPatch(w) ==
  /\ Start(w, "apply")
  /\ \/ steps' = [steps EXCEPT !["ApplyPatchST"] = "ok"] /\ patched' = TRUE /\ Mem(w, "ok")
     \/ patched' \in {patched, TRUE} /\ UNCHANGED steps /\ Mem(w, "err")
  /\ UNCHANGED <<row, receipts, gateVars, taskVars, opsVars, deaths>>
-----------------------------------------------------------------------------
\* waitForPlanApproval(steps, intentId, ...): the bridge sends to the run.
Bridge(w) ==
  /\ Start(w, "bridge") /\ Goto(w, "prompt")
  /\ mail' = IF approvals THEN [mail EXCEPT !["run"] = TRUE] ELSE mail
  /\ UNCHANGED <<runVars, approved, approvals, gate, escalated, taskVars,
                 opsVars, deaths>>

\* wasPromptEmitted and openHumanGate; the row may be there from the run.
OpenGate(w) ==
  /\ Start(w, "prompt") /\ Goto(w, "recv")
  /\ gate' = TRUE
  /\ UNCHANGED <<runVars, approved, approvals, mail, escalated, taskVars,
                 opsVars, deaths>>

\* Mutant: the mailbox of the run's own workflow.
ReceiveForRun(w) ==
  /\ Start(w, "recv") /\ Goto(w, IF mail["run"] THEN "planClear" ELSE "escalate")
  /\ mail' = [mail EXCEPT !["run"] = FALSE]
  /\ UNCHANGED <<runVars, approved, approvals, gate, escalated, taskVars,
                 opsVars, deaths>>
\* Mutant: no timeout.
ReceiveWaits(w) ==
  /\ Start(w, "recv") /\ mail[w] /\ Goto(w, "planClear")
  /\ mail' = [mail EXCEPT ![w] = FALSE]
  /\ UNCHANGED <<runVars, approved, approvals, gate, escalated, taskVars,
                 opsVars, deaths>>

\* DBOS.recv: the mailbox of the executing workflow, or the timeout.
Receive(w) ==
  /\ Start(w, "recv") /\ Goto(w, IF mail[w] THEN "planClear" ELSE "escalate")
  /\ mail' = [mail EXCEPT ![w] = FALSE]
  /\ UNCHANGED <<runVars, approved, approvals, gate, escalated, taskVars,
                 opsVars, deaths>>

\* enqueueEscalation under the id of run and gate; then approve says no.
Escalate(w) ==
  /\ Start(w, "escalate") /\ Throw(w, "rejected")
  /\ escalated' = TRUE
  /\ UNCHANGED <<runVars, approved, approvals, mail, gate, taskVars, opsVars, deaths>>
-----------------------------------------------------------------------------
\* buildTasks with the template that is registered now, and the budgets.
BuildTasks(w) ==
  /\ Start(w, "build")
  /\ \/ exec' = [exec EXCEPT ![w].pc = "start", ![w].tmpl = IF hot THEN "hot" ELSE "cold"]
     \/ Budgeted /\ Throw(w, "budget")
  /\ UNCHANGED <<runVars, gateVars, taskVars, opsVars, deaths>>

Children(w) == {child[<<t, exec[w].tmpl>>] : t \in Tasks}

\* startTaskWorkflow: the workflow id is the task key, a second start finds
\* the first, finished or not.
StartTask(w) ==
  /\ Start(w, "start")
  /\ \/ \E t \in Tasks :
          /\ child[<<t, exec[w].tmpl>>] = "none"
          /\ child' = [child EXCEPT ![<<t, exec[w].tmpl>>] = "queued"]
          /\ UNCHANGED exec
     \/ "none" \notin Children(w) /\ Goto(w, "join") /\ UNCHANGED child
  /\ UNCHANGED <<runVars, gateVars, hot, opsVars, deaths>>

Join(w) ==
  /\ Start(w, "join")
  /\ \/ "threw" \in Children(w) /\ Throw(w, "step")
     \/ Children(w) \subseteq {"ok", "failed"} /\ Goto(w, "save")
     \/ Children(w) \subseteq {"ok", "failed"} /\ Budgeted /\ Throw(w, "budget")
  /\ UNCHANGED <<runVars, gateVars, taskVars, opsVars, deaths>>

\* saveExecuteStep: the receipt with its duplicate check, then the row.
SaveReceipt(w) ==
  /\ Start(w, "save")
  /\ receipts' = receipts + 1
  /\ Mem(w, IF receipts > 0 /\ "failed" \notin Children(w) THEN "err" ELSE "run")
  /\ UNCHANGED <<row, steps, patched, gateVars, taskVars, opsVars, deaths>>

SaveExecuteRow(w) ==
  /\ Inside(w, "save") /\ Mem(w, "ok")
  /\ steps' = [steps EXCEPT !["ExecuteST"] = IF "failed" \in Children(w) THEN "bad" ELSE "ok"]
  /\ UNCHANGED <<row, receipts, patched, gateVars, taskVars, opsVars, deaths>>

\* Mutant: what the merged result says is not looked at.
IgnoreExecution(w) ==
  /\ Start(w, "sbx") /\ Goto(w, "succeed")
  /\ UNCHANGED <<runVars, gateVars, taskVars, opsVars, deaths>>

\* The error code of the checkpoint or of the merged result.
CheckExecution(w) ==
  /\ Start(w, "sbx")
  /\ IF exec[w].seen["ExecuteST"] = "bad" \/ "failed" \in Children(w)
       THEN Throw(w, "sbx") ELSE Goto(w, "succeed")
  /\ UNCHANGED <<runVars, gateVars, taskVars, opsVars, deaths>>

\* The status event and, in the catch, the budget artifact.
EmitEvent(w) ==
  /\ \/ Start(w, "budget") /\ Goto(w, "fail")
     \/ \E p \in {"succeedEvt", "failEvt"} : Start(w, p) /\ Goto(w, "end")
  /\ UNCHANGED <<runVars, gateVars, taskVars, opsVars, deaths>>
-----------------------------------------------------------------------------
\* The outcome of a step is recorded; wall-clock budgets are checked then.
Record(w) ==
  /\ exec[w].live /\ exec[w].mem \in {"ok", "err"}
  /\ \/ exec[w].mem = "ok" /\ Goto(w, After(w))
     \/ /\ exec[w].mem = "ok" /\ Budgeted
        /\ exec[w].pc \in {"compile", "apply", "decide"} /\ Throw(w, "budget")
     \/ exec[w].mem = "err" /\ Throw(w, "step")
  /\ UNCHANGED <<runVars, gateVars, taskVars, opsVars, deaths>>

Finish(w) ==
  /\ exec[w].live /\ exec[w].pc = "end"
  /\ exec' = [exec EXCEPT ![w].live = FALSE,
                          ![w].db = IF exec[w].err = "null" THEN "SUCCESS" ELSE "ERROR"]
  /\ UNCHANGED <<runVars, gateVars, taskVars, opsVars, deaths>>

\* Mutant: a cancelled repair leaves the row to whoever resumes it.
StopQuietly(w) ==
  /\ exec[w].live /\ exec[w].db = "CANCELLED" /\ exec[w].mem = "none"
  /\ exec' = [exec EXCEPT ![w].live = FALSE, ![w].db = "ERROR"]
  /\ UNCHANGED <<runVars, gateVars, taskVars, opsVars, deaths>>

\* A step throws DBOSWorkflowCancelledError: the catch writes the row, unless
\* it is the catch's own step that threw.
StopCancelled(w) ==
  /\ exec[w].live /\ exec[w].db = "CANCELLED" /\ exec[w].mem = "none"
  /\ exec' = [exec EXCEPT ![w].live = FALSE]
  /\ row' = IF exec[w].pc \in CatchSteps THEN row
            ELSE SetFailure(row, "canceled", "canceled", "NONE")
  /\ UNCHANGED <<steps, receipts, patched, gateVars, taskVars, opsVars, deaths>>

Dequeue(w) ==
  /\ exec[w].db = "ENQUEUED"
  /\ exec' = [exec EXCEPT ![w].db = "PENDING", ![w].live = TRUE]
  /\ UNCHANGED <<runVars, gateVars, taskVars, opsVars, deaths>>

Recover(w) ==
  /\ exec[w].db = "PENDING" /\ ~exec[w].live
  /\ exec' = IF exec[w].attempts < MaxRecovery
               THEN [exec EXCEPT ![w].attempts = @ + 1, ![w].live = TRUE]
               ELSE [exec EXCEPT ![w].db = "MAX_RECOVERY_ATTEMPTS_EXCEEDED"]
  /\ UNCHANGED <<runVars, gateVars, taskVars, opsVars, deaths>>

Crash(w) ==
  /\ exec[w].live /\ ops + deaths < MaxTroubles /\ deaths' = deaths + 1
  /\ exec' = [exec EXCEPT ![w].live = FALSE, ![w].mem = "none"]
  /\ UNCHANGED <<runVars, gateVars, taskVars, opsVars>>

TaskEnds ==
  /\ \E k \in Keys, s \in {"ok", "failed", "threw"} :
       child[k] = "queued" /\ child' = [child EXCEPT ![k] = s]
  /\ UNCHANGED <<runVars, gateVars, hot, exec, opsVars, deaths>>

\* scripts/sbx-template-build.ts: later task keys name the new template.
RegisterTemplate ==
  /\ ~hot /\ hot' = TRUE
  /\ UNCHANGED <<runVars, gateVars, child, exec, opsVars, deaths>>
-----------------------------------------------------------------------------
\* POST /api/runs/:id/retry: the status is read, then the workflow is started
\* under its fixed id; if there is one already nothing happens.
Retry ==
  /\ row.status \in {"failed", "retries_exceeded"}
  /\ exec["repair"].db = "absent" /\ exec' = [exec EXCEPT !["repair"].db = "ENQUEUED"]
  /\ UNCHANGED <<runVars, gateVars, taskVars, opsVars, deaths>>

\* A reply to the gate or an approval of the plan; either sends its message to
\* run.workflow_id.  (What happens between their checks and the send does not
\* matter: nobody reads that mailbox any more.)
Answer ==
  /\ \/ gate /\ row.status = "waiting_input" /\ UNCHANGED approvals
     \/ row.status \notin TerminalStatus /\ approvals' = TRUE
  /\ mail' = [mail EXCEPT !["run"] = TRUE]
  /\ UNCHANGED <<runVars, approved, gate, escalated, taskVars, exec, opsVars, deaths>>
-----------------------------------------------------------------------------
\* cancelWorkflow, resumeWorkflow, forkWorkflow: the status is read ...
CanOp(op, w) ==
  CASE op = "cancel" -> exec[w].db \in {"PENDING", "ENQUEUED"}
    [] op = "resume" -> exec[w].db \in {"CANCELLED", "ENQUEUED"}
    [] op = "fork" -> w = "repair" /\ exec[w].db \in ForkFrom /\ exec["fork"].db = "absent"

AskOp(o) ==
  /\ operator[o].at = "idle" /\ ops + deaths < MaxTroubles /\ ops' = ops + 1
  /\ \E op \in Ops, w \in Executors :
       CanOp(op, w) /\ operator' = [operator EXCEPT ![o] =
                         [at |-> "act", op |-> op, on |-> w]]
  /\ UNCHANGED <<runVars, gateVars, taskVars, exec, audit, ghosts, deaths>>

\* ... DBOS does it: nothing to a workflow that has ended; a fork gets the
\* recorded steps before stepN, of which three choices are told apart ...
DbosDoes(op, w) ==
  LET over == exec[w].db \in {"SUCCESS", "ERROR"} IN
  CASE op = "cancel" ->
         exec' = IF over THEN exec ELSE [exec EXCEPT ![w].db = "CANCELLED"]
    [] op = "resume" ->
         exec' = IF over THEN exec
                 ELSE [exec EXCEPT ![w].db = "ENQUEUED", ![w].attempts = 0]
    [] op = "fork" ->
         \E e \in {NoExecutor, [NoExecutor EXCEPT !.pc = "read"],
                   [exec[w] EXCEPT !.live = FALSE, !.mem = "none", !.attempts = 0]} :
           exec' = IF exec["fork"].db = "absent" /\ (e.pc = "reopen" \/ exec[w].pc # "reopen")
                     THEN [exec EXCEPT !["fork"] = [e EXCEPT !.db = "ENQUEUED"]]
                     ELSE exec

DoOp(o) ==
  /\ operator[o].at = "act" /\ operator' = [operator EXCEPT ![o].at = "audit"]
  /\ DbosDoes(operator[o].op, operator[o].on)
  /\ UNCHANGED <<runVars, gateVars, taskVars, audit, ghosts, ops, deaths>>

\* ... and persistOpIntent makes up an intent and a run for the artifact.
PersistOpIntent(o) ==
  /\ operator[o].at = "audit" /\ operator' = [operator EXCEPT ![o] = Idle]
  /\ ghosts' = ghosts \cup {operator[o].on}
  /\ audit' = audit \cup {[op |-> operator[o].op, on |-> operator[o].on]}
  /\ UNCHANGED <<runVars, gateVars, taskVars, exec, ops, deaths>>

LoseOp(o) ==
  /\ operator[o].at # "idle" /\ operator' = [operator EXCEPT ![o] = Idle]
  /\ ops + deaths < MaxTroubles /\ deaths' = deaths + 1
  /\ UNCHANGED <<runVars, gateVars, taskVars, exec, audit, ghosts, ops>>
-----------------------------------------------------------------------------
Step(w) ==
  \/ RaiseRetryCount(w) \/ Reopen(w) \/ ReadCheckpoints(w) \/ WriteRow(w)
  \/ Produce(w, "compile", "CompileST") \/ Produce(w, "decide", "DecideST")
  \/ ApplyPatch(w) \/ Bridge(w) \/ OpenGate(w) \/ Receive(w) \/ Escalate(w)
  \/ BuildTasks(w) \/ StartTask(w) \/ Join(w) \/ SaveReceipt(w) \/ SaveExecuteRow(w)
  \/ CheckExecution(w) \/ EmitEvent(w) \/ Record(w) \/ Finish(w) \/ StopCancelled(w)
Scheduler(w) == Dequeue(w) \/ Recover(w)
Operate(o) == AskOp(o) \/ DoOp(o) \/ PersistOpIntent(o) \/ LoseOp(o)

Next ==
  \/ \E w \in Executors : Step(w) \/ Scheduler(w) \/ Crash(w)
  \/ TaskEnds \/ RegisterTemplate \/ Retry \/ Answer
  \/ \E o \in Operators : Operate(o)

\* Workers and queues go on; nobody has to answer, retry or operate.
Spec ==
  /\ Init /\ [][Next]_vars
  /\ \A w \in Executors : WF_vars(Step(w)) /\ WF_vars(Scheduler(w))
  /\ WF_vars(TaskEnds)
-----------------------------------------------------------------------------
Executing == {"build", "start", "join", "save", "saved"}
Succeeding == {"succeed", "succeedEvt"}
Ended == {"SUCCESS", "ERROR"}
Unforked == exec["fork"].db = "absent"

\* Where an executor is, what it holds in memory and what DBOS says of it.
PlaceInv(w) ==
  LET e == exec[w] IN
  /\ e.mem = "run" => e.pc \in {"reopen", "save"}
  /\ e.mem \in {"ok", "err"} => e.pc \in {"reopen", "compile", "apply", "decide", "save"}
  /\ e.pc \in CatchSteps \ {"end"} => e.err # "null"
  /\ e.err # "null" => e.pc \in CatchSteps
  /\ e.live => e.db \in Open \cup {"CANCELLED"}
  /\ e.db \in Ended => e.pc = "end" /\ (e.db = "SUCCESS" <=> e.err = "null")

\* No answer reaches a repair, so it is behind the plan gate only by a row of
\* DecideST, which the run wrote after its yes.
ApprovalInv ==
  /\ steps["DecideST"] # "none" => approved
  /\ \A w \in Executors :
       /\ ~mail[w] /\ exec[w].pc \notin {"planClear", "planRun", "decide", "decided"}
       /\ exec[w].seen["DecideST"] # "none" => approved
       /\ exec[w].pc \in Executing \cup Succeeding \cup {"sbx"} => approved

\* A repair and its forks execute only a plan that the run's own workflow was
\* given a yes for: a repair that has to ask again is never let through, since
\* no answer reaches it.
RepairKeepsApproval ==
  /\ ApprovalInv
  /\ (\E k \in Keys : child[k] # "none") => approved

AllGood == \E m \in Templates : \A t \in Tasks : child[<<t, m>>] = "ok"
Joined(w) == Children(w) \subseteq {"ok", "failed"}
Merged(w) == steps["ExecuteST"] = IF "failed" \in Children(w) THEN "bad" ELSE "ok"

\* The ExecuteST row rests on results that are all there.
ResultInv ==
  /\ steps["ExecuteST"] = "ok" => AllGood
  /\ \A w \in Executors :
       /\ exec[w].pc \in Executing => exec[w].seen["ExecuteST"] = "none"
       /\ exec[w].pc \in {"save", "saved"} => Joined(w)
       /\ exec[w].pc = "sbx" /\ exec[w].seen["ExecuteST"] # "bad" => Joined(w)

\* While nobody forked it, the repair alone writes the row and the steps.
OutcomeInv ==
  LET e == exec["repair"] IN
  Unforked =>
    /\ e.seen["ExecuteST"] \in {"none", steps["ExecuteST"]}
    /\ (e.pc = "save" /\ e.mem = "ok") \/ e.pc = "saved" => Merged("repair")
    /\ e.pc = "sbx" /\ e.seen["ExecuteST"] # "bad" => Merged("repair")
    /\ e.pc \in Succeeding => steps["ExecuteST"] = "ok"
    /\ row.status = "succeeded" =>
         /\ e.pc \in {"succeedEvt", "end"} /\ steps["ExecuteST"] = "ok"
    /\ e.pc = "failEvt" \/ (e.pc = "end" /\ e.err # "null") => row.status = "retries_exceeded"
    /\ e.pc = "succeedEvt" \/ (e.pc = "end" /\ e.err = "null") =>
         row.status = "succeeded" \/ (row.status = "canceled" /\ ops > 0)

\* What DBOS recorded of a repair nobody forked is what the row says; a
\* success rests on the ExecuteST row and on every task's good result.
RepairOutcome ==
  /\ TypeOK /\ (\A w \in Executors : PlaceInv(w)) /\ ResultInv /\ OutcomeInv
  /\ Unforked =>
    /\ exec["repair"].db = "ERROR" => row.status = "retries_exceeded"
    /\ exec["repair"].db = "SUCCESS" =>
         \/ row.status = "succeeded"
         \/ row.status = "canceled" /\ ops > 0
    /\ row.status = "succeeded" => steps["ExecuteST"] = "ok" /\ AllGood

\* A cancel is in the audit or about to be, unless a server died.
Told(w) ==
  \/ \E a \in audit : a.op = "cancel" /\ a.on = w
  \/ \E o \in Operators :
       operator[o].at = "audit" /\ operator[o].op = "cancel" /\ operator[o].on = w
  \/ deaths > 0

\* Whoever took the run out of a terminal status has still to put it into one,
\* and DBOS has not closed the book on them.
OpenInv ==
  /\ \A o \in Operators : operator[o].at # "idle" => ops > 0
  /\ \A w \in Executors : exec[w].db = "CANCELLED" => ops > 0 /\ Told(w)
  /\ row.status \notin TerminalStatus =>
       \E w \in Executors : /\ exec[w].db \notin Ended \cup {"absent"}
                            /\ exec[w].pc \notin {"succeedEvt", "failEvt", "end"}

\* A run is left in an open status only while somebody works on it, when
\* recovery was given up, or when an operator cancelled the repair while no
\* worker had it, which the audit tells unless a server died.
OpenIsExplained ==
  /\ OpenInv
  /\ row.status \notin TerminalStatus =>
       \E w \in Executors :
         \/ exec[w].db \in Open \cup {"MAX_RECOVERY_ATTEMPTS_EXCEEDED"} \/ exec[w].live
         \/ exec[w].db = "CANCELLED" /\ Told(w)

\* Every repair comes to rest, although nobody can answer its gate.
RepairSettles == \A w \in Executors : exec[w].db \in Open ~> exec[w].db \notin Open
=============================================================================
