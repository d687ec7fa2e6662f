------------------------------ MODULE IntentRun ------------------------------
(***************************************************************************)
(* One run of IntentWorkflow.run (src/workflow/wf/run-intent.wf.ts), as    *)
(* DBOS executes it: durably, one recorded step after the other, on a      *)
(* worker that may die between or inside steps, while operators cancel and *)
(* resume the workflow and people answer its gates.                        *)
(*                                                                         *)
(* DURABLE EXECUTION.  pc is the first step whose output is not in the     *)
(* workflow's operation log; the code before it is deterministic, so a     *)
(* recovered execution replays the log and stands at pc again.  mem is     *)
(* what the executor holds of that step and a crash takes away:            *)
(*   "none"  the step has not been started,                                *)
(*   "run"   some of the step's statements have been executed,             *)
(*   "ok"    its body returned, "err" its body threw; not recorded yet.    *)
(* A step with an effect on the application database or the file system is *)
(* thus executed at least once: Crash between its body and Record runs the *)
(* body again.  DBOS's own operations (setEvent, recv, send, startWorkflow)*)
(* write their effect and their log entry in one transaction and are one   *)
(* action, and so are steps that only read.                                *)
(*                                                                         *)
(* A step's own errors (a provider error, a patch that does not match, the *)
(* duplicate-receipt check) are modelled; an outage of the database is the *)
(* worker dying.  Approvals in parallel are another module's matter.       *)
(***************************************************************************)
EXTENDS RunRow, Sequences

CONSTANTS
  Tasks,        \* the sandbox tasks buildTasks returns
  Patches,      \* the number of patches in the compiled plan
  Clients,      \* people and systems that answer gates, once each
  AskGate,      \* runtimeFlags.openAskGate: the intent asks a question first
  Budgeted,     \* the run has a budget, so its wall-clock checks can throw
  MaxRecovery,  \* DBOS's maxRecoveryAttempts (10 in the code)
  MaxCancels    \* bound on the cancels operators issue

ASSUME PatchesAssumption == Patches \in Nat
ASSUME FlagsAssumption == AskGate \in BOOLEAN /\ Budgeted \in BOOLEAN
ASSUME BoundsAssumption == MaxRecovery \in Nat /\ MaxCancels \in Nat

VARIABLES
  dbos,      \* dbos.workflow_status.status
  live,      \* an executor holds the workflow in memory
  attempts,  \* recovery attempts DBOS has counted
  cancels,   \* cancels issued so far (bounded by MaxCancels)
  pc, mem,   \* the durable and the volatile position, see above
  err,       \* the error the workflow function is unwinding with
  at,        \* the gate awaitHuman works on
  row,       \* app.runs
  steps,     \* step ids with a row in app.run_steps
  patched,   \* how many files, in plan order, hold their postimage
  receipts,  \* seen_count of the ExecuteST receipt, 0 when absent
  budgetLog, \* the BUDGET artifact exists
  child,     \* the task workflows
  opened,    \* gates with a row in app.human_gates
  prompted,  \* gates whose prompt event is set
  reply,     \* what recv returned for a gate (recorded in the log)
  result,    \* the gates' result (and audit) events
  decision,  \* the plan gate's decision event
  escalated, \* the escalation workflow of the plan gate exists
  mail,      \* messages sent to the workflow's topic of a gate
  approvals, \* app.plan_approvals has the run
  client     \* the requests people have under way

execVars == <<dbos, live, attempts, cancels>>
posVars == <<pc, mem, err, at>>
workVars == <<steps, patched, receipts, budgetLog, child>>
gateVars == <<opened, prompted, reply, result, decision, escalated>>
humanVars == <<mail, approvals, client>>
vars == <<execVars, posVars, row, workVars, gateVars, humanVars>>
-----------------------------------------------------------------------------
Gates == {"ask", "plan"}

\* What a reply says: "other" is any payload with no recognised choice.
Payloads == {"yes", "no", "other"}

\* Mutant: whatever is not a no is a yes.
ChoiceDefaultsToYes(payload) == IF payload = "no" THEN "no" ELSE "yes"

\* resolveApprovalChoice: whatever is not a yes is a no.
Choice(payload) == IF payload = "yes" THEN "yes" ELSE "no"

WorkflowStatus == {"ENQUEUED", "PENDING", "SUCCESS", "ERROR", "CANCELLED",
                   "MAX_RECOVERY_ATTEMPTS_EXCEEDED"}

\* The steps of awaitHuman and approve, between a wait and what follows it.
GateSteps == {"seen", "open", "prompt", "recv", "result", "escalate", "verdict"}

\* The steps inside the try whose catch rolls the patches back.
TrySteps == {"planWait", "planOps", "bridge", "send", "planClear", "planRun",
             "decide", "decided", "build", "start", "join", "save", "saved"}

\* The steps of the outer catch: an exception here leaves the workflow.
CatchSteps == {"budget", "fail", "failEvt"}

MainSteps == {"begin", "compile", "compiled", "askWait", "askRun", "apply",
              "applied", "succeed", "succeedEvt"}

Positions == MainSteps \cup GateSteps \cup TrySteps \cup CatchSteps
               \cup {"rollback", "end"}

\* The steps that only write the run's row.
RowSteps == {"begin", "compiled", "askWait", "askRun", "applied", "planWait",
             "planOps", "planClear", "planRun", "decided", "saved", "succeed",
             "fail"}

\* The steps after whose return the wall clock (and other budgets) is checked.
ClockedSteps == {"compile", "apply", "decide"}

\* The order of the steps, where it does not depend on what they return.
Flow == [begin |-> "compile", compile |-> "compiled",
         askWait |-> "seen", askRun |-> "apply", apply |-> "applied",
         applied |-> "planWait", planWait |-> "planOps", planOps |-> "bridge",
         open |-> "prompt", planClear |-> "planRun", planRun |-> "decide",
         decide |-> "decided", decided |-> "build", save |-> "saved",
         saved |-> "succeed", succeed |-> "succeedEvt",
         budget |-> "fail", fail |-> "failEvt"]

SomeTask(s) == \E t \in Tasks : child[t] = s

Client == [st : {"idle", "replying", "approving", "done"},
           gate : Gates, payload : Payloads]

TypeOK ==
  /\ dbos \in WorkflowStatus /\ live \in BOOLEAN
  /\ attempts \in Nat /\ cancels \in Nat
  /\ pc \in Positions /\ mem \in {"none", "run", "ok", "err"}
  /\ err \in Errors /\ at \in Gates
  /\ row \in RunRows
  /\ steps \subseteq StepIds /\ patched \in 0..Patches /\ receipts \in Nat
  /\ budgetLog \in BOOLEAN
  /\ child \in [Tasks -> {"none", "queued", "ok", "failed", "threw"}]
  /\ opened \subseteq Gates /\ prompted \subseteq Gates
  /\ reply \in [Gates -> Payloads \cup {"none", "timeout"}]
  /\ result \in [Gates -> {"none", "RECEIVED", "TIMED_OUT"}]
  /\ decision \in {"none", "yes", "no"} /\ escalated \in BOOLEAN
  /\ mail \in [Gates -> Seq(Payloads)] /\ approvals \in BOOLEAN
  /\ client \in [Clients -> Client]

\* startIntentRun has inserted the row and enqueued the workflow.
Init ==
  /\ dbos = "ENQUEUED" /\ live = FALSE /\ attempts = 0 /\ cancels = 0
  /\ pc = "begin" /\ mem = "none" /\ err = "null" /\ at = "ask"
  /\ row = NewRun
  /\ steps = {} /\ patched = 0 /\ receipts = 0 /\ budgetLog = FALSE
  /\ child = [t \in Tasks |-> "none"]
  /\ opened = {} /\ prompted = {}
  /\ reply = [g \in Gates |-> "none"]
  /\ result = [g \in Gates |-> "none"]
  /\ decision = "none" /\ escalated = FALSE
  /\ mail = [g \in Gates |-> <<>>] /\ approvals = FALSE
  /\ client = [c \in Clients |-> [st |-> "idle", gate |-> "plan", payload |-> "yes"]]
-----------------------------------------------------------------------------
(***************************************************************************)
(* DBOS lets a step start only while the workflow is not cancelled; a step *)
(* that has started goes on to its end.                                    *)
(***************************************************************************)
Start(s) == live /\ pc = s /\ mem = "none" /\ dbos # "CANCELLED"
Inside(s) == Start(s) \/ (live /\ pc = s /\ mem = "run")

\* The error handlers: the outer catch logs a budget violation first.
Catch(e) == IF e = "budget" THEN "budget" ELSE "fail"

\* Mutant: the gate's exception is raised outside the try.
ThrowPastRollback(e) ==
  /\ err' = e
  /\ pc' = IF pc \in TrySteps THEN "rollback" ELSE Catch(e)

Throw(e) ==
  /\ err' = e
  /\ pc' = IF pc \in TrySteps \cup {"verdict"} THEN "rollback" ELSE Catch(e)

Goto(p) == pc' = p /\ UNCHANGED err
-----------------------------------------------------------------------------
\* runCoreSteps, waitForPlanApproval and the handlers: their row updates.
RowAfter(p) ==
  CASE p = "begin" -> SetStatus(row, "running")
    [] p = "compiled" -> SetLastStep(row, "CompileST")
    [] p \in {"askWait", "planWait"} -> SetStatus(row, "waiting_input")
    [] p \in {"askRun", "planRun"} -> SetStatus(row, "running")
    [] p = "applied" -> SetLastStep(row, "ApplyPatchST")
    [] p = "planOps" -> SetNextAction(row, "APPROVE_PLAN")
    [] p = "planClear" -> SetNextAction(row, "null")
    [] p = "decided" -> SetLastStep(row, "DecideST")
    [] p = "saved" -> SetLastStep(row, "ExecuteST")
    [] p = "succeed" -> SetStatus(row, "succeeded")
    [] p = "fail" -> SetFailure(row, "retries_exceeded", err, "REPAIR")

WriteRow ==
  /\ \E p \in RowSteps : Start(p) /\ row' = RowAfter(p)
  /\ mem' = "ok"
  /\ UNCHANGED <<execVars, pc, err, at, workVars, gateVars, humanVars>>

\* compile and decide: their rows in run_steps, or an error of the provider.
Produce(s, id) ==
  /\ Start(s)
  /\ \/ steps' = steps \cup {id} /\ mem' = "ok"
     \/ UNCHANGED steps /\ mem' = "err"
  /\ UNCHANGED <<execVars, pc, err, at, row, patched, receipts, budgetLog,
                 child, gateVars, humanVars>>

Compile == Produce("compile", "CompileST")
Decide == Produce("decide", "DecideST")

\* applyPatch: one file after the other; a file that matches its postimage is
\* skipped, one that matches neither image makes the step throw.
ApplyPatch ==
  /\ Inside("apply")
  /\ \/ patched < Patches /\ patched' = patched + 1 /\ mem' = "run" /\ UNCHANGED steps
     \/ patched < Patches /\ mem' = "err" /\ UNCHANGED <<patched, steps>>
     \/ /\ patched = Patches /\ mem' = "ok"
        /\ steps' = steps \cup {"ApplyPatchST"} /\ UNCHANGED patched
  /\ UNCHANGED <<execVars, pc, err, at, row, receipts, budgetLog, child,
                 gateVars, humanVars>>

\* rollbackAppliedPatches: in reverse order; a file somebody changed since
\* makes it throw.
Rollback ==
  /\ Inside("rollback")
  /\ \/ patched > 0 /\ patched' = patched - 1 /\ mem' = "run"
     \/ patched > 0 /\ mem' = "err" /\ UNCHANGED patched
     \/ patched = 0 /\ mem' = "ok" /\ UNCHANGED patched
  /\ UNCHANGED <<execVars, pc, err, at, row, steps, receipts, budgetLog, child,
                 gateVars, humanVars>>
-----------------------------------------------------------------------------
\* wasPromptEmitted, and the choice of the code that follows it.
CheckPrompt ==
  /\ Start("seen")
  /\ Goto(IF at \in prompted THEN "recv" ELSE "open")
  /\ UNCHANGED <<execVars, mem, at, row, workVars, gateVars, humanVars>>

\* openHumanGate: INSERT ... ON CONFLICT DO NOTHING.
OpenGate ==
  /\ Start("open")
  /\ opened' = opened \cup {at} /\ mem' = "ok"
  /\ UNCHANGED <<execVars, pc, err, at, row, workVars, prompted, reply, result,
                 decision, escalated, humanVars>>

EmitPrompt ==
  /\ Start("prompt")
  /\ prompted' = prompted \cup {at} /\ Goto("recv")
  /\ UNCHANGED <<execVars, mem, at, row, workVars, opened, reply, result,
                 decision, escalated, humanVars>>

\* Mutant: recv waits without a timeout.
ReceiveWaits ==
  /\ Start("recv") /\ mail[at] # <<>>
  /\ reply' = [reply EXCEPT ![at] = Head(mail[at])]
  /\ mail' = [mail EXCEPT ![at] = Tail(@)]
  /\ Goto("result")
  /\ UNCHANGED <<execVars, mem, at, row, workVars, opened, prompted, result,
                 decision, escalated, approvals, client>>

\* recv takes the oldest message of the gate's topic, or times out without one.
Receive ==
  /\ Start("recv")
  /\ \/ /\ mail[at] # <<>>
        /\ reply' = [reply EXCEPT ![at] = Head(mail[at])]
        /\ mail' = [mail EXCEPT ![at] = Tail(@)]
     \/ /\ mail[at] = <<>>
        /\ reply' = [reply EXCEPT ![at] = "timeout"]
        /\ UNCHANGED mail
  /\ Goto("result")
  /\ UNCHANGED <<execVars, mem, at, row, workVars, opened, prompted, result,
                 decision, escalated, approvals, client>>

TimedOut == reply[at] = "timeout"

\* Mutants: a timeout is not escalated; a question that timed out is skipped.
EmitResultQuietly ==
  /\ Start("result")
  /\ result' = [result EXCEPT ![at] = IF TimedOut THEN "TIMED_OUT" ELSE "RECEIVED"]
  /\ Goto(IF at = "ask" THEN "askRun" ELSE "verdict")
  /\ UNCHANGED <<execVars, mem, at, row, workVars, opened, prompted, reply,
                 decision, escalated, humanVars>>

\* The result and audit events, and where the caller goes on.
EmitResult ==
  /\ Start("result")
  /\ result' = [result EXCEPT ![at] = IF TimedOut THEN "TIMED_OUT" ELSE "RECEIVED"]
  /\ CASE at = "ask" /\ TimedOut -> Throw("ask_timeout")
       [] at = "ask" /\ ~TimedOut -> Goto("askRun")
       [] at = "plan" -> Goto(IF TimedOut THEN "escalate" ELSE "verdict")
  /\ UNCHANGED <<execVars, mem, at, row, workVars, opened, prompted, reply,
                 decision, escalated, humanVars>>

\* enqueueEscalation starts the workflow esc:<workflow>:<gate>.
Escalate ==
  /\ Start("escalate")
  /\ escalated' = TRUE /\ Goto("verdict")
  /\ UNCHANGED <<execVars, mem, at, row, workVars, opened, prompted, reply,
                 result, decision, humanVars>>

\* Mutant: a reply that is neither yes nor no is asked for again.
VerdictAsksAgain ==
  /\ Start("verdict")
  /\ decision' = IF TimedOut THEN "no" ELSE Choice(reply["plan"])
  /\ CASE decision' = "yes" -> Goto("planClear")
       [] decision' = "no" /\ reply["plan"] = "other" -> Goto("recv")
       [] OTHER -> Throw("rejected")
  /\ UNCHANGED <<execVars, mem, at, row, workVars, opened, prompted, reply,
                 result, escalated, humanVars>>

\* approve's decision event, and waitForPlanApproval's test of it.
Verdict ==
  /\ Start("verdict")
  /\ decision' = IF TimedOut THEN "no" ELSE Choice(reply["plan"])
  /\ IF decision' = "yes" THEN Goto("planClear") ELSE Throw("rejected")
  /\ UNCHANGED <<execVars, mem, at, row, workVars, opened, prompted, reply,
                 result, escalated, humanVars>>

\* The compat bridge: isPlanApproved, then a reply the workflow sends itself.
Bridge ==
  /\ Start("bridge")
  /\ at' = "plan" /\ Goto(IF approvals THEN "send" ELSE "seen")
  /\ UNCHANGED <<execVars, mem, row, workVars, gateVars, humanVars>>

SendToSelf ==
  /\ Start("send")
  /\ mail' = [mail EXCEPT !["plan"] = Append(@, "yes")] /\ Goto("seen")
  /\ UNCHANGED <<execVars, mem, at, row, workVars, gateVars, approvals, client>>
-----------------------------------------------------------------------------
\* buildTasks, and the fan-out and wall-clock budgets after it.
BuildTasks ==
  /\ Start("build")
  /\ Goto("start") \/ (Budgeted /\ Throw("budget"))
  /\ UNCHANGED <<execVars, mem, at, row, workVars, gateVars, humanVars>>

\* startTask, keyed by the task: starting one again finds the existing one.
StartTask ==
  /\ Start("start")
  /\ \/ \E t \in Tasks :
          /\ child[t] = "none" /\ child' = [child EXCEPT ![t] = "queued"]
          /\ UNCHANGED <<pc, err>>
     \/ ~SomeTask("none") /\ Goto("join") /\ UNCHANGED child
  /\ UNCHANGED <<execVars, mem, at, row, steps, patched, receipts, budgetLog,
                 gateVars, humanVars>>

\* A task workflow ends: with a result, with a result that carries an error
\* code, or with an exception (a retryable infrastructure error to the end).
TaskEnds ==
  /\ \E t \in Tasks, s \in {"ok", "failed", "threw"} :
       child[t] = "queued" /\ child' = [child EXCEPT ![t] = s]
  /\ UNCHANGED <<execVars, posVars, row, steps, patched, receipts, budgetLog,
                 gateVars, humanVars>>

\* Promise.all(getResult): rejects with the first exception, else waits for all.
Join ==
  /\ Start("join")
  /\ \/ SomeTask("threw") /\ Throw("step")
     \/ /\ \A t \in Tasks : child[t] \in {"ok", "failed"}
        /\ Goto("save") \/ (Budgeted /\ Throw("budget"))
  /\ UNCHANGED <<execVars, mem, at, row, workVars, gateVars, humanVars>>

\* Mutant: the merged result fails only when every task did.
SbxAllFailed == \A t \in Tasks : child[t] = "failed"

\* mergeResults: the error code of the whole is that of a failed task.
SbxFailed == SomeTask("failed")

\* saveExecuteStep: the receipt's upsert, its duplicate check, then the row.
SaveReceipt ==
  /\ Start("save")
  /\ receipts' = receipts + 1
  /\ mem' = IF receipts > 0 /\ ~SbxFailed THEN "err" ELSE "run"
  /\ UNCHANGED <<execVars, pc, err, at, row, steps, patched, budgetLog, child,
                 gateVars, humanVars>>

SaveExecuteRow ==
  /\ live /\ pc = "save" /\ mem = "run"
  /\ steps' = steps \cup {"ExecuteST"} /\ mem' = "ok"
  /\ UNCHANGED <<execVars, pc, err, at, row, patched, receipts, budgetLog,
                 child, gateVars, humanVars>>

EmitBudgetArtifact ==
  /\ Start("budget")
  /\ budgetLog' = TRUE /\ mem' = "ok"
  /\ UNCHANGED <<execVars, pc, err, at, row, steps, patched, receipts, child,
                 gateVars, humanVars>>

\* Mutant: telemetry that fails makes the workflow fail.
EmitTerminalOrThrow ==
  /\ \/ Start("succeedEvt") /\ (Goto("end") \/ Throw("step"))
     \/ Start("failEvt") /\ Goto("end")
  /\ UNCHANGED <<execVars, mem, at, row, workVars, gateVars, humanVars>>

\* emitStatusEvent, last step of the workflow and of its outer catch.
EmitTerminal ==
  /\ Start("succeedEvt") \/ Start("failEvt")
  /\ Goto("end")
  /\ UNCHANGED <<execVars, mem, at, row, workVars, gateVars, humanVars>>
-----------------------------------------------------------------------------
(***************************************************************************)
(* The step's outcome is recorded and the workflow's code runs on: to the  *)
(* next step, or out of the step's block with an exception.                *)
(***************************************************************************)
Record ==
  /\ live /\ mem \in {"ok", "err"} /\ mem' = "none"
  /\ \/ /\ mem = "ok" /\ ~(pc = "saved" /\ SbxFailed)
        /\ Goto(CASE pc = "compiled" -> IF AskGate THEN "askWait" ELSE "apply"
                  [] pc = "rollback" -> Catch(err)
                  [] OTHER -> Flow[pc])
     \/ mem = "ok" /\ pc = "saved" /\ SbxFailed /\ Throw("sbx")
     \/ mem = "ok" /\ Budgeted /\ pc \in ClockedSteps /\ Throw("budget")
     \/ mem = "err" /\ Throw(IF pc = "rollback" THEN "rollback_failed" ELSE "step")
  /\ UNCHANGED <<execVars, at, row, workVars, gateVars, humanVars>>

\* Mutant: the outer catch does not throw the error again.
FinishQuietly ==
  /\ live /\ pc = "end" /\ dbos' = "SUCCESS" /\ live' = FALSE
  /\ UNCHANGED <<attempts, cancels, posVars, row, workVars, gateVars, humanVars>>

\* The workflow function returns or throws, and DBOS records its outcome.  A
\* cancel that lands here may be overwritten or may win (StopCancelled).
Finish ==
  /\ live /\ pc = "end"
  /\ dbos' = IF err = "null" THEN "SUCCESS" ELSE "ERROR"
  /\ live' = FALSE
  /\ UNCHANGED <<attempts, cancels, posVars, row, workVars, gateVars, humanVars>>

Dequeue ==
  /\ dbos = "ENQUEUED" /\ dbos' = "PENDING" /\ live' = TRUE
  /\ UNCHANGED <<attempts, cancels, posVars, row, workVars, gateVars, humanVars>>

\* The worker dies, or a chaos phase of hitl-gates.ts simulates it.
Crash ==
  /\ live /\ live' = FALSE /\ mem' = "none"
  /\ UNCHANGED <<dbos, attempts, cancels, pc, err, at, row, workVars, gateVars,
                 humanVars>>

Recover ==
  /\ ~live /\ dbos = "PENDING"
  /\ IF attempts < MaxRecovery
       THEN attempts' = attempts + 1 /\ live' = TRUE /\ UNCHANGED dbos
       ELSE dbos' = "MAX_RECOVERY_ATTEMPTS_EXCEEDED" /\ UNCHANGED <<attempts, live>>
  /\ UNCHANGED <<cancels, posVars, row, workVars, gateVars, humanVars>>

\* server/ops-api.ts cancelWorkflow; a workflow timeout has the same effect.
Cancel ==
  /\ dbos \in {"PENDING", "ENQUEUED"} /\ cancels < MaxCancels
  /\ dbos' = "CANCELLED" /\ cancels' = cancels + 1
  /\ UNCHANGED <<live, attempts, posVars, row, workVars, gateVars, humanVars>>

\* server/ops-api.ts resumeWorkflow: enqueued again, recovery count reset.
Resume ==
  /\ dbos = "CANCELLED" /\ dbos' = "ENQUEUED" /\ attempts' = 0
  /\ UNCHANGED <<live, cancels, posVars, row, workVars, gateVars, humanVars>>

(***************************************************************************)
(* A step throws DBOSWorkflowCancelledError.  So does the rollback of the  *)
(* inner catch; the outer catch writes the row outside of any step.  In    *)
(* the outer catch's own steps the exception leaves the workflow as is.    *)
(***************************************************************************)
StopCancelled ==
  /\ live /\ dbos = "CANCELLED" /\ mem = "none" /\ live' = FALSE
  /\ row' = IF pc \in CatchSteps \cup {"end"} THEN row
            ELSE SetFailure(row, "canceled", "canceled", "NONE")
  /\ UNCHANGED <<dbos, attempts, cancels, posVars, workVars, gateVars, humanVars>>
-----------------------------------------------------------------------------
\* server/ui-api.ts postReplyService: the checks, then (later) the send.
PostReply(c) ==
  /\ client[c].st = "idle" /\ row.status = "waiting_input"
  /\ \E g \in opened, p \in Payloads :
       client' = [client EXCEPT ![c] = [st |-> "replying", gate |-> g, payload |-> p]]
  /\ UNCHANGED <<execVars, posVars, row, workVars, gateVars, mail, approvals>>

\* POST approve-plan: the upsert, and forwardPlanApprovalSignalService's test
\* of the run it was given.
ApprovePlan(c) ==
  /\ client[c].st = "idle" /\ approvals' = TRUE
  /\ client' = [client EXCEPT ![c].st =
                  IF row.status \in TerminalStatus THEN "done" ELSE "approving"]
  /\ UNCHANGED <<execVars, posVars, row, workVars, gateVars, mail>>

\* Mutant: an approval that finds no gate goes to the question.
LatestGateOrAsk == IF "plan" \in opened THEN "plan" ELSE "ask"

\* findLatestGateByRunId, or the key the plan gate will have.
LatestGate == IF opened = {"ask"} THEN "ask" ELSE "plan"

SendMessage(c) ==
  /\ client[c].st \in {"replying", "approving"}
  /\ LET g == IF client[c].st = "replying" THEN client[c].gate ELSE LatestGate
         p == IF client[c].st = "replying" THEN client[c].payload ELSE "yes"
     IN mail' = [mail EXCEPT ![g] = Append(@, p)]
  /\ client' = [client EXCEPT ![c].st = "done"]
  /\ UNCHANGED <<execVars, posVars, row, workVars, gateVars, approvals>>
-----------------------------------------------------------------------------
Step ==
  \/ WriteRow \/ Compile \/ Decide \/ ApplyPatch \/ Rollback
  \/ CheckPrompt \/ OpenGate \/ EmitPrompt \/ Receive \/ EmitResult
  \/ Escalate \/ Verdict \/ Bridge \/ SendToSelf
  \/ BuildTasks \/ StartTask \/ Join \/ SaveReceipt \/ SaveExecuteRow
  \/ EmitBudgetArtifact \/ EmitTerminal \/ Record \/ Finish \/ StopCancelled

Scheduler == Dequeue \/ Recover

Environment ==
  \/ Crash \/ Cancel \/ Resume
  \/ \E c \in Clients : PostReply(c) \/ ApprovePlan(c) \/ SendMessage(c)

Next == Step \/ Scheduler \/ TaskEnds \/ Environment

Spec == Init /\ [][Next]_vars

(***************************************************************************)
(* The executor goes on while it lives, DBOS dequeues and recovers, and    *)
(* task workflows end.  Nothing obliges people to answer, workers to stay  *)
(* alive or operators to resume.                                           *)
(***************************************************************************)
FairSpec == Spec /\ WF_vars(Step) /\ WF_vars(Scheduler) /\ WF_vars(TaskEnds)
-----------------------------------------------------------------------------
Launched == {t \in Tasks : child[t] # "none"}

\* No task workflow exists unless a person's yes, and no default or timeout,
\* became the plan gate's decision (waitForPlanApproval before buildTasks).
ApprovalGuardsExecution ==
  Launched # {} => /\ reply["plan"] = "yes" /\ result["plan"] = "RECEIVED"
                   /\ decision = "yes"

\* A run shown as succeeded has its patches on disk, every task's good result
\* and its ExecuteST row, however often it was interrupted on the way.
SuccessIsComplete ==
  row.status = "succeeded" =>
    /\ \A t \in Tasks : child[t] = "ok"
    /\ patched = Patches /\ steps = StepIds

\* Once the plan gate was opened, a run that is given up has left none of its
\* patches behind, unless the rollback itself failed and the row says so.
FailureRollsBack ==
  row.status = "retries_exceeded" /\ row.error # "rollback_failed"
    /\ "plan" \in opened => patched = 0

\* The outcome DBOS records and the one the row shows agree; only a cancel may
\* still mark the row of a workflow that goes on to succeed.
OutcomesAgree ==
  /\ dbos = "ERROR" => row.status = "retries_exceeded" /\ row.nextAction = "REPAIR"
  /\ dbos = "SUCCESS" => \/ row.status = "succeeded"
                         \/ row.status = "canceled" /\ cancels > 0

\* A run that has come to its end says truly how: nothing of it is missing if it
\* succeeded, nothing left if it was given up, and row and DBOS agree.
EndsHonestly == SuccessIsComplete /\ FailureRollsBack /\ OutcomesAgree

\* A decision that rests on a timeout is a no, and its escalation is enqueued
\* by the time the decision can be read (approve's timeout branch).
TimeoutEscalates ==
  decision # "none" /\ result["plan"] = "TIMED_OUT" => decision = "no" /\ escalated

\* The files change only after the question the intent asks was answered; a
\* question that timed out leaves them alone (runCoreSteps, the ask gate).
AnswerPrecedesPatches ==
  AskGate /\ patched > 0 => result["ask"] = "RECEIVED"

\* An approval taken in by POST approve-plan has reached the plan gate's topic
\* by the time the workflow waits there: through the forwarded message or,
\* when it came before the gate, through the compat bridge.  (Not so behind
\* an ask gate, which is the latest gate until the plan gate is there, nor
\* for a resumed run, whose status turns approvals away.)
ApprovalReachesGate ==
  ~AskGate /\ cancels = 0 /\ live /\ pc = "recv" /\ at = "plan" /\ approvals
    /\ (\A c \in Clients : client[c].st # "approving") => mail["plan"] # <<>>

\* A terminal status is never followed by an open one.
TerminalSticky ==
  [][row.status \in TerminalStatus => row'.status \in TerminalStatus]_vars

\* What was decided at the plan gate stays decided, and so does the reply it
\* rests on, through crashes, cancels, resumes and late replies.
DecisionStable ==
  [][decision # "none" => /\ decision' = decision
                          /\ reply'["plan"] = reply["plan"]]_vars

\* Left alone, a run comes to rest: at a terminal status, or cancelled, or
\* given up by DBOS's recovery; it does not wait for a person for ever.
RunSettles ==
  <>[](\/ row.status \in TerminalStatus
      \/ dbos \in {"CANCELLED", "MAX_RECOVERY_ATTEMPTS_EXCEEDED"})

Contract == INSTANCE RunContract
  WITH status <- row.status, verdict <- decision, launched <- Launched

\* The run, with its steps, crashes and messages, keeps the contract.
KeepsContract == Contract!CSpec
-----------------------------------------------------------------------------
(***************************************************************************)
(* What the durable position tells about the rest of the state.  With      *)
(* TypeOK this is the inductive invariant of the proofs.                   *)
(***************************************************************************)
Approved == decision = "yes" /\ reply["plan"] = "yes" /\ result["plan"] = "RECEIVED"

AfterVerdict == {"planClear", "planRun", "decide", "decided", "build", "start",
                 "join", "save", "saved", "succeed", "succeedEvt"}

AfterThrow == {"rollback", "end"} \cup CatchSteps

\* The steps whose body and record are two actions, and those that can throw.
BodySteps == RowSteps \cup {"compile", "decide", "apply", "rollback", "open",
                            "save", "budget"}
FallibleSteps == {"compile", "decide", "apply", "rollback", "save"}

\* Whatever crashes and cancels did, the position in the log determines how
\* far the gates, the task workflows and the row have got.
PlaceInv ==
  /\ mem # "none" => pc \in BodySteps
  /\ mem = "err" => pc \in FallibleSteps
  /\ pc = "result" => reply[at] # "none"
  /\ pc \in {"escalate", "verdict"} =>
       at = "plan" /\ reply["plan"] # "none"
         /\ result["plan"] = (IF TimedOut THEN "TIMED_OUT" ELSE "RECEIVED")
  /\ pc = "escalate" => TimedOut
  /\ pc \in AfterVerdict => Approved
  /\ decision # "none" => pc \in AfterVerdict \cup AfterThrow
  /\ Launched # {} => Approved /\ pc \in {"start", "join", "save", "saved", "succeed",
                                         "succeedEvt"} \cup AfterThrow
  /\ pc \in {"join", "save", "saved", "succeed", "succeedEvt"} => ~SomeTask("none")
  /\ row.status = "succeeded" => pc \in {"succeed", "succeedEvt", "end"}
  /\ row.status \notin {"repairing", "failed"}

\* On the way to success: the last steps, and the end that no error led to.
Succeeding == pc \in {"succeed", "succeedEvt"} \/ (pc = "end" /\ err = "null")

\* Past ApplyPatchST and not unwinding; before it, up to the ask gate's answer.
PastApply == pc \in TrySteps \cup {"applied"} \/ (pc \in GateSteps /\ at = "plan")
               \/ Succeeding
AtQuestion == pc \in {"begin", "compile", "compiled", "askWait"}
                \/ (pc \in GateSteps /\ at = "ask")

\* The work of the steps that the position has left behind is there: nothing
\* but a rollback takes patches away, nothing takes rows and results away.
WorkInv ==
  /\ AtQuestion \/ pc \in {"askRun", "apply"} => at = "ask" /\ "plan" \notin opened
  /\ pc = "send" => at = "plan"
  /\ (pc = "compile" /\ mem = "ok") \/ pc \in {"compiled", "askWait", "askRun", "apply"}
       \/ (pc \in GateSteps /\ at = "ask") \/ PastApply => "CompileST" \in steps
  /\ (pc = "apply" /\ mem = "ok") \/ PastApply =>
       patched = Patches /\ "ApplyPatchST" \in steps
  /\ (pc = "decide" /\ mem = "ok") \/ pc \in {"decided", "build", "start", "join",
       "save", "saved"} \/ Succeeding => "DecideST" \in steps
  /\ (pc = "save" /\ mem = "ok") \/ pc = "saved" \/ Succeeding => "ExecuteST" \in steps
  /\ pc \in {"save", "saved"} => \A t \in Tasks : child[t] \in {"ok", "failed"}
  /\ Succeeding => \A t \in Tasks : child[t] = "ok"
  /\ pc = "rollback" /\ mem = "ok" => patched = 0

\* The error the workflow unwinds with, the row it leaves and what DBOS records
\* of it: a success that a cancel catches late is the one disagreement.
OutcomeInv ==
  /\ pc \notin AfterThrow => err = "null"
  /\ pc \in AfterThrow \ {"end"} => err # "null"
  /\ pc \in CatchSteps \cup {"end"} /\ err \notin {"null", "rollback_failed"}
       /\ "plan" \in opened => patched = 0
  /\ row.status = "retries_exceeded" =>
       pc \in {"fail", "failEvt", "end"} /\ err # "null" /\ row.error = err
  /\ (pc = "fail" /\ mem = "ok") \/ pc = "failEvt" \/ (pc = "end" /\ err # "null") =>
       row.status = "retries_exceeded" /\ row.nextAction = "REPAIR"
  /\ pc = "succeed" /\ mem = "ok" => row.status = "succeeded"
  /\ pc = "succeedEvt" \/ (pc = "end" /\ err = "null") =>
       row.status = "succeeded" \/ (row.status = "canceled" /\ cancels > 0)
  /\ row.status = "succeeded" => Succeeding
  /\ row.status = "canceled" => cancels > 0
  /\ dbos = "CANCELLED" => cancels > 0
  /\ dbos = "ERROR" => pc = "end" /\ err # "null"
  /\ dbos = "SUCCESS" => pc = "end" /\ err = "null"

\* What the gates' answers have led to, and which approvals are still on the
\* way to the plan gate before it takes its reply.
AnswerInv ==
  /\ pc = "verdict" /\ TimedOut => escalated
  /\ TimeoutEscalates
  /\ AskGate /\ (pc \in {"askRun", "apply"} \/ PastApply) => result["ask"] = "RECEIVED"
  /\ AtQuestion => patched = 0
  /\ AnswerPrecedesPatches
  /\ ~AskGate => ~(pc \in {"askWait", "askRun"} \/ (pc \in GateSteps /\ at = "ask"))
                   /\ opened \subseteq {"plan"}
  /\ ~AskGate /\ cancels = 0 /\ approvals
       /\ pc \in {"begin", "compile", "compiled", "apply", "applied", "planWait",
                  "planOps", "bridge", "send", "seen", "open", "prompt", "recv"}
       /\ (\A c \in Clients : client[c].st # "approving") => mail["plan"] # <<>>

IInv == TypeOK /\ PlaceInv /\ WorkInv /\ OutcomeInv /\ AnswerInv
-----------------------------------------------------------------------------
\* Statements of the project's documents that the code does not keep.

\* docs/adr/009-data-first-recipe-flywheel/02-patch-rollback.md:19: a failure
\* after the patches were applied rolls them back.
PostApplyFailureRollsBack ==
  row.status = "retries_exceeded" /\ row.error # "rollback_failed"
    /\ "ApplyPatchST" \in steps => patched = 0
=============================================================================
