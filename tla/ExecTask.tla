------------------------------ MODULE ExecTask ------------------------------
(***************************************************************************)
(* The execution of a decided plan: the part of runCoreSteps from          *)
(* buildTasks to the ExecuteST row, and IntentWorkflow.taskWorkflow, the   *)
(* workflow each task runs in, with its sandbox, its three attempts and    *)
(* the evidence it leaves (src/workflow/steps/execute.step.ts,             *)
(* save-artifacts.step.ts, run-intent.steps.ts, src/sbx).                  *)
(*                                                                         *)
(* A task workflow is one DBOS step.  Its attempts are numbered by DBOS in *)
(* memory: a step executed again after a crash counts from 1 and runs the  *)
(* command again, while rows of the earlier execution are there under the  *)
(* same numbers.  The tables refuse evidence that differs, and that costs  *)
(* an attempt.                                                             *)
(*                                                                         *)
(* What a command prints, measures and leaves behind is abstracted to its  *)
(* error code and one "mark" that differs between executions that measured *)
(* different things.                                                       *)
(***************************************************************************)
EXTENDS Naturals, FiniteSets, SequencesExt

CONSTANTS
  Plans,        \* what DecideST may have decided: sequences of tests
  Commands,     \* what the test command may be; only the mock looks at it
  Providers,    \* configured sandboxes: "mock", "e2b", "microsandbox"
  Words,        \* failures whose words may turn up in what is printed
  MaxFanout, MaxRetries,  \* the run's budget
  SbxConcurrency,         \* concurrency of sbxQ
  MaxCrashes,             \* bound on the deaths of the worker, by plan
  MaxLost                 \* bound on the kills that fail, by plan, for each task

ASSUME LimitsAssumption == {MaxFanout, MaxRetries, SbxConcurrency} \subseteq Nat
                         /\ MaxCrashes \in [Plans -> Nat]
                         /\ MaxLost \in [Plans -> Nat]

\* A decision without tests makes one task (buildTasks), so no plan is empty.
ASSUME PlansAssumption == \A p \in Plans : p \in Seq(Range(p)) /\ p # <<>>

VARIABLES
  provider, command,  \* configuration, and the decision's command
  crashes,   \* deaths of the worker so far
  flaky,     \* the mock's module counter; lost with the process
  main,      \* the run's workflow: at, the tests, the keys of its tasks
  receipts,  \* seen_count of the ExecuteST receipt
  stepRow,   \* the ExecuteST row of app.run_steps
  wf,        \* the task workflows in DBOS, with what they returned
  work,      \* what the worker holds of a task
  boxes,     \* sandboxes that were created and not killed
  lost,      \* for the properties: sandboxes whose kill failed
  artifacts, \* app.artifacts, by task and attempt
  sbxRuns,   \* app.sbx_runs, by task and attempt
  history    \* for the properties: attempts of a task that met a failure

runVars == <<provider, command>>
mainVars == <<main, receipts, stepRow>>
taskVars == <<wf, work, boxes, lost, flaky, artifacts, sbxRuns, history>>
vars == <<runVars, mainVars, taskVars, crashes>>
-----------------------------------------------------------------------------
\* Measurements.  Only executions in different lives of the worker are ever
\* compared, and then for equality.
Marks == IF crashes = 0 THEN {1} ELSE {1, 2}

MaxAttempts == 3
Attempts == 1..MaxAttempts

\* A task key is the hash of the request: within one run, of the test.
Keys == UNION {Range(p) : p \in Plans}

RetryableInfra == {"BOOT_FAIL", "NET_FAIL", "UPLOAD_FAIL", "DOWNLOAD_FAIL"}
ErrCodes == RetryableInfra \cup {"NONE", "TIMEOUT", "OOM", "CMD_NONZERO"}
Outputs == [code : ErrCodes, mark : {1, 2}]
None == [code |-> "none", mark |-> 0]

\* normalizeProviderFailure: the first family of words found in what was
\* printed decides, then the exit code.
WordOrder == <<"TIMEOUT", "OOM", "NET_FAIL", "UPLOAD_FAIL", "DOWNLOAD_FAIL">>
Classify(words, nonzero) ==
  LET found == {i \in DOMAIN WordOrder : WordOrder[i] \in words} IN
  IF found # {} THEN WordOrder[Min(found)]
  ELSE IF nonzero THEN "CMD_NONZERO" ELSE "BOOT_FAIL"

\* SaveArtifactsStepImpl.execute: the index, which names the rest by hash,
\* and then the rest in the order of their URIs.
Items(out) ==
  IF out.code = "NONE"
    THEN <<<<"index", out>>, <<"file", "NONE">>, <<"metrics", out.mark>>, <<"stdout", "NONE">>>>
    ELSE <<<<"index", out>>, <<"metrics", out.mark>>, <<"stdout", out.code>>>>
ItemSet == ({"index"} \X Outputs) \cup ({"file", "stdout"} \X ErrCodes)
             \cup ({"metrics"} \X {1, 2})

Idle == [st |-> "idle", attempt |-> 0, box |-> FALSE,
         out |-> None, next |-> 1]
NoEnd == [st |-> "none", attempt |-> 0, out |-> None]

MainSteps == {"build", "start", "join", "receipt", "row", "done", "failed"}

TypeOK ==
  /\ crashes \in 0..MaxCrashes[main.tests]
  /\ flaky \in 0..2 /\ receipts \in Nat
  /\ main \in [at : MainSteps, tests : Plans, keys : Seq(Keys), started : Nat]
  /\ stepRow \in [code : ErrCodes \cup {"none"}, attempt : 0..MaxAttempts]
  /\ wf \in [Keys -> [st : {"none", "queued", "running", "done", "error"},
                      attempt : 0..MaxAttempts, out : Outputs \cup {None}]]
  /\ work \in [Keys -> [st : {"idle", "boot", "run", "kill", "artifacts", "row",
                              "return", "throw"},
                        attempt : 0..MaxAttempts, box : BOOLEAN, out : Outputs \cup {None},
                        next : 1..5]]
  /\ boxes \in [Keys -> Nat] /\ lost \in [Keys -> Nat]
  /\ sbxRuns \in [Keys -> [Attempts -> Outputs \cup {None}]]
  /\ artifacts \in [Keys -> [Attempts -> Seq(ItemSet)]]
  /\ history \in [Keys -> SUBSET Attempts]

Init ==
  /\ provider \in Providers
  /\ command \in IF provider = "mock" THEN Commands ELSE {"tests"}
  /\ crashes = 0 /\ flaky = 0
  /\ \E p \in Plans :
       main = [at |-> "build", tests |-> p, keys |-> <<>>, started |-> 0]
  /\ receipts = 0 /\ stepRow = [code |-> "none", attempt |-> 0]
  /\ wf = [k \in Keys |-> NoEnd] /\ work = [k \in Keys |-> Idle]
  /\ boxes = [k \in Keys |-> 0] /\ lost = [k \in Keys |-> 0]
  /\ artifacts = [k \in Keys |-> [a \in Attempts |-> <<>>]]
  /\ sbxRuns = [k \in Keys |-> [a \in Attempts |-> None]]
  /\ history = [k \in Keys |-> {}]
-----------------------------------------------------------------------------
(* The run's workflow. *)

MainTo(at) == main' = [main EXCEPT !.at = at]

\* buildTasks and the fan-out budget.
BuildTasks ==
  /\ main.at = "build"
  /\ IF Len(main.tests) > MaxFanout
       THEN MainTo("failed")
       ELSE main' = [main EXCEPT !.at = "start", !.keys = main.tests]
  /\ UNCHANGED <<runVars, taskVars, receipts, stepRow, crashes>>

\* startTaskWorkflow: a workflow that is there is joined, not started.
StartTask ==
  LET k == main.keys[main.started + 1] IN
  /\ main.at = "start"
  /\ wf' = IF wf[k].st = "none" THEN [wf EXCEPT ![k].st = "queued"] ELSE wf
  /\ main' = [main EXCEPT !.started = @ + 1,
                !.at = IF main.started + 1 = Len(main.keys) THEN "join" ELSE "start"]
  /\ UNCHANGED <<runVars, receipts, stepRow, work, boxes, lost, flaky, artifacts, sbxRuns,
                 history, crashes>>

\* Mutant: the last task decides.
LastError(ends) == ends[Len(ends)].out.code

\* mergeResults: the first error in the order of the tasks, and the highest
\* attempt.
FirstError(ends) ==
  LET bad == {i \in DOMAIN ends : ends[i].out.code # "NONE"} IN
  IF bad = {} THEN "NONE" ELSE ends[Min(bad)].out.code
MaxAttempt(ends) == Max({e.attempt : e \in Range(ends)})
Merged(ends) == [code |-> FirstError(ends), attempt |-> MaxAttempt(ends)]

Ends == [i \in DOMAIN main.keys |-> wf[main.keys[i]]]

\* Mutant: a rejected handle is waited for.
JoinDone ==
  /\ main.at = "join"
  /\ \A e \in Range(Ends) : e.st = "done"
  /\ MainTo("receipt")
  /\ UNCHANGED <<runVars, taskVars, receipts, stepRow, crashes>>

\* Promise.all over the handles: the first rejection wins, whatever the other
\* tasks do; then the budget on retries.
Join ==
  /\ main.at = "join"
  /\ \/ /\ \E e \in Range(Ends) : e.st = "error"
        /\ MainTo("failed")
     \/ /\ \A e \in Range(Ends) : e.st = "done"
        /\ MainTo(IF Merged(Ends).attempt - 1 > MaxRetries THEN "failed" ELSE "receipt")
  /\ UNCHANGED <<runVars, taskVars, receipts, stepRow, crashes>>

\* persistExecuteReceipt: a success that was receipted before is refused.
SaveReceipt ==
  /\ main.at = "receipt"
  /\ receipts' = receipts + 1
  /\ MainTo(IF receipts > 0 /\ Merged(Ends).code = "NONE" THEN "failed" ELSE "row")
  /\ UNCHANGED <<runVars, taskVars, stepRow, crashes>>

\* insertRunStep, and the throw of runCoreSteps on a task's error.
SaveStep ==
  /\ main.at = "row"
  /\ stepRow' = Merged(Ends)
  /\ MainTo(IF Merged(Ends).code = "NONE" THEN "done" ELSE "failed")
  /\ UNCHANGED <<runVars, taskVars, receipts, crashes>>
-----------------------------------------------------------------------------
(* A task. *)

mainRest == <<runVars, mainVars, crashes>>

\* sbxQ hands a task to the worker.
Dequeue(k) ==
  /\ wf[k].st = "queued"
  /\ Cardinality({j \in Keys : wf[j].st = "running"}) < SbxConcurrency
  /\ wf' = [wf EXCEPT ![k].st = "running"]
  /\ UNCHANGED <<mainRest, work, boxes, lost, flaky, artifacts, sbxRuns, history>>

\* DBOS executes the step: a first attempt, or one after an attempt that threw.
Begin(k) ==
  /\ wf[k].st = "running"
  /\ work[k].st \in {"idle", "throw"} /\ work[k].attempt < MaxAttempts
  /\ work' = [work EXCEPT ![k] = [Idle EXCEPT !.st = "boot", !.attempt = work[k].attempt + 1]]
  /\ UNCHANGED <<mainRest, wf, boxes, lost, flaky, artifacts, sbxRuns, history>>

\* The result of port.run, and the statement that follows it.
Yield(k, out, next) == work' = [work EXCEPT ![k].out = out, ![k].st = next]

\* MockProvider.run: what it returns depends on the command alone, save for
\* the flaky command, which fails twice per process.
MockCode(c) ==
  CASE c = "INFRA_FAIL" -> "BOOT_FAIL"
    [] c = "FAIL_ME" -> "CMD_NONZERO"
    [] c = "FLAKY_INFRA_FAIL" /\ flaky < 2 -> "BOOT_FAIL"
    [] c = "TIMEOUT_ME" -> "TIMEOUT"
    [] OTHER -> "NONE"

RunMock(k) ==
  /\ work[k].st = "boot" /\ provider = "mock"
  /\ Yield(k, [code |-> MockCode(command), mark |-> 1], "artifacts")
  /\ flaky' = IF command = "FLAKY_INFRA_FAIL" /\ flaky < 2 THEN flaky + 1 ELSE flaky
  /\ UNCHANGED <<mainRest, wf, boxes, lost, artifacts, sbxRuns, history>>

\* MicrosandboxProvider.run.
RunMicro(k) ==
  /\ work[k].st = "boot" /\ provider = "microsandbox"
  /\ \E m \in Marks : Yield(k, [code |-> "BOOT_FAIL", mark |-> m], "artifacts")
  /\ UNCHANGED <<mainRest, wf, boxes, lost, flaky, artifacts, sbxRuns, history>>

Texts == {w \in SUBSET Words : Cardinality(w) <= 2}

\* E2BProvider.run, Sandbox.create.  filesIn of ExecuteST is empty.
Boot(k) ==
  /\ work[k].st = "boot" /\ provider = "e2b"
  /\ \/ /\ boxes' = [boxes EXCEPT ![k] = @ + 1]
        /\ work' = [work EXCEPT ![k].st = "run", ![k].box = TRUE]
     \/ /\ \E w \in Texts, m \in Marks :
             Yield(k, [code |-> Classify(w, FALSE), mark |-> m], "artifacts")
        /\ UNCHANGED boxes
  /\ UNCHANGED <<mainRest, wf, lost, flaky, artifacts, sbxRuns, history>>

\* The command ends, or its call throws.
RunCommand(k) ==
  /\ work[k].st = "run"
  /\ \E m \in Marks :
       \/ Yield(k, [code |-> "NONE", mark |-> m], "kill")
       \/ \E w \in Texts, nonzero \in BOOLEAN :
            Yield(k, [code |-> Classify(w, nonzero), mark |-> m], "kill")
  /\ UNCHANGED <<mainRest, wf, boxes, lost, flaky, artifacts, sbxRuns, history>>

\* Mutant: an error leaves the function before the sandbox is killed.
KillOnSuccess(k) ==
  /\ work[k].st = "kill"
  /\ work' = [work EXCEPT ![k].st = "artifacts", ![k].box = FALSE]
  /\ boxes' = IF work[k].out.code = "NONE" THEN [boxes EXCEPT ![k] = @ - 1] ELSE boxes
  /\ UNCHANGED <<mainRest, wf, lost, flaky, artifacts, sbxRuns, history>>

\* The finally of E2BProvider.run.  A kill that fails is ignored: the attempt
\* goes on, and the sandbox stays until E2B ends it at its timeoutMs, which
\* nothing here takes note of.
Kill(k) ==
  /\ work[k].st = "kill"
  /\ work' = [work EXCEPT ![k].st = "artifacts", ![k].box = FALSE]
  /\ \/ boxes' = [boxes EXCEPT ![k] = @ - 1] /\ UNCHANGED lost
     \/ /\ lost[k] < MaxLost[main.tests]
        /\ lost' = [lost EXCEPT ![k] = @ + 1] /\ UNCHANGED boxes
  /\ UNCHANGED <<mainRest, wf, flaky, artifacts, sbxRuns, history>>

Throw(k) == work' = [work EXCEPT ![k].st = "throw"]

\* Mutant: the tables' DO NOTHING is taken for success.
SaveArtifactAnyway(k) ==
  LET a == work[k].attempt
      items == Items(work[k].out)
      i == work[k].next IN
  /\ work[k].st = "artifacts"
  /\ artifacts' = IF i > Len(artifacts[k][a])
                    THEN [artifacts EXCEPT ![k][a] = Append(@, items[i])] ELSE artifacts
  /\ work' = [work EXCEPT ![k].next = i + 1,
                ![k].st = IF i = Len(items) THEN "row" ELSE "artifacts"]
  /\ UNCHANGED <<mainRest, wf, boxes, lost, flaky, sbxRuns, history>>

\* insertArtifact: the next item under its index, which must be free or hold
\* the same.
SaveArtifact(k) ==
  LET a == work[k].attempt
      items == Items(work[k].out)
      i == work[k].next
      stored == artifacts[k][a] IN
  /\ work[k].st = "artifacts"
  /\ IF i <= Len(stored) /\ stored[i] # items[i]
       THEN Throw(k) /\ UNCHANGED artifacts
       ELSE /\ artifacts' = IF i > Len(stored)
                              THEN [artifacts EXCEPT ![k][a] = Append(@, items[i])]
                              ELSE artifacts
            /\ work' = [work EXCEPT ![k].next = i + 1,
                          ![k].st = IF i = Len(items) THEN "row" ELSE "artifacts"]
  /\ UNCHANGED <<mainRest, wf, boxes, lost, flaky, sbxRuns, history>>

\* Mutant: the row of every attempt is the first attempt's.
SaveSbxRunOnce(k) ==
  LET out == work[k].out IN
  /\ work[k].st = "row"
  /\ IF sbxRuns[k][1] \notin {None, out}
       THEN Throw(k) /\ UNCHANGED <<sbxRuns, history>>
       ELSE /\ sbxRuns' = [sbxRuns EXCEPT ![k][1] = out]
            /\ IF out.code \in RetryableInfra
                 THEN Throw(k) /\ history' = [history EXCEPT ![k] = @ \cup {work[k].attempt}]
                 ELSE work' = [work EXCEPT ![k].st = "return"] /\ UNCHANGED history
  /\ UNCHANGED <<mainRest, wf, boxes, lost, flaky, artifacts>>

\* insertSbxRun, and what executeTask makes of the result.
SaveSbxRun(k) ==
  LET a == work[k].attempt
      out == work[k].out IN
  /\ work[k].st = "row"
  /\ IF sbxRuns[k][a] \notin {None, out}
       THEN Throw(k) /\ UNCHANGED <<sbxRuns, history>>
       ELSE /\ sbxRuns' = [sbxRuns EXCEPT ![k][a] = out]
            /\ IF out.code \in RetryableInfra
                 THEN Throw(k) /\ history' = [history EXCEPT ![k] = @ \cup {a}]
                 ELSE work' = [work EXCEPT ![k].st = "return"] /\ UNCHANGED history
  /\ UNCHANGED <<mainRest, wf, boxes, lost, flaky, artifacts>>

\* DBOS records what the step returned, or the error of the last attempt.
Record(k) ==
  /\ \/ /\ work[k].st = "return"
        /\ wf' = [wf EXCEPT ![k] =
                    [st |-> "done", attempt |-> work[k].attempt, out |-> work[k].out]]
     \/ /\ work[k].st = "throw" /\ work[k].attempt = MaxAttempts
        /\ wf' = [wf EXCEPT ![k] = [NoEnd EXCEPT !.st = "error"]]
  /\ work' = [work EXCEPT ![k] = Idle]
  /\ UNCHANGED <<mainRest, boxes, lost, flaky, artifacts, sbxRuns, history>>
-----------------------------------------------------------------------------
\* The worker dies and DBOS recovers what it was executing: a task's step from
\* its first attempt, saveExecuteStep from its receipt.
Crash ==
  /\ crashes < MaxCrashes[main.tests]
  /\ \/ \E k \in Keys : work[k].st # "idle"
     \/ main.at = "row"
  /\ crashes' = crashes + 1
  /\ flaky' = 0
  /\ history' = [k \in Keys |-> IF work[k].st = "idle" THEN history[k]
                                ELSE history[k] \cup {work[k].attempt}]
  /\ work' = [k \in Keys |-> Idle]
  /\ main' = [main EXCEPT !.at = IF @ = "row" THEN "receipt" ELSE @]
  /\ UNCHANGED <<runVars, receipts, stepRow, wf, boxes, lost, artifacts, sbxRuns>>

TaskStep(k) ==
  \/ Begin(k) \/ RunMock(k) \/ RunMicro(k) \/ Boot(k) \/ RunCommand(k) \/ Kill(k)
  \/ SaveArtifact(k) \/ SaveSbxRun(k) \/ Record(k)

MainStep == BuildTasks \/ StartTask \/ Join \/ SaveReceipt \/ SaveStep

Next ==
  \/ BuildTasks \/ StartTask \/ Join \/ SaveReceipt \/ SaveStep \/ Crash
  \/ \E k \in Keys :
       \/ Dequeue(k) \/ Begin(k) \/ RunMock(k) \/ RunMicro(k) \/ Boot(k) \/ RunCommand(k)
       \/ Kill(k) \/ SaveArtifact(k) \/ SaveSbxRun(k) \/ Record(k)

\* The worker goes on with whatever it can: DBOS dispatches the queue and
\* executes steps as long as it is up.
Fairness ==
  /\ WF_vars(MainStep)
  /\ \A k \in Keys : WF_vars(Dequeue(k)) /\ WF_vars(TaskStep(k))

Spec == Init /\ [][Next]_vars /\ Fairness
-----------------------------------------------------------------------------
(* Correctness. *)

\* What the worker holds of a task agrees with what DBOS knows of it, with its
\* sandbox, and with how far the attempt has got.
WorkOf(k) ==
  LET w == work[k] IN
  /\ w.st # "idle" => wf[k].st = "running" /\ w.attempt \in Attempts
  /\ w.st = "idle" => w.attempt = 0
  /\ w.box <=> w.st \in {"run", "kill"}
  /\ w.box => boxes[k] > 0
  /\ w.st \in {"boot", "run", "kill"} => w.next = 1
  /\ w.st \in {"kill", "artifacts", "row", "return"} => w.out \in Outputs
  /\ w.st = "artifacts" => w.next <= Len(Items(w.out))
  /\ wf[k].st = "done" => wf[k].attempt \in Attempts /\ wf[k].out \in Outputs

\* The rows that an attempt has found or left: the items it is past, all of
\* them before its own row, and that row before it returns.
RowsOf(k) ==
  LET w == work[k]
      stored == artifacts[k][w.attempt] IN
  /\ w.st = "artifacts" => /\ w.next <= Len(stored) + 1
                           /\ \A i \in 1..(w.next - 1) : stored[i] = Items(w.out)[i]
  /\ w.st \in {"row", "return"} => stored = Items(w.out)
  /\ w.st = "return" => sbxRuns[k][w.attempt] = w.out

\* The artifacts of an attempt are those of one execution, and of the one that
\* has the row; a workflow that returned has its row, under the attempt and
\* with the result it returned (persistExecuteRun before the return).
EvidenceOf(k) ==
  /\ \A a \in Attempts :
       /\ sbxRuns[k][a] # None => artifacts[k][a] = Items(sbxRuns[k][a])
       /\ \E o \in Outputs : IsPrefix(artifacts[k][a], Items(o))
  /\ wf[k].st = "done" => sbxRuns[k][wf[k].attempt] = wf[k].out

EvidenceInv == TypeOK /\ \A k \in Keys : WorkOf(k) /\ RowsOf(k) /\ EvidenceOf(k)

\* An attempt that is over, or has left rows that are not its successor's, is
\* one that met a failure; so only such a one can refuse evidence.
CauseOf(k) ==
  LET w == work[k] IN
  /\ w.st # "idle" => 1..(w.attempt - 1) \subseteq history[k]
  /\ w.st = "throw" => w.attempt \in history[k]
  /\ \A a \in Attempts : artifacts[k][a] # <<>> =>
       \/ a \in history[k]
       \/ wf[k].st = "done" /\ wf[k].attempt = a
       \/ /\ w.attempt = a /\ w.st \in {"artifacts", "row", "return"}
          /\ IsPrefix(artifacts[k][a], Items(w.out))

\* A task whose workflow failed met a failure of the infrastructure or a crash
\* in every one of its attempts; evidence refused for anything else never
\* uses up an attempt ("retryable infra").
FailedForCause ==
  \A k \in Keys : CauseOf(k) /\ (wf[k].st = "error" => history[k] = Attempts)

\* The run's workflow goes on only over tasks that are done for good.
Joined ==
  /\ main.keys # <<>>
  /\ \A i \in DOMAIN main.keys : wf[main.keys[i]].st = "done"
  /\ Merged(Ends).attempt <= MaxRetries + 1

MainInv ==
  /\ main.at = "build" => main.started = 0
  /\ main.at = "start" => main.started < Len(main.keys)
  /\ main.at = "join" => main.keys # <<>>
  /\ main.at \in {"receipt", "row", "done"} => Joined
  /\ stepRow.code # "none" => /\ main.at \in {"done", "failed"}
                              /\ Joined /\ stepRow = Merged(Ends)

\* The ExecuteST row says of the tasks what they left evidence of: an error
\* exactly if one of them has a row with an error under the attempt it
\* returned, and no task still at work.
ExecutedIsEvidenced ==
  stepRow.code # "none" =>
    /\ \A k \in Range(main.keys) : wf[k].st = "done"
    /\ stepRow.code = "NONE" <=>
         \A k \in Range(main.keys) : sbxRuns[k][wf[k].attempt].code = "NONE"
    /\ \E k \in Range(main.keys) : stepRow.attempt = wf[k].attempt
    /\ stepRow.attempt <= MaxRetries + 1

\* A task and a run fail by what the evidence says, and by nothing else.
EvidenceDecides == MainInv /\ FailedForCause /\ ExecutedIsEvidenced

\* Whatever an attempt comes to, E2BProvider.run asks for the end of its
\* sandbox: one that is there and not in use was left by a kill that failed or
\* by a death of the worker.  What failing kills can leave is bounded by the
\* attempts: three for each life of the worker.
SandboxesReleased ==
  \A k \in Keys :
    /\ boxes[k] <= crashes + lost[k] + (IF work[k].box THEN 1 ELSE 0)
    /\ boxes[k] <= MaxAttempts * (crashes + 1)

\* Every task that was started comes to an end, also when its run has failed
\* by another task, and the run itself comes to rest.
TasksSettle ==
  /\ \A k \in Keys : wf[k].st = "queued" ~> wf[k].st \in {"done", "error"}
  /\ <>(main.at \in {"done", "failed"})
=============================================================================
