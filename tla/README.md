# Verification of sisu-kodo

TLA+ models of the run engine of sisu-kodo, the TLC configurations that check
them on small instances, and proofs that TLAPS checks for every instance.  The
models follow the code under `src/` (paths below are relative to the
repository); where documents and code differ, the model is the code's and the
difference is listed under *Where documents and code differ*.

## The system

A run turns an intent into a plan, patches files of a workspace, asks people
for approval and executes tasks in sandboxes.  Every run is a DBOS workflow: a
TypeScript function whose steps are recorded in an operation log, so that a
worker that dies is replaced by one that replays the log.  Beside the log there
is the application database (`app.*`), which the steps write with SQL of their
own and which people, the user interface and the operators read.  Most of what
is hard about the program comes from these two not being one transaction.

| component | state | operations | talks to |
|---|---|---|---|
| Run row (`db/runRepo.ts`) | `app.runs`: status, last step, error, next action | status update with the terminal-stickiness rule, field updates | every workflow step, every service |
| Start and enqueue (`workflow/start-intent.ts`, `intent-enqueue.ts`, `queue-policy.ts`) | a row and a queued workflow per intent | insert row, enqueue, replay of a start | HTTP, DBOS queues |
| Intent workflow (`workflow/wf/run-intent.wf.ts`, `hitl-gates.ts`, `workflow/steps/*`, `workflow/dbos/*`) | operation log, `app.run_steps`, artifacts, events | compile, ask gate, apply patches, plan gate, decide, tasks, save, rollback, terminal handlers | everything below |
| Reversible patches (`workflow/patch/reversible.ts`, `db/patchHistoryRepo.ts`) | files of the workspace, `app.patch_history` | apply and roll back one patch, marks | patch step, rollback step |
| Gates and interaction ledger (`db/humanGateRepo.ts`, `server/ui-api.ts`, `engine-dbos.ts`) | `app.human_gates`, `app.human_interactions`, the workflow's mailbox | open, prompt, reply, external event, forwarded approval, `sendMessage` | people, the workflow |
| Plan approval (`db/planApprovalRepo.ts`, `server/http.ts`) | `app.plan_approvals` | upsert and forward | gate |
| Task execution (`execute.step.ts`, `sbx/*`, `db/sbxRunRepo.ts`) | `app.sbx_runs`, artifacts, receipts | one task workflow per task | intent workflow |
| Repair (`run-intent.wf.ts` `repairRunWorkflow`) | the row and steps of a failed run | retry from the first missing step | run row, steps |
| Ops control (`server/ops-api.ts`) | `dbos.workflow_status`, audit artifacts | cancel, resume, fork, listings | DBOS |
| OpenCode wrapper (`oc/*`, `compile.step.ts`, `decide.step.ts`) | sessions and cache in memory, `app.opencode_calls` | prompt with timeout, retry and rotation | CompileST, DecideST |
| Recipes and evaluation (`db/recipeRepo.ts`, `eval/*`) | recipe versions, fixtures, evaluation results | import, candidate, promote, evaluate | start, the registry board |
| Read models (`server/run-view.ts`, `gate-view.ts`, `ui-api.ts`, `lib/repro.ts`) | none | header, proofs, steps, gate, snapshot, put together from several queries | user interface |
| Sign-off board (`server/signoff-api.ts`) | none | verdict over tile files and triggers | user interface |
| HTTP (`server/http.ts`, `app/api`) | none | two routers and the older routes over the same services | every service |
| User interface (`app/page.tsx`, `components/*`) | what each window shows, requests in flight | poll, stream, answer, start, operate | HTTP |
| Custom engine (`workflow/engine-custom.ts`) | `app.workflow_runs`, marks | two phases under row locks | its own demo and tests |

What is hard, and what makes each part correct:

- **Intent workflow.**  A step's body and its record are two commits, so a step
  runs at least once; DBOS's own operations run exactly once.  Cancel is an
  exception of the next step and of the error handlers' steps too.  Correct: no
  task without a yes at the gate; success only with everything done; failure
  behind the gate leaves no patches; DBOS's outcome and the row agree; a
  terminal status and a decision stay; a run comes to rest on its own.
- **Reversible patches.**  Between a read of a file and its write the database
  is awaited; steps begin again after a crash; forks reuse the rows of the run.
  Correct: nothing that is not in the history is destroyed, rollback removes
  what the run wrote, replays converge.
- **Ledger.**  Drift check, insert and reselect are statements of their own,
  the send comes later and may be lost.  Correct: what is decided on is
  recorded, a key is delivered once, what was accepted is delivered, retries
  are never refused for rows that a lost request left behind.
- **Repair.**  A second workflow works on rows the first left, with another
  workflow id than the one people answer to.
  Correct: it executes only what people approved, says what DBOS says, and a run
  it leaves open can be accounted for.
- **Start.**  Two requests with one intent; a row without a workflow when the
  enqueue fails.
- **Tasks.**  A command runs at least once over insert-if-absent tables, and its
  attempts are numbered in memory.  Correct: evidence is of one execution, the
  outcome is what the evidence says, and no more sandboxes are left behind than
  deaths of the worker and failing kills account for.
- **OpenCode.**  A provider that may stay silent or answer too late; a cache in
  front of a ledger in front of it.  Correct: what is recorded is what the ledger
  says, and a call ends.
- **Recipes.**  Transactions of several statements that wait for each other's
  rows.  Correct: a version never changes, what runs use is stable and covered.
- **HTTP and views.**  Every request has several doors with an order of checks
  of their own; every view is several queries on two databases and files.
  Correct: the doors agree and a refusal changes nothing; what is shown was so.
- **User interface.**  Replies come late, overtake each other or are lost.
  Correct: one answer per gate, the end of a run comes to be shown.

`PROJECT.json` lists the components with their status and, under `hazards`, the
lines where these things bite.

## The modules

`RunRow` has the row of a run and the rule of its status updates (`Settle` is
the CASE of the UPDATE in `updateRunStatus` and `updateRunOps`).  It is used by
`IntentRun`, `RunContract`, `StartRun` and `RepairRun`.

### IntentRun

One run of `IntentWorkflow.run`.  `pc` is the first step that is not in the
operation log, `mem` what the executor holds of it: `none` not started, `run`
inside its body, `ok`/`err` body ended but not recorded.  `Crash` clears `mem`
and nothing else, so the body may run again; `Record` is the log entry and the
code that runs on to the next step.  DBOS operations (events, `recv`, `send`,
`startWorkflow`) and steps that only read are one action.  Every row update of
the workflow is a position of its own (`WriteRow`/`RowAfter`), because a crash
may come between any two of them.

| code | actions |
|---|---|
| `runCoreSteps`, `runIntentWorkflow` | `Flow`, `Record`, `Throw`, `Catch` |
| `awaitHuman`, `approve` | `CheckPrompt` `OpenGate` `EmitPrompt` `Receive` `EmitResult` `Escalate` `Verdict` |
| `waitForPlanApproval` | positions `planWait` to `planRun`, `Bridge`, `SendToSelf` |
| patch and rollback steps | `ApplyPatch`, `Rollback`, one patch per action |
| tasks | `BuildTasks` `StartTask` `TaskEnds` `Join` |
| `saveExecuteStep` | `SaveReceipt` (the receipt with its duplicate check), `SaveExecuteRow` |
| terminal handlers | `EmitBudgetArtifact`, `EmitTerminal`, position `fail` |
| DBOS | `Dequeue` `Crash` `Recover` `Finish` `StopCancelled` |
| operators and people | `Cancel` `Resume` `PostReply` `ApprovePlan` `SendMessage` |

Abstractions: one executor at a time; the status event is a position only where
it is the last step of its block; an outage of the database is the worker dying.
The repair has a module of its own, approvals in parallel have none.

`RunContract` says what a run promises without steps, crashes and messages: its
status moves between open statuses until it is closed and never opens again, it
gets one verdict that stays, tasks are launched once and after a yes, success
needs all of them.  `IntentRun!KeepsContract` is the refinement, with
`status <- row.status`, `verdict <- decision`, `launched <- Launched`.

### ReversiblePatch

`applyReversiblePatch`, `rollbackReversiblePatch` and the loops around them,
statement by statement: `ReadPreimage`, `InsertPatchHistory`, `WritePostimage`
(read, compare and write are synchronous, one action), `MarkApplied`; in
rollback `SkipRow`, `RestorePreimage`, `MarkRolledBack`.  Runs share the
workspace and interleave between statements.  `Crash` makes every loop begin
again, `Edit` is another program, `Fork` runs a settled run's workflow again
over the history rows that are there, from CompileST (any plan) or from a later
step.  The diff artifacts are left out.

### HitlLedger

A request goes through `Admit` (checks of `postReplyService` and
`postExternalEventService`) or `Forward` (`forwardPlanApprovalSignalService`),
then `SelectDrift`, `Insert`, `Reselect` of `insertHumanInteraction`, a second
time through the same three in `sendMessage` when the topic is a human one, and
`Send`.  Servers may die between any two (`Lose`).  `DBOS.send` is external:
its idempotency key is per destination workflow, not per topic.  The workflow is
reduced to `OpenGate` and `TakeAnswer`.

`AnswerContract` says what people are promised of their answers, without
requests, retries and statements: a book in which a key has one answer per topic
of a gate, a mailbox that gets what is in the book and a key once, and gates that
are decided once, by the first answer delivered to them, or give up.
`HitlLedger!KeepsAnswers` is the refinement, with the book the set of the
ledger's rows, the mailbox what DBOS delivered and the outcomes what `recv`
returned.

### StartRun

A request arrives on one of two routes (`Ask`): with an intent
(`startRunService`) or with a recipe (`startRunFromRecipeService`), which first
binds the intent the recipe leads to (`Upsert`).  Then `Check` (partition-key
policy, the intent exists), `Insert` (the row, or the drift check against the
row that is there), `Enqueue` and, after a failed trigger, `MarkFailed`.
Servers may die between any two (`Lose`).  DBOS is external: it returns the
workflow that is there, starts one, refuses a deduplication id that is in use
(only on an unpartitioned queue, `DedupOf`), or fails before or after the start
took effect.  The two kinds of deployment are two initial states.  A run's
identity is its recipe and one value for trace, tenant, partition key and
budget.  The workflow is `Dequeue` and `Finish`.  Left out: the caps and
priorities of the policy, which refuse a request before anything is written by
`startIntentRun`; recipes that are not found; cancel.

### ExecTask

From `buildTasks` to the ExecuteST row, with the workflow each task runs in.
The run is `BuildTasks` `StartTask` `Join` `SaveReceipt` `SaveStep`; a task is
`Dequeue` and `Begin` (an attempt), then `RunMock`, `RunMicro` or `Boot`
`RunCommand` `Kill` of E2B, then `SaveArtifact` (one item of the attempt, the
index first), `SaveSbxRun` and `Record`.  DBOS numbers attempts in memory, so
`Crash` makes a task begin at attempt 1 beside rows that are there; what differs
from them is refused and costs an attempt.  A task key is the hash of the
request: two tests of one name are one task.  What a command prints, measures
and leaves is an error code and a mark that differs between executions that
measured different things.

### OcCalls

CompileST and DecideST and the wrapper they ask through: `CreateSession` `Log`
`Lookup` (cache, ledger), then the fixture's `Produce` or a prompt that ends by
`Answer`, `Refuse` or, after `GrowQuiet`, `Stall` (one retry after `Revert`,
then the end), then `SaveCall`, `Check` and the step's own artifacts and row.
`AnswerLate` is an answer to a prompt that was given up, `Beat` and `BeatLands`
a heartbeat whose insert is not awaited, `Repair` a second workflow that takes
finished steps from their rows.  Answers are values that can be told apart.

### Recipes

`importBundle` as the transaction it is, statement by statement: `CheckStable`
`Insert` `Fixtures` `Verify` `Commit`, or `Abort`; what it inserted is seen by
nobody else, but a row of the same key makes the other transaction wait, and
PostgreSQL ends a cycle of waits.  `SetCandidate` and `Promote` take one
statement or one lock each.  `Evaluate` reads the artifacts of a run that still
writes them (`AddArtifact`, `AddIndex`), `Save` stores one result at a time.

### RepairRun

The retry route (`Retry`), the fixed workflow id, and `repairRunWorkflow` on
what a failed run left: it reads the rows of the steps (`ReadCheckpoints`) and
begins at the first that is missing.  It starts from eight states in which
`IntentRun` and `StartRun` leave runs.  A fork is a second executor over the same rows.
Operators act in three steps, `AskOp` (the status is read), `DoOp` (DBOS does
it) and `PersistOpIntent` (the audit).  `Answer` sends to the run's own
workflow, `Receive` listens on the repair's.  Patches are one flag, files are
`ReversiblePatch`'s.

### Boards

The browser: windows with a page (run, registry, ops console, proofs, patches,
sign-off, inbox, throughput), and in each the state its component keeps.
Requests are in `net` from `Send` to `Receive`, in any order, and may be lost on
either way (`Lose`); a component that is unmounted forgets its replies
(`Forgotten`), one that turns to another run does not.  The server is as much
as the boards depend on: of each run its row and its workflow, which go on apart
and which the header puts together (`Header`), a gate, and the ledger's rule for
keys.  A run that was cancelled can be resumed, so a header can leave an end.

### Surfaces

Every request at all its doors: the manual router, the handlers of `app/api`,
the older routes.  A handler is the sequence of its checks and writes
(`NodeRuns`, `NextReply`, ...), with the services they share written once; the
first stage that goes wrong decides the answer through the catcher of that door
(`NodeCatch`, `toOpsErrorResponse`, `toRunStartErrorResponse`, ...).

### ReadModels

Six views, each read query by query in the order of the code (`Queries`) while
the world they read moves: the row of the run and its workflow in DBOS, steps
and artifacts, a gate and its events, the workflows a run gave rise to, the
sign-off files.  The projections (`projectRunHeader`, `projectProofCards`,
`getStepRows`, `projectGateView`, `discoverDbosWorkflowScope`,
`getSignoffBoard`) are operators over what was found.  The world moves as the
workflows move it in the other modules, cut down to what the view reads.

### How the modules meet

They are composed by what they assume of each other: `RepairRun` begins where
`IntentRun` fails; `IntentRun`'s tasks end as `ExecTask` says they may; its
compile and decide steps succeed or throw as those of `OcCalls`; its messages
are those `HitlLedger` delivers; `Boards` has the ledger's rule for keys; the
stages of `Surfaces` are the services `StartRun`, `HitlLedger` and `RepairRun`
have in detail.  `RunRow` is shared by four of them.  `RunContract` and
`AnswerContract` are the abstract specifications that `IntentRun` and
`HitlLedger` implement.

### MC modules and proofs

The `MC` modules give the constants their values (`MCViews` puts `Surfaces` and
`ReadModels` side by side: a behaviour is a request or a read, never both);
the eight `_proofs` modules hold the theorems, one per component, but for
`HitlLedgerSurfaces_proofs`, which has the doors and the way an answer takes from
them, `RecipesOcCalls_proofs`, which has the two stores that must give back what
came first, and `BoardsReadModels_proofs`, which has what people see and do.  A
definition under a comment that begins with *Mutant* is a plausible bug of the definition that follows it; none is part of a
specification.

## What the runs check

| run | instance | shows |
|---|---|---|
| `run_safety` | 2 tasks, 2 patches, 2 people, budget, 1 recovery, 2 cancels | `ApprovalGuardsExecution`: no task without a yes; `EndsHonestly`: success is complete, failure rolls back, row and DBOS agree; `TimeoutEscalates`; `ApprovalReachesGate`; the run implements `RunContract` (`KeepsContract`) |
| `run_live` | ask gate, budget, 1 of everything | `AnswerPrecedesPatches`: files wait for the answer of the ask gate; `RunSettles`: a run comes to rest |
| `run_postapply` | 1 task | one statement of the documents that does not hold |
| `patch_safety` | 2 runs with a file in common, 2 plans for one of them, 1 crash, 1 edit, 1 fork | `NothingLost`; `FilesFit`: what is applied stays, what is rolled back is gone; `ReplayConverges` |
| `ledger_safety` | 2 gates, 3 requests, 5 messages | `TakenIsRecorded`, `ConflictRefused`; `AnswersHonest`: accepted is delivered, refused is for cause; ledger, mailbox and gates implement `AnswerContract` (`KeepsAnswers`) |
| `start_safety` | 3 requests, 2 intents, 2 recipes, 3 identities, both kinds of queue | `IdentityAgreed`, `CreatedIsStarted`; `RowShown`: no orphan without a crash, replays write over nothing |
| `exec_safety` | plans of 1 to 3 tests, 5 commands, 3 providers, fan-out of 2, 1 retry in the budget, queue of 1, 2 deaths and 3 failing kills for a lone task, else 1 and none | `EvidenceInv`: artifacts and row of an attempt are of one execution; `EvidenceDecides`: tasks and run fail by what the evidence says and nothing else; `SandboxesReleased`: what is left behind is accounted for by deaths and failing kills, and at most three for each life of the worker; `TasksSettle` |
| `oc_safety` | 3 modes, 2 answers, sessions of 1 message, 1 death, 1 repair | `LedgerDecides`: what is recorded is what ledger and artifact say, only a lost row makes a step differ from itself; `CallEnds` |
| `recipe_safety` | 6 bundles, 2 importers, 2 evaluators with 2 evaluations each | `RegistryCoherent`, `StableKept`, `ImportsEnd`, `ResultsCohere` |
| `repair_safety` | 8 failures, 1 task, 1 operator, budget, 1 recovery, 2 troubles (deaths and operator actions) | `RepairKeepsApproval`, `RepairOutcome`, `OpenIsExplained`, `RepairSettles` |
| `boards` | a full window and one of gate cards, a run to come or cancelled and one that has ended, 2 recipes, 2 acts of people, 1 request of a timeline in flight, 1 error | `OneAnswerPerGate`, `StartsWhatIsThere`, `EndIsShown` |
| `views` | every request with up to 2 things going wrong; every view with 2 to 5 moves of its world | `SurfacesHonest`: the routers agree outside a list of differences, a refusal has changed nothing; `ShownWasSo`: what a view shows was so |

Bounds.  Two tasks tell "one failed" from "all failed"; two patches give a
partial apply and a partial rollback; two people give a late or competing reply;
one recovery is enough to run any step's body twice and to reach the limit (10
in the code); two cancels allow cancel, resume, cancel.  Two runs with one file
in common and one of their own give every overlap of the two loops.  Three
requests are an original, its retry and a competitor; one intent reached by two
recipes and one without a recipe give every conflict of identities, and sharing
a deduplication id, of queue entries.  Tasks, people and
requests are interchangeable, so their permutations are used as symmetry where
no liveness is checked.

A plan of three tests with one name twice is a duplicate task and a plan over
the fan-out; a queue of one makes tasks wait; three kills that fail (`MaxLost`) are
those of all attempts of one life; with `Words` empty the words a
failed command prints are not told apart, so its code comes from its exit (the
families of `normalizeProviderFailure` only add further codes, which are
retried as BOOT_FAIL is or end the task as CMD_NONZERO does).  A session of one
message makes every prompt after the first rotate it.  The six bundles of
recipes repeat, extend, contradict and cross each other; an import and an
evaluation share no state, so a behaviour of `recipe_safety` has one or the
other.  Two troubles of a repair are a death and an operator, or cancel and
resume, or cancel and fork; forks of repairs that succeeded are left out
(`ForkFrom`).  In `boards` the second window is there for a competing answer;
acts, errors and requests in flight bound what people and network do, and row
and workflow of a run are otherwise free to go on.  One run may begin cancelled,
so that two acts are enough to watch it end once more after a resume.
Two faults at a time are what tells two orders of checks apart; a header is read twice, because what it may not do
is go back.  `CHECK_DEADLOCK FALSE` is set because runs, loops, requests and
reads end.

Fairness.  None anywhere for people, operators, crashes, losses or answers of a
provider.

- `IntentRun!FairSpec`: the executor's steps, DBOS's dequeueing and recovery, and
  task workflows ending (they have timeouts).  A gate's timeout, not an answer,
  is what lets a run go on.
- `ExecTask`: the steps of the run and of each task, and the queue handing out
  each task.  A worker that is up does these; deaths are bounded.
- `OcCalls`: the process and its timers.  That the provider answers the short
  requests (session, log, revert) is assumed, for nothing limits them; a prompt
  need not be answered.
- `Recipes`: a transaction that began goes on, and PostgreSQL finds cycles.
- `RepairRun`: as in `IntentRun`, for the repair and its fork.
- `Boards`: the interval fires, and the state requests of a window are answered
  and received; the stream may break.

## What is proved

The theorems hold for every value of the constants: any number of tasks,
people, requests, runs, files, importers, windows, crashes and retries.  What
they assume is named in the modules (numbers are naturals, flags Booleans, plans
are finite sequences, markers such as `"none"` are no identifiers, offers are
messages), and TLC evaluates it on every instance.  Each proof has the same
shape: an inductive invariant whose parts TLC checks on the run of the module,
one lemma per part with one step per action, and the theorems from it.

*IntentRun.*  `IInv` is what the position in the log and the executor's memory
say about everything else: `PlaceInv`, how far gates, task workflows and row can
have got; `WorkInv`, what the steps behind it have left; `OutcomeInv`, the error
it unwinds with against row and DBOS; `AnswerInv`, what the gates answered and
which approvals are under way.  From it `ApprovalGuardsExecution`,
`EndsHonestly`, `TimeoutEscalates`, `AnswerPrecedesPatches`,
`ApprovalReachesGate`, the action properties `TerminalSticky` and
`DecisionStable`, and, step by step, `KeepsContract`.  The position is needed
because no single row says that a task was started behind a yes, or that the
rollback had its turn.  (`run_safety` checks `IInv` without an ask gate,
`run_live` the part about the ask gate with one.)

*ReversiblePatch.*  `RowInv` ties the statement a loop stands at to the row it
works on, and `NothingLost` follows: whoever overwrites a text has compared it
with a row.  `FilesFit` is harder, because a file can carry texts of several
runs that are rolled back in any order.  The argument is `StackInv`: for every
row there is a set `D` of texts, its own and those that were written on top of
it, that no other row leads into or out of (`Above`); a rollback moves a file
between texts both in `D` or both outside, so a text that was taken out can not
come back, and one that stands stays.  No recursion over the stack is needed.
`ReplayConverges` rests on `PlanInv` (rows are the plan's, without gaps) and
`AloneInv`.  Both theorems have a hypothesis the code does not enforce.
`FreshTexts`, for `FilesFit`: two patches never leave the same text in the same
file.  Without it a rollback that finds the text of its row removes what was
another run's.  `PatchesOnce`, for `ReplayConverges`: a plan patches no file
twice; a plan that does is refused when it is replayed.  `patch_safety` has
plans that satisfy them (`HypothesesHold`).

*HitlLedger.*  `LedgerInv`: the unique key, sent messages are recorded, a
request at its send has its row; `GateInv`: a gate that waits or is not open yet
is undecided.  From them `ConflictRefused`, `TakenIsRecorded` and, step by step,
`KeepsAnswers`: an `Insert` notes, a `Send` delivers, `TakeAnswer` decides or
gives up, and everything else, a server's death included, is no step of the
contract.  `AnswersHonest` has the hypothesis `KeysOfOneTopic`: clients
use a key for one topic of one gate.  Nothing in the ledger asks for it, DBOS
takes the key alone, and without it an accepted answer may never be delivered
(see below).

*Surfaces.*  `SurfacesInv`: a door that goes on has passed no stage that goes
wrong and has changed what the stages behind it change; one that has answered
stands at the first that does, or behind the last.  Two doors that have answered
have therefore met as if nothing but their own first faults had gone wrong
(`DoorsMeet`), so what the tables keep for two faults (`TwoFaultsHonest`, a
statement without variables) the doors keep for any number: the theorem
`TwoFaultsAreEnough`, which is why the bound of `views` hides nothing.  The tables
themselves are long sequences of constants; TLC evaluates the hypothesis on them
(`HypothesisHolds` of `MCViews`).

*StartRun.*  `StartInv`: intent, run and workflow agree, a request past the
drift check agrees with the run, answers say what their requests did, one
request inserted the run.  From it `IdentityAgreed` and `CreatedIsStarted`, on
partitioned and unpartitioned queues alike; with `Awaited` (what keeps an orphan
waiting) and `Told` (what the inserter's answer says of the row) also `RowShown`.

*ExecTask.*  Per task, `WorkOf` and `RowsOf` place the attempt under way among
the rows of the attempts before it; `EvidenceOf` says that artifacts are a
prefix of those of one execution, whole once the row is there; `CauseOf` that
every attempt that is over met a failure.  `MainInv` says what the run knows of
its tasks.  The error a run reports is that of its first failed task, the least
element of a set of numbers, so no induction over tasks is needed.  From these
`EvidenceInv`, `EvidenceDecides`, and that a result and its row never change again.  `SandboxesReleased` bounds the
sandboxes of a task that are there: by the deaths, the kills that failed and the
one in use, and, because no life has more than three attempts, by three for each
life.

*OcCalls.*  `LedgerInv`: nothing is asked for while the ledger has an answer, and
whatever is kept of a step is what the ledger has, or missed.  From it
`LedgerDecides`, and that ledger rows and artifacts are never replaced.

*Recipes.*  `VersionInv`, and `ImportInv` of each transaction: what it inserted
is nobody else's, each version once and with its fixtures, save at the one it is
about to compare.  From these `RegistryCoherent` and `StableKept`.  `EvalInv`:
results are saved in the order of the checks and an evaluation that goes on has
found or left its own, so the first result decides whose the rest are
(`ResultsCohere`; checks come in the order of their ids, so those of one id
follow each other).

*RepairRun.*  `PlaceInv` of each executor (the repair and its fork),
`ApprovalInv`, `ResultInv`, `OutcomeInv` and `OpenInv`; from them
`RepairKeepsApproval`, `RepairOutcome` and `OpenIsExplained`.  The eight failures
the run begins with are assumed only as far as `FailuresAssumption` says.

*Boards.*  What a request in flight asks is what the window it came from could
ask (`RequestFits`), also when that window has since turned to another run;
with types of every window, this is inductive and gives `StartsWhatIsThere` and,
with the ledger's rule that a key has one payload, `OneAnswerPerGate`.

*ReadModels.*  A view is compared with every world its read spans, so
`ShownWasSo` has to say what a read that is under way knows of them: each part
was found in one of them (`FoundInv`), and what cannot be undone while a read
goes on.  Steps and artifacts are only added (`StepsInv`); a gate that was seen
waiting and then answered was seen as every state between (`GateInv`); the
workflows found, down to the frontier, are of the family (`ReproInv`); a row that
succeeded stays so (`SignoffInv`); and a run that ended is not reopened but by a
resume or a repair, which is counted (`HeaderInv`, with what links a read to the
one before it).  The moves of the world come to four relations between a world
and the next (`MovesTo`); each view needs one of them.

Only model-checked, and why:

- Liveness: `RunSettles`, `TasksSettle`, `CallEnds`, `ImportsEnd`,
  `RepairSettles`, `EndIsShown`.  Fairness is made of
  ENABLED, which the provers do not treat.
- `TwoFaultsHonest`, the tables of `Surfaces`: nothing but constants, evaluated by
  TLC and the hypothesis of the theorem about them.
- Statements about documents that the code does not keep (`run_postapply`).

## Where documents and code differ

With a run that shows it (see `findings` in `PROJECT.json`): a budget that runs
out right behind ApplyPatchST leaves the patches behind (`run_postapply`).

Seen while modelling, without a run of their own.

Runs and patches:

- Patches are applied before the plan gate (`run-intent.wf.ts:221`), while
  `docs/handoff/004-opencode-c2-c5-mastery.md:62` has it the other way round.
- A worker that dies behind the execute receipt makes the run count it twice
  and fail although its tasks succeeded.
- A cancel that finds no executor leaves the row open; only the executor writes
  `canceled`.  A run that was cancelled and resumed waits at its gate with the
  status `canceled`, which turns answers away.
- An approval that comes between the compat bridge and the plan gate of an
  intent with an ask gate goes to the ask gate (`ApprovalReachesGate` excludes
  it).
- A fork's patches survive its rollback, because `rolled_back_at` is not reset
  (`FilesFit` excludes forks).  A fork from CompileST with another plan writes
  what the rows of the old plan say; a plan that patches a file twice cannot be
  replayed after a crash; a file that did not exist is left behind empty.

Tasks:

- A `sbx.kill()` that fails is swallowed (`e2b.ts:177-181`) and the sandbox
  struck off `activeSandboxes`, so nothing here ends it any more; it lives until
  the timeout it was created with (`:25`).  `SandboxesReleased` says how many
  there can be, not that there are none.

Repair and operators:

- The repair's workflow id is fixed, so a second retry of a run is answered with
  202 and does nothing.
- A repair that has to ask again times out and ends as rejected: answers go to
  the workflow of the run.
- A row of ExecuteST with an error makes the repair fail at once, a receipt the
  failed run counted makes it fail as a duplicate, and the row of ApplyPatchST is
  trusted although the failure rolled its patches back.  The repair has no
  rollback of its own.
- Looking up or operating on a workflow that has no row of its own (a repair, a
  fork) makes up an intent and a run with the status `running` for the audit,
  and nobody ends it.
- An error of a fork whose message speaks of a step is answered with 409, also
  when the fork was made and only recording it failed.

Gates and start:

- A server that dies between insert and send leaves a recorded answer without
  effect until the client retries; approvals are recorded whether or not the run
  waits.
- One key on two topics at once is accepted twice, against
  `05-hitl-lane-guard.md:25`; one key at two gates is recorded, answered with
  success and never sent, against the comment at `ui-api.ts:528`.
- A request that finds the row and whose trigger fails is answered with success,
  although no workflow exists if the server that inserted the row has died; one
  that learns late that its trigger failed marks a run failed that another
  request was answered with, also one that has succeeded.  A run that was marked
  failed and is started again runs with the status `failed` until it ends.
  Priority and timeout are not part of a run's identity: the request that
  reaches the queue first decides them.

OpenCode and recipes:

- A denied tool call that is in the ledger is replayed unchecked, while
  `docs/adr/003-proof-closure-intent-runtime` demands the allowlist.  An error of
  the provider stays the answer of its operation: attempts are always numbered
  1.  A lost ledger row is only logged.
- After a stall the clock of the detector is not set back, so the retry is given
  up within a second unless a late answer moves it.
- Promotion counts evaluations and fixtures and evaluates neither, although
  `docs/adr/009-data-first-recipe-flywheel/01-recipe-lifecycle.md:30` asks for
  the flake detector.  A recipe keeps the name of its first promoted version;
  the latest version is the last in the order of strings.

Views and doors:

- The two routers differ in the steps of a run that is not there (404 and an
  empty list), the flag of the older routes on approve-plan, answers that fail
  their own validation (400 and 500; the comment at `api-validation.ts:78` has
  500), a blank id for the sleep demo (`workflowIdFrom` at `http.ts:118` makes it
  empty, which is 400; `app/api` passes it on, makes up a run, starts a workflow
  and answers 202), a stream that breaks (a normal end and an error) and an artifact that is
  not the JSON it should be, although `docs/handoff/008` claims parity.  They
  are the list `RoutersDiffer`, and the run shows each of them to be real.
- For that artifact the router has sent the head before it parses.  Its catcher
  writes a head again, which throws in an async listener nobody waits for: no
  body comes, and by Node's default the whole process may end.  The model has
  the answer only (`hung`).
- Ids are what a handler is given of the path.  The router takes them as they
  came, with their escapes; what Next.js makes of a path is not in the
  repository, and its artifact route decodes once more.  The ids the system
  makes need no escapes.
- The budget trigger of the sign-off looks for the outcome `VIOLATION` at the
  top of the artifact (`signoff-api.ts:175`), the harness writes `blocked` one
  level deeper (`save-artifacts.step.ts:51`): it never fires for what the
  harness writes.
- A tile without commit and tree stamps passes the binding of the sign-off; a run
  whose row says succeeded while DBOS has yet to record it is a NO_GO.
- A header can show a cancellation and go back when the run ended otherwise
  during the read, or when DBOS could not be asked.  The snapshot for
  reproduction does not cover the repair of a run.  Steps that DBOS logged under
  the name of their function are shown beside the rows they wrote.

User interface:

- The timeline clears its interval at the first end it shows
  (`timeline-live.tsx:396-401`), and only a change of run starts it again.  The
  drawer's success fetches once.  So the later end of a cancelled run that is
  resumed, of one whose row ends otherwise than DBOS said, or of a run that is
  repaired may stay unshown.
- A late reply about the former run sets the state of the new one and, if that
  run has ended, clears its interval; a reply that comes when the interval is
  cleared and is a failure, no longer true or about another run is shown for good.
- These are what `EndIsShown` excludes (`stray`), and nothing else: a window
  whose interval was cleared when the header left an end, or that took such a
  reply, until its page is built anew.
- The stream is not opened again when it breaks, although the route leaves that
  to the client.
- Reason and step of the drawer stay from one workflow to the next, and the
  success of one operation closes a drawer that was opened for another; the ops
  console can show the detail of a row selected before.
- The list of recipes takes the body of an error for its list; proof and patch
  panels keep an error they once showed.

## Plan

Written and checked: (1) RunRow, IntentRun, RunContract; (2) ReversiblePatch;
(3) HitlLedger; (4) StartRun, these with their first proofs; (5) RepairRun;
(6) ExecTask; (7) Recipes; (8) OcCalls; (9) Boards; (10) Surfaces and ReadModels.

Left to model: (11) parallel approvals; (12) the listings of the ops console and
of the inbox as views; (13) the client and worker processes apart from each
other (`api-shim`).

Theorems still worth proving: that the gates of `IntentRun` and the windows of
`Boards`, which have the ledger cut down to their own needs, keep
`AnswerContract` as `HitlLedger` does.

Not modelled and why.  The custom engine is started by its own demo and tests
only and shares no state with runs.  Parallel approvals depend on the order in
which DBOS numbers the operations of concurrent promises, which is its own and
not in the repository.  The compiler of intents, schemas, hashing and
identifiers are sequential computations over data the models abstract from.
Rendering, the artifact sheet, the demo helper and the budget editor keep no
state another part depends on.  The bodies of the demo workflows are two
recorded steps each.  Scripts, tests and the start-up of processes drive the
program and are not part of it.
