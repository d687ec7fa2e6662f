--------------------------- MODULE IntentRun_proofs ---------------------------
(***************************************************************************)
(* Proofs about IntentRun for every set of tasks and clients, every number *)
(* of patches, recovery attempts and cancels.                              *)
(***************************************************************************)
EXTENDS IntentRun, TLAPS

USE DEF Positions, MainSteps, GateSteps, TrySteps, CatchSteps

-----------------------------------------------------------------------------
(* The helpers of RunRow on rows. *)

\* An UPDATE of the run's row leaves a row.
LEMMA RowOpsTyped ==
  ASSUME NEW r \in RunRows, NEW s \in RunStatus, NEW e \in Errors,
         NEW a \in NextActions, NEW i \in StepIds
  PROVE  /\ SetStatus(r, s) \in RunRows
         /\ SetLastStep(r, i) \in RunRows
         /\ SetNextAction(r, a) \in RunRows
         /\ SetFailure(r, s, e, a) \in RunRows
  BY DEF RunRows, SetStatus, SetLastStep, SetNextAction, SetFailure, Settle

\* Without re-entry the CASE of the UPDATE keeps a terminal status terminal,
\* and otherwise writes what it was given or leaves what was there.
LEMMA SettleKeepsTerminal ==
  ASSUME NEW old \in RunStatus, NEW new \in RunStatus
  PROVE  /\ old \in TerminalStatus => Settle(old, new, FALSE) \in TerminalStatus
         /\ Settle(old, new, FALSE) \in {old, new}
  BY DEF Settle

\* What the row-writing steps of the workflow write.
LEMMA RowAfterTyped ==
  ASSUME NEW p \in RowSteps, row \in RunRows, err \in Errors
  PROVE  RowAfter(p) \in RunRows
  <1>1. {"running", "waiting_input", "succeeded", "retries_exceeded"} \subseteq RunStatus
    BY DEF RunStatus
  <1>2. {"APPROVE_PLAN", "REPAIR", "null"} \subseteq NextActions
    BY DEF NextActions
  <1>3. {"CompileST", "ApplyPatchST", "DecideST", "ExecuteST"} \subseteq StepIds
    BY DEF StepIds
  <1>4. /\ SetStatus(row, "running") \in RunRows
        /\ SetStatus(row, "waiting_input") \in RunRows
        /\ SetStatus(row, "succeeded") \in RunRows
        /\ SetLastStep(row, "CompileST") \in RunRows
        /\ SetLastStep(row, "ApplyPatchST") \in RunRows
        /\ SetLastStep(row, "DecideST") \in RunRows
        /\ SetLastStep(row, "ExecuteST") \in RunRows
        /\ SetNextAction(row, "APPROVE_PLAN") \in RunRows
        /\ SetNextAction(row, "null") \in RunRows
        /\ SetFailure(row, "retries_exceeded", err, "REPAIR") \in RunRows
    BY <1>1, <1>2, <1>3, RowOpsTyped
  <1> QED
    BY <1>4 DEF RowSteps, RowAfter
-----------------------------------------------------------------------------
(* Type correctness. *)

LEMMA InitTyped == Init => TypeOK
  <1> SUFFICES ASSUME Init PROVE TypeOK
    OBVIOUS
  <1>1. row \in RunRows
    BY DEF Init, NewRun, RunRows, RunStatus, StepIds, Errors, NextActions
  <1>2. mail \in [Gates -> Seq(Payloads)]
    BY DEF Init
  <1>3. client \in [Clients -> Client]
    BY DEF Init, Client, Gates, Payloads
  <1>4. patched \in 0..Patches
    BY PatchesAssumption DEF Init
  <1>5. /\ reply \in [Gates -> Payloads \cup {"none", "timeout"}]
        /\ result \in [Gates -> {"none", "RECEIVED", "TIMED_OUT"}]
        /\ child \in [Tasks -> {"none", "queued", "ok", "failed", "threw"}]
    BY DEF Init
  <1> QED
    BY <1>1, <1>2, <1>3, <1>4, <1>5 DEF Init, TypeOK, WorkflowStatus, Errors, Gates

\* The errors the workflow unwinds with, and where they take it.
LEMMA ThrowTyped ==
  ASSUME NEW e \in Errors, Throw(e)
  PROVE  err' \in Errors /\ pc' \in Positions
  BY DEF Throw, Catch

LEMMA ErrorNames ==
  {"null", "ask_timeout", "rejected", "budget", "step", "sbx",
   "rollback_failed", "canceled"} \subseteq Errors
  BY DEF Errors

\* Every step of the workflow, of DBOS and of people keeps the types.
LEMMA NextTyped == TypeOK /\ PlaceInv /\ [Next]_vars => TypeOK'
  <1> SUFFICES ASSUME TypeOK, PlaceInv, [Next]_vars PROVE TypeOK'
    OBVIOUS
  <1> USE DEF TypeOK, vars, execVars, posVars, workVars, gateVars, humanVars,
              Start, Inside, Goto
  <1>1. CASE WriteRow
    <2>1. row' \in RunRows
      BY <1>1, RowAfterTyped DEF WriteRow
    <2> QED
      BY <1>1, <2>1 DEF WriteRow
  <1>2. CASE Compile \/ Decide
    BY <1>2 DEF Compile, Decide, Produce, StepIds
  <1>3. CASE ApplyPatch
    <2>1. patched' \in 0..Patches
      BY <1>3, PatchesAssumption DEF ApplyPatch
    <2>2. steps' \subseteq StepIds /\ mem' \in {"none", "run", "ok", "err"}
      BY <1>3 DEF ApplyPatch, StepIds
    <2> QED
      BY <1>3, <2>1, <2>2 DEF ApplyPatch
  <1>4. CASE Rollback
    BY <1>4, PatchesAssumption DEF Rollback
  <1>5. CASE CheckPrompt
    BY <1>5 DEF CheckPrompt
  <1>6. CASE OpenGate
    BY <1>6 DEF OpenGate
  <1>7. CASE EmitPrompt
    BY <1>7 DEF EmitPrompt
  <1>8. CASE Receive
    <2>1. CASE mail[at] # <<>> /\ reply' = [reply EXCEPT ![at] = Head(mail[at])]
                 /\ mail' = [mail EXCEPT ![at] = Tail(@)]
      <3>1. Head(mail[at]) \in Payloads /\ Tail(mail[at]) \in Seq(Payloads)
        BY <2>1
      <3> QED
        BY <1>8, <2>1, <3>1 DEF Receive
    <2>2. CASE reply' = [reply EXCEPT ![at] = "timeout"] /\ UNCHANGED mail
      BY <1>8, <2>2 DEF Receive
    <2> QED
      BY <1>8, <2>1, <2>2 DEF Receive
  <1>9. CASE EmitResult
    <2>1. err' \in Errors /\ pc' \in Positions
      BY <1>9, ThrowTyped, ErrorNames DEF EmitResult, Gates
    <2> QED
      BY <1>9, <2>1 DEF EmitResult
  <1>10. CASE Escalate
    BY <1>10 DEF Escalate
  <1>11. CASE Verdict
    <2>1. err' \in Errors /\ pc' \in Positions
      BY <1>11, ThrowTyped, ErrorNames DEF Verdict
    <2>2. decision' \in {"none", "yes", "no"}
      BY <1>11 DEF Verdict, Choice
    <2> QED
      BY <1>11, <2>1, <2>2 DEF Verdict
  <1>12. CASE Bridge
    BY <1>12 DEF Bridge, Gates
  <1>13. CASE SendToSelf
    BY <1>13 DEF SendToSelf, Gates, Payloads
  <1>14. CASE BuildTasks
    <2>1. err' \in Errors /\ pc' \in Positions
      BY <1>14, ThrowTyped, ErrorNames DEF BuildTasks
    <2> QED
      BY <1>14, <2>1 DEF BuildTasks
  <1>15. CASE StartTask
    BY <1>15 DEF StartTask
  <1>16. CASE TaskEnds
    BY <1>16 DEF TaskEnds
  <1>17. CASE Join
    <2>1. err' \in Errors /\ pc' \in Positions
      BY <1>17, ThrowTyped, ErrorNames DEF Join
    <2> QED
      BY <1>17, <2>1 DEF Join
  <1>18. CASE SaveReceipt
    BY <1>18 DEF SaveReceipt
  <1>19. CASE SaveExecuteRow
    BY <1>19 DEF SaveExecuteRow, StepIds
  <1>20. CASE EmitBudgetArtifact
    BY <1>20 DEF EmitBudgetArtifact
  <1>21. CASE EmitTerminal
    BY <1>21 DEF EmitTerminal
  <1>22. CASE Record
    <2>1. CASE \E e \in Errors : Throw(e)
      BY <1>22, <2>1, ThrowTyped DEF Record
    <2>2. CASE mem = "ok" /\ UNCHANGED err /\ pc = "compiled"
                 /\ pc' = (IF AskGate THEN "askWait" ELSE "apply")
      BY <1>22, <2>2 DEF Record
    <2>3. CASE UNCHANGED err /\ pc = "rollback" /\ pc' = Catch(err)
      BY <1>22, <2>3 DEF Record, Catch
    <2>4. CASE mem = "ok" /\ UNCHANGED err /\ pc \notin {"compiled", "rollback"}
                 /\ pc' = Flow[pc]
      <3>1. pc \in BodySteps \ {"compiled", "rollback"}
        BY <2>4 DEF PlaceInv
      <3>2. Flow[pc] \in Positions
        BY <3>1 DEF BodySteps, RowSteps, Flow
      <3> QED
        BY <1>22, <2>4, <3>2 DEF Record
    <2> QED
      BY <1>22, <2>1, <2>2, <2>3, <2>4, ErrorNames DEF Record
  <1>23. CASE Finish
    BY <1>23 DEF Finish, WorkflowStatus
  <1>24. CASE Dequeue \/ Recover
    <2>1. /\ dbos' \in WorkflowStatus /\ attempts' \in Nat
          /\ live' = TRUE \/ live' = live
      BY <1>24 DEF Dequeue, Recover, WorkflowStatus
    <2>2. live' \in BOOLEAN
      BY <2>1
    <2> QED
      BY <1>24, <2>1, <2>2 DEF Dequeue, Recover
  <1>25. CASE Crash
    <2>1. live' \in BOOLEAN /\ mem' \in {"none", "run", "ok", "err"}
      BY <1>25 DEF Crash
    <2> QED
      BY <1>25, <2>1 DEF Crash
  <1>26. CASE Cancel \/ Resume
    BY <1>26 DEF Cancel, Resume, WorkflowStatus
  <1>27. CASE StopCancelled
    <2>1. SetFailure(row, "canceled", "canceled", "NONE") \in RunRows
      BY RowOpsTyped DEF RunStatus, Errors, NextActions, StepIds
    <2>2. live' \in BOOLEAN /\ row' \in RunRows
      BY <1>27, <2>1 DEF StopCancelled
    <2> QED
      BY <1>27, <2>2 DEF StopCancelled
  <1>28. ASSUME NEW c \in Clients, PostReply(c) PROVE TypeOK'
    BY <1>28 DEF PostReply, Client
  <1>29. ASSUME NEW c \in Clients, ApprovePlan(c) PROVE TypeOK'
    <2>1. PICK s \in {"done", "approving"} : client' = [client EXCEPT ![c].st = s]
      BY <1>29 DEF ApprovePlan
    <2>2. [client[c] EXCEPT !.st = s] \in Client
      BY DEF Client
    <2>3. client' \in [Clients -> Client]
      BY <2>1, <2>2
    <2> QED
      BY <1>29, <2>3 DEF ApprovePlan
  <1>30. ASSUME NEW c \in Clients, SendMessage(c) PROVE TypeOK'
    <2>1. PICK g \in Gates, p \in Payloads : mail' = [mail EXCEPT ![g] = Append(@, p)]
      BY <1>30 DEF SendMessage, Client, LatestGate, Gates, Payloads
    <2>2. mail' \in [Gates -> Seq(Payloads)]
      BY <2>1
    <2>3. [client[c] EXCEPT !.st = "done"] \in Client
      BY DEF Client
    <2>4. client' \in [Clients -> Client]
      BY <1>30, <2>3 DEF SendMessage
    <2> QED
      BY <1>30, <2>2, <2>4 DEF SendMessage
  <1>31. CASE UNCHANGED vars
    BY <1>31
  <1> QED
    BY <1>1, <1>2, <1>3, <1>4, <1>5, <1>6, <1>7, <1>8, <1>9, <1>10, <1>11, <1>12,
       <1>13, <1>14, <1>15, <1>16, <1>17, <1>18, <1>19, <1>20, <1>21, <1>22, <1>23,
       <1>24, <1>25, <1>26, <1>27, <1>28, <1>29, <1>30, <1>31
       DEF Next, Step, Scheduler, Environment
-----------------------------------------------------------------------------
(* What the position in the log says. *)

LEMMA InitPlaced == Init => PlaceInv
  BY DEF Init, PlaceInv, NewRun, AfterVerdict, Launched

\* Where the errors that steps raise take the workflow.
LEMMA ThrowPlaced ==
  ASSUME NEW e, Throw(e)
  PROVE  /\ pc' \in {"rollback", "budget", "fail"}
         /\ pc \in TrySteps \cup {"verdict"} => pc' = "rollback"
  BY DEF Throw, Catch

\* The row-writing steps and the status they can leave.
LEMMA RowAfterStatus ==
  ASSUME NEW p \in RowSteps, row \in RunRows, err \in Errors
  PROVE  /\ RowAfter(p).status \in {row.status, "running", "waiting_input",
                                    "succeeded", "retries_exceeded"}
         /\ row.status \in TerminalStatus => RowAfter(p).status \in TerminalStatus
         /\ RowAfter(p).status = "succeeded" => row.status = "succeeded" \/ p = "succeed"
         /\ p = "succeed" => RowAfter(p).status = "succeeded"
         /\ p = "fail" => RowAfter(p).status = "retries_exceeded"
         /\ p \notin {"succeed", "fail"} =>
              RowAfter(p).status \in {row.status, "running", "waiting_input"}
  BY DEF RunRows, RowSteps, RowAfter, SetStatus, SetLastStep, SetNextAction,
         SetFailure, Settle, TerminalStatus

LEMMA NextPlaced == TypeOK /\ PlaceInv /\ [Next]_vars => PlaceInv'
  <1> SUFFICES ASSUME TypeOK, PlaceInv, [Next]_vars PROVE PlaceInv'
    OBVIOUS
  <1> USE DEF PlaceInv, Approved, AfterVerdict, AfterThrow, BodySteps, RowSteps,
              FallibleSteps, TimedOut, Launched, SomeTask,
              vars, execVars, posVars, workVars, gateVars, humanVars,
              Start, Inside, Goto
  <1>1. CASE WriteRow
    <2>1. PICK p \in RowSteps : pc = p /\ row' = RowAfter(p) /\ mem' = "ok"
      BY <1>1 DEF WriteRow
    <2>2. /\ row'.status = "succeeded" => row.status = "succeeded" \/ pc = "succeed"
          /\ row'.status \notin {"repairing", "failed"}
          /\ pc = "fail" => row'.status = "retries_exceeded"
      BY <2>1, RowAfterStatus DEF TypeOK
    <2> QED
      BY <1>1, <2>1, <2>2 DEF WriteRow
  <1>2. CASE Compile \/ Decide
    BY <1>2 DEF Compile, Decide, Produce
  <1>3. CASE ApplyPatch \/ Rollback
    BY <1>3 DEF ApplyPatch, Rollback
  <1>5. CASE CheckPrompt \/ OpenGate \/ EmitPrompt
    BY <1>5 DEF CheckPrompt, OpenGate, EmitPrompt
  <1>8. CASE Receive
    BY <1>8 DEF Receive, TypeOK, Payloads, Gates
  <1>9. CASE EmitResult
    <2>1. CASE at = "ask" /\ TimedOut
      BY <1>9, <2>1, ThrowPlaced DEF EmitResult, TypeOK
    <2>2. CASE at = "ask" /\ ~TimedOut
      BY <1>9, <2>2 DEF EmitResult, TypeOK
    <2>3. CASE at = "plan"
      BY <1>9, <2>3 DEF EmitResult, TypeOK
    <2> QED
      BY <2>1, <2>2, <2>3 DEF TypeOK, Gates
  <1>10. CASE Escalate
    BY <1>10 DEF Escalate
  <1>11. CASE Verdict
    BY <1>11, ThrowPlaced DEF Verdict, Choice
  <1>12. CASE Bridge \/ SendToSelf
    BY <1>12 DEF Bridge, SendToSelf
  <1>14. CASE BuildTasks
    BY <1>14, ThrowPlaced DEF BuildTasks
  <1>15. CASE StartTask
    BY <1>15 DEF StartTask, TypeOK
  <1>16. CASE TaskEnds
    BY <1>16 DEF TaskEnds, TypeOK
  <1>17. CASE Join
    BY <1>17, ThrowPlaced DEF Join
  <1>18. CASE SaveReceipt \/ SaveExecuteRow \/ EmitBudgetArtifact
    BY <1>18 DEF SaveReceipt, SaveExecuteRow, EmitBudgetArtifact
  <1>21. CASE EmitTerminal
    BY <1>21 DEF EmitTerminal
  <1>22. CASE Record
    BY <1>22, ThrowPlaced DEF Record, Flow, Catch, ClockedSteps
  <1>23. CASE Finish \/ Dequeue \/ Recover \/ Crash \/ Cancel \/ Resume
    BY <1>23 DEF Finish, Dequeue, Recover, Crash, Cancel, Resume
  <1>27. CASE StopCancelled
    BY <1>27 DEF StopCancelled, SetFailure, Settle, TypeOK, RunRows, TerminalStatus
  <1>28. ASSUME NEW c \in Clients, PostReply(c) \/ ApprovePlan(c) \/ SendMessage(c)
         PROVE PlaceInv'
    BY <1>28 DEF PostReply, ApprovePlan, SendMessage
  <1>31. CASE UNCHANGED vars
    BY <1>31
  <1> QED
    BY <1>1, <1>2, <1>3, <1>5, <1>8, <1>9, <1>10, <1>11, <1>12, <1>14, <1>15, <1>16,
       <1>17, <1>18, <1>21, <1>22, <1>23, <1>27, <1>28, <1>31
       DEF Next, Step, Scheduler, Environment
-----------------------------------------------------------------------------
(* What is done, how it ends and who was heard. *)

LEMMA InitProgress == Init => WorkInv /\ OutcomeInv /\ AnswerInv
  BY DEF Init, WorkInv, OutcomeInv, AnswerInv, TimeoutEscalates,
         AnswerPrecedesPatches, AtQuestion, PastApply, Succeeding, AfterThrow,
         NewRun, Gates

LEMMA NextWork == TypeOK /\ PlaceInv /\ WorkInv /\ OutcomeInv /\ [Next]_vars => WorkInv'
  <1> SUFFICES ASSUME TypeOK, PlaceInv, WorkInv, OutcomeInv, [Next]_vars PROVE WorkInv'
    OBVIOUS
  <1>0. /\ pc \notin AfterThrow => err = "null"
        /\ pc \in AfterThrow \ {"end"} => err # "null"
        /\ mem # "none" => pc \in BodySteps
        /\ mem = "err" => pc \in FallibleSteps
        /\ patched \in 0..Patches /\ steps \subseteq StepIds /\ at \in Gates
        /\ child \in [Tasks -> {"none", "queued", "ok", "failed", "threw"}]
        /\ pc \in {"escalate", "verdict"} => at = "plan"
    BY DEF TypeOK, PlaceInv, OutcomeInv
  <1> USE DEF WorkInv, AtQuestion, PastApply, Succeeding, SomeTask, AfterThrow,
              execVars, posVars, workVars, gateVars, humanVars, Start, Inside,
              Goto, Gates
  <1>1. CASE WriteRow
    BY <1>1, <1>0 DEF WriteRow, RowSteps
  <1>2. CASE Compile \/ Decide
    BY <1>2, <1>0 DEF Compile, Decide, Produce
  <1>3. CASE ApplyPatch \/ Rollback
    BY <1>3, <1>0, PatchesAssumption DEF ApplyPatch, Rollback
  <1>4. CASE CheckPrompt \/ OpenGate \/ EmitPrompt
    BY <1>4, <1>0 DEF CheckPrompt, OpenGate, EmitPrompt
  <1>5. CASE Receive
    BY <1>5, <1>0 DEF Receive
  <1>6. CASE EmitResult
    BY <1>6, <1>0, ThrowPlaced DEF EmitResult, Throw
  <1>7. CASE Escalate
    BY <1>7, <1>0 DEF Escalate
  <1>8. CASE Verdict
    BY <1>8, <1>0, ThrowPlaced DEF Verdict, Throw
  <1>9. CASE Bridge \/ SendToSelf
    BY <1>9, <1>0 DEF Bridge, SendToSelf
  <1>10. CASE BuildTasks \/ StartTask
    BY <1>10, <1>0, ThrowPlaced DEF BuildTasks, StartTask, Throw
  <1>11. CASE TaskEnds
    BY <1>11, <1>0 DEF TaskEnds
  <1>12. CASE Join
    BY <1>12, <1>0, ThrowPlaced DEF Join, Throw
  <1>13. CASE SaveReceipt \/ SaveExecuteRow \/ EmitBudgetArtifact
    BY <1>13, <1>0 DEF SaveReceipt, SaveExecuteRow, EmitBudgetArtifact
  <1>14. CASE EmitTerminal
    BY <1>14, <1>0 DEF EmitTerminal
  <1>15. CASE Record
    BY <1>15, <1>0, ThrowPlaced
       DEF Record, Flow, Catch, Throw, BodySteps, RowSteps, FallibleSteps, SbxFailed
  <1>16. CASE Finish \/ Dequeue \/ Recover \/ Crash \/ Cancel \/ Resume
    BY <1>16 DEF Finish, Dequeue, Recover, Crash, Cancel, Resume
  <1>17. CASE StopCancelled
    BY <1>17 DEF StopCancelled
  <1>18. ASSUME NEW c \in Clients, PostReply(c) \/ ApprovePlan(c) \/ SendMessage(c)
         PROVE WorkInv'
    BY <1>18 DEF PostReply, ApprovePlan, SendMessage
  <1>19. CASE UNCHANGED vars
    BY <1>19 DEF vars
  <1> QED
    BY <1>1, <1>2, <1>3, <1>4, <1>5, <1>6, <1>7, <1>8, <1>9, <1>10, <1>11, <1>12,
       <1>13, <1>14, <1>15, <1>16, <1>17, <1>18, <1>19
       DEF Next, Step, Scheduler, Environment

\* What the row-writing steps and the failure handlers leave in the row.
LEMMA RowAfterOutcome ==
  ASSUME NEW p \in RowSteps, row \in RunRows
  PROVE  /\ p = "fail" => /\ RowAfter(p).status = "retries_exceeded"
                          /\ RowAfter(p).error = err
                          /\ RowAfter(p).nextAction = "REPAIR"
         /\ p = "succeed" => RowAfter(p).status = "succeeded"
         /\ p \notin {"succeed", "fail"} =>
              /\ RowAfter(p).status \in {row.status, "running", "waiting_input"}
              /\ RowAfter(p).error = row.error
  BY DEF RunRows, RowSteps, RowAfter, SetStatus, SetLastStep, SetNextAction,
         SetFailure, Settle, TerminalStatus

LEMMA NextOutcome ==
  TypeOK /\ PlaceInv /\ WorkInv /\ OutcomeInv /\ [Next]_vars => OutcomeInv'
  <1> SUFFICES ASSUME TypeOK, PlaceInv, WorkInv, OutcomeInv, [Next]_vars
               PROVE OutcomeInv'
    OBVIOUS
  <1>0. /\ mem # "none" => pc \in BodySteps
        /\ mem = "err" => pc \in FallibleSteps
        /\ pc \in {"escalate", "verdict"} => at = "plan"
        /\ at \in Gates /\ row \in RunRows /\ cancels \in Nat
        /\ AtQuestion \/ pc \in {"askRun", "apply"} => at = "ask" /\ "plan" \notin opened
        /\ pc = "rollback" /\ mem = "ok" => patched = 0
    BY DEF TypeOK, PlaceInv, WorkInv
  <1> USE DEF OutcomeInv, Succeeding, AfterThrow, execVars, posVars, workVars,
              gateVars, humanVars, Start, Inside, Goto
  <1>1. CASE WriteRow
    <2>1. PICK p \in RowSteps : pc = p /\ row' = RowAfter(p) /\ mem' = "ok"
      BY <1>1 DEF WriteRow
    <2> QED
      BY <1>1, <1>0, <2>1, RowAfterOutcome DEF WriteRow, RowSteps
  <1>2. CASE Compile \/ Decide
    BY <1>2 DEF Compile, Decide, Produce
  <1>3. CASE ApplyPatch \/ Rollback
    BY <1>3, <1>0 DEF ApplyPatch, Rollback, AtQuestion
  <1>4. CASE CheckPrompt \/ OpenGate \/ EmitPrompt
    BY <1>4 DEF CheckPrompt, OpenGate, EmitPrompt
  <1>5. CASE Receive
    BY <1>5 DEF Receive
  <1>6. CASE EmitResult
    BY <1>6, <1>0 DEF EmitResult, Throw, Catch, AtQuestion, Gates
  <1>7. CASE Escalate
    BY <1>7 DEF Escalate
  <1>8. CASE Verdict
    BY <1>8 DEF Verdict, Throw, Catch
  <1>9. CASE Bridge \/ SendToSelf
    BY <1>9 DEF Bridge, SendToSelf
  <1>10. CASE BuildTasks \/ StartTask
    BY <1>10 DEF BuildTasks, StartTask, Throw, Catch
  <1>11. CASE TaskEnds
    BY <1>11 DEF TaskEnds
  <1>12. CASE Join
    BY <1>12 DEF Join, Throw, Catch
  <1>13. CASE SaveReceipt \/ SaveExecuteRow \/ EmitBudgetArtifact
    BY <1>13 DEF SaveReceipt, SaveExecuteRow, EmitBudgetArtifact
  <1>14. CASE EmitTerminal
    BY <1>14 DEF EmitTerminal
  <1>15. CASE Record
    BY <1>15, <1>0
       DEF Record, Flow, Catch, Throw, BodySteps, RowSteps, FallibleSteps,
           ClockedSteps, AtQuestion
  <1>16. CASE Finish \/ Dequeue \/ Recover \/ Crash
    BY <1>16 DEF Finish, Dequeue, Recover, Crash
  <1>17. CASE Cancel \/ Resume
    BY <1>17, <1>0 DEF Cancel, Resume
  <1>18. CASE StopCancelled
    <2>1. CASE row' = row
      BY <1>18, <2>1 DEF StopCancelled
    <2>2. CASE pc \notin CatchSteps \cup {"end"} /\ row'.status = "canceled"
      BY <1>18, <2>2 DEF StopCancelled
    <2> QED
      BY <1>18, <1>0, <2>1, <2>2
         DEF StopCancelled, SetFailure, Settle, RunRows, TerminalStatus
  <1>19. ASSUME NEW c \in Clients, PostReply(c) \/ ApprovePlan(c) \/ SendMessage(c)
         PROVE OutcomeInv'
    BY <1>19 DEF PostReply, ApprovePlan, SendMessage
  <1>20. CASE UNCHANGED vars
    BY <1>20 DEF vars
  <1> QED
    BY <1>1, <1>2, <1>3, <1>4, <1>5, <1>6, <1>7, <1>8, <1>9, <1>10, <1>11, <1>12,
       <1>13, <1>14, <1>15, <1>16, <1>17, <1>18, <1>19, <1>20
       DEF Next, Step, Scheduler, Environment

\* A topic with one message more is not empty.
LEMMA AppendNonempty ==
  ASSUME NEW S, NEW q \in Seq(S), NEW m \in S
  PROVE  Append(q, m) # <<>>
  <1>1. Len(Append(q, m)) = Len(q) + 1 /\ Len(q) \in Nat
    OBVIOUS
  <1>2. Len(<<>>) = 0
    OBVIOUS
  <1> QED
    BY <1>1, <1>2

LEMMA NextAnswer == IInv /\ [Next]_vars => AnswerInv'
  <1> SUFFICES ASSUME TypeOK, PlaceInv, WorkInv, OutcomeInv, AnswerInv, [Next]_vars
               PROVE AnswerInv'
    BY DEF IInv
  <1>0. /\ mem # "none" => pc \in BodySteps
        /\ mem = "err" => pc \in FallibleSteps
        /\ pc \in {"escalate", "verdict"} =>
             at = "plan" /\ result["plan"] = (IF TimedOut THEN "TIMED_OUT" ELSE "RECEIVED")
        /\ pc = "escalate" => TimedOut
        /\ decision # "none" => pc \in AfterVerdict \cup AfterThrow
        /\ at \in Gates /\ patched \in 0..Patches
        /\ result \in [Gates -> {"none", "RECEIVED", "TIMED_OUT"}]
        /\ reply \in [Gates -> Payloads \cup {"none", "timeout"}]
        /\ pc = "send" => at = "plan"
        /\ pc \in AfterThrow \ {"end"} => err # "null"
        /\ AtQuestion \/ pc \in {"askRun", "apply"} => at = "ask"
    BY DEF TypeOK, PlaceInv, WorkInv, OutcomeInv
  <1> USE DEF AnswerInv, TimeoutEscalates, AnswerPrecedesPatches, AtQuestion,
              PastApply, Succeeding, AfterVerdict, AfterThrow, TimedOut, execVars,
              posVars, workVars, gateVars, humanVars, Start, Inside, Goto
  <1>1. CASE WriteRow
    BY <1>1, <1>0 DEF WriteRow, RowSteps
  <1>2. CASE Compile \/ Decide
    BY <1>2, <1>0 DEF Compile, Decide, Produce
  <1>3. CASE ApplyPatch \/ Rollback
    BY <1>3, <1>0, PatchesAssumption DEF ApplyPatch, Rollback
  <1>4. CASE CheckPrompt \/ OpenGate \/ EmitPrompt
    BY <1>4, <1>0 DEF CheckPrompt, OpenGate, EmitPrompt, Gates
  <1>5. CASE Receive
    BY <1>5, <1>0 DEF Receive, Gates, Payloads
  <1>6. CASE EmitResult
    <2>1. CASE at = "ask"
      <3>1. /\ result' = [result EXCEPT !["ask"] = IF TimedOut THEN "TIMED_OUT" ELSE "RECEIVED"]
            /\ pc' = (IF TimedOut THEN "fail" ELSE "askRun")
            /\ UNCHANGED <<at, patched, decision, escalated, opened>>
        BY <1>6, <2>1 DEF EmitResult, Throw, Catch
      <3>2. AskGate /\ patched = 0 /\ decision = "none"
        BY <1>6, <1>0, <2>1 DEF EmitResult
      <3>3. result'["plan"] = result["plan"] /\ (~TimedOut => result'["ask"] = "RECEIVED")
        BY <1>0, <3>1 DEF Gates
      <3> QED
        BY <3>1, <3>2, <3>3
    <2>2. CASE at = "plan"
      BY <1>6, <1>0, <2>2 DEF EmitResult, Gates
    <2> QED
      BY <1>0, <2>1, <2>2 DEF Gates
  <1>7. CASE Escalate
    BY <1>7, <1>0 DEF Escalate
  <1>8. CASE Verdict
    BY <1>8, <1>0 DEF Verdict, Throw, Catch, Choice
  <1>9. CASE Bridge
    BY <1>9, <1>0 DEF Bridge
  <1>10. CASE SendToSelf
    <2>1. mail'["plan"] # <<>>
      BY <1>10 DEF SendToSelf, TypeOK, Gates
    <2> QED
      BY <1>10, <1>0, <2>1 DEF SendToSelf
  <1>11. CASE BuildTasks \/ StartTask
    BY <1>11, <1>0 DEF BuildTasks, StartTask, Throw, Catch
  <1>12. CASE TaskEnds
    BY <1>12, <1>0 DEF TaskEnds
  <1>13. CASE Join
    BY <1>13, <1>0 DEF Join, Throw, Catch
  <1>14. CASE SaveReceipt \/ SaveExecuteRow \/ EmitBudgetArtifact
    BY <1>14, <1>0 DEF SaveReceipt, SaveExecuteRow, EmitBudgetArtifact
  <1>15. CASE EmitTerminal
    BY <1>15, <1>0 DEF EmitTerminal
  <1>16. CASE Record
    BY <1>16, <1>0
       DEF Record, Flow, Catch, Throw, BodySteps, RowSteps, FallibleSteps, OutcomeInv
  <1>17. CASE Finish \/ Dequeue \/ Recover \/ Crash \/ Resume
    BY <1>17, <1>0 DEF Finish, Dequeue, Recover, Crash, Resume
  <1>18. CASE Cancel
    BY <1>18, <1>0 DEF Cancel, TypeOK
  <1>19. CASE StopCancelled
    BY <1>19 DEF StopCancelled
  <1>20. ASSUME NEW c \in Clients, PostReply(c) PROVE AnswerInv'
    BY <1>20 DEF PostReply, TypeOK, Client
  <1>21. ASSUME NEW c \in Clients, ApprovePlan(c) PROVE AnswerInv'
    <2>1. cancels = 0 /\ row.status \in TerminalStatus =>
            pc \in {"fail", "failEvt", "end", "succeed", "succeedEvt"}
      BY DEF OutcomeInv, PlaceInv, TerminalStatus
    <2>2. row.status \in TerminalStatus \/ client'[c].st = "approving"
      BY <1>21 DEF ApprovePlan, TypeOK
    <2> QED
      BY <1>21, <2>1, <2>2 DEF ApprovePlan
  <1>22. ASSUME NEW c \in Clients, SendMessage(c) PROVE AnswerInv'
    <2> DEFINE g == IF client[c].st = "replying" THEN client[c].gate ELSE LatestGate
    <2>1. g \in Gates /\ mail \in [Gates -> Seq(Payloads)]
      BY DEF TypeOK, Client, LatestGate, Gates
    <2> DEFINE p == IF client[c].st = "replying" THEN client[c].payload ELSE "yes"
    <2>3. p \in Payloads
      BY DEF TypeOK, Client, Payloads
    <2>4. mail' = [mail EXCEPT ![g] = Append(@, p)] /\ Append(mail[g], p) # <<>>
      BY <1>22, <2>1, <2>3, AppendNonempty DEF SendMessage
    <2> HIDE DEF g, p
    <2>5. CASE client[c].st = "approving"
      <3>1. ~AskGate => g = "plan"
        BY <2>5 DEF g, LatestGate
      <3>2. ~AskGate => mail'["plan"] # <<>>
        BY <1>22, <2>1, <3>1, <2>4 DEF SendMessage, Gates
      <3> QED
        BY <1>22, <3>2 DEF SendMessage
    <2>6. CASE client[c].st = "replying"
      <3>1. mail["plan"] # <<>> => mail'["plan"] # <<>>
        BY <1>22, <2>1, <2>4 DEF SendMessage, Gates
      <3>2. (\A d \in Clients : client'[d].st # "approving")
              => (\A d \in Clients : client[d].st # "approving")
        BY <1>22, <2>6 DEF SendMessage, TypeOK
      <3> QED
        BY <1>22, <3>1, <3>2 DEF SendMessage
    <2> QED
      BY <1>22, <2>5, <2>6 DEF SendMessage
  <1>23. CASE UNCHANGED vars
    BY <1>23 DEF vars
  <1> QED
    BY <1>1, <1>2, <1>3, <1>4, <1>5, <1>6, <1>7, <1>8, <1>9, <1>10, <1>11, <1>12,
       <1>13, <1>14, <1>15, <1>16, <1>17, <1>18, <1>19, <1>20, <1>21, <1>22, <1>23
       DEF Next, Step, Scheduler, Environment
-----------------------------------------------------------------------------
(* The theorems. *)

\* The state stays well typed, and the position in the log determines how far
\* the rest of the run has got.
THEOREM Invariance == Spec => []IInv
  <1>1. Init => IInv
    BY InitTyped, InitPlaced, InitProgress DEF IInv
  <1>2. IInv /\ [Next]_vars => IInv'
    BY NextTyped, NextPlaced, NextWork, NextOutcome, NextAnswer DEF IInv
  <1> QED
    BY <1>1, <1>2, PTL DEF Spec

\* Whatever the number of tasks, of people who answer and of crashes, nothing
\* runs in the sandbox that a yes at the plan gate did not release.
THEOREM Approval == Spec => []ApprovalGuardsExecution
  <1>1. PlaceInv => ApprovalGuardsExecution
    BY DEF PlaceInv, ApprovalGuardsExecution, Approved
  <1> QED
    BY <1>1, Invariance, PTL DEF IInv

\* A run that shows success has its patches, its rows and every task's good
\* result; one that was given up after the plan gate was opened has none of its
\* patches left; and DBOS's outcome is the row's, but for a late cancel.
THEOREM Honesty == Spec => []EndsHonestly
  <1>1. IInv => SuccessIsComplete
    BY DEF IInv, TypeOK, WorkInv, OutcomeInv, SuccessIsComplete, PastApply,
           Succeeding, StepIds
  <1>2. IInv => FailureRollsBack
    BY DEF IInv, OutcomeInv, FailureRollsBack
  <1>3. IInv => OutcomesAgree
    BY DEF IInv, OutcomeInv, OutcomesAgree
  <1> QED
    BY <1>1, <1>2, <1>3, Invariance, PTL DEF EndsHonestly

\* A decision that nobody took is a no, and somebody else hears of it.
THEOREM Escalation == Spec => []TimeoutEscalates
  <1>1. IInv => TimeoutEscalates
    BY DEF IInv, AnswerInv
  <1> QED
    BY <1>1, Invariance, PTL

\* No file changes before the question the intent asks was answered.
THEOREM AskedFirst == Spec => []AnswerPrecedesPatches
  <1>1. IInv => AnswerPrecedesPatches
    BY DEF IInv, AnswerInv
  <1> QED
    BY <1>1, Invariance, PTL

\* An approval that was accepted before the plan gate takes its reply is in the
\* gate's mail by then, for any number of people and any interleaving of their
\* requests with the workflow's steps and crashes.
THEOREM ApprovalArrives == Spec => []ApprovalReachesGate
  <1>1. IInv => ApprovalReachesGate
    BY DEF IInv, AnswerInv, ApprovalReachesGate
  <1> QED
    BY <1>1, Invariance, PTL

\* No step of anybody takes the run's row out of a terminal status.
THEOREM Sticky == Spec => TerminalSticky
  <1>1. TypeOK /\ PlaceInv /\ [Next]_vars
          => (row.status \in TerminalStatus => row'.status \in TerminalStatus)
    <2> SUFFICES ASSUME TypeOK, [Next]_vars, row.status \in TerminalStatus
                 PROVE  row'.status \in TerminalStatus
      OBVIOUS
    <2>1. CASE WriteRow
      <3>1. PICK p \in RowSteps : row' = RowAfter(p)
        BY <2>1 DEF WriteRow
      <3> QED
        BY <3>1, RowAfterStatus DEF TypeOK
    <2>2. CASE StopCancelled
      BY <2>2 DEF StopCancelled, SetFailure, Settle, TypeOK, RunRows, TerminalStatus
    <2>3. CASE UNCHANGED row
      BY <2>3
    <2> QED
      BY <2>1, <2>2, <2>3
         DEF Next, Step, Scheduler, Environment, Compile, Decide, Produce,
             ApplyPatch, Rollback, CheckPrompt, OpenGate, EmitPrompt, Receive,
             EmitResult, Escalate, Verdict, Bridge, SendToSelf, BuildTasks,
             StartTask, TaskEnds, Join, SaveReceipt, SaveExecuteRow,
             EmitBudgetArtifact, EmitTerminal, Record, Finish, Dequeue, Recover,
             Crash, Cancel, Resume, PostReply, ApprovePlan, SendMessage, vars
  <1> QED
    BY <1>1, Invariance, PTL DEF Spec, IInv, TerminalSticky

\* The plan gate's decision and the reply it rests on are never replaced.
THEOREM Decided == Spec => DecisionStable
  <1>1. TypeOK /\ PlaceInv /\ [Next]_vars
          => (decision # "none" => decision' = decision /\ reply'["plan"] = reply["plan"])
    <2> SUFFICES ASSUME PlaceInv, [Next]_vars, decision # "none"
                 PROVE  decision' = decision /\ reply'["plan"] = reply["plan"]
      OBVIOUS
    <2>1. pc \notin {"recv", "verdict"}
      BY DEF PlaceInv, AfterVerdict, AfterThrow
    <2>2. UNCHANGED <<decision, reply>>
      BY <2>1
         DEF Next, Step, Scheduler, Environment, WriteRow, Compile, Decide,
             Produce, ApplyPatch, Rollback, CheckPrompt, OpenGate, EmitPrompt,
             Receive, EmitResult, Escalate, Verdict, Bridge, SendToSelf,
             BuildTasks, StartTask, TaskEnds, Join, SaveReceipt, SaveExecuteRow,
             EmitBudgetArtifact, EmitTerminal, Record, Finish, StopCancelled,
             Dequeue, Recover, Crash, Cancel, Resume, PostReply, ApprovePlan,
             SendMessage, Start, vars, gateVars
    <2> QED
      BY <2>2
  <1> QED
    BY <1>1, Invariance, PTL DEF Spec, IInv, DecisionStable

\* The run implements the contract: whatever it does to its row, its verdict
\* and its task workflows is a step the contract allows, or none.
THEOREM Refinement == Spec => KeepsContract
  <1>1. Init => Contract!CInit
    BY DEF Init, NewRun, Launched, Contract!CInit
  <1>2. TypeOK /\ PlaceInv /\ [Next]_vars => [Contract!CNext]_(Contract!cvars)
    <2> SUFFICES ASSUME TypeOK, PlaceInv, [Next]_vars
                 PROVE  Contract!CNext \/ UNCHANGED Contract!cvars
      OBVIOUS
    <2> USE DEF Contract!CNext, Contract!cvars, Contract!OpenStatus,
                vars, execVars, posVars, workVars, gateVars, humanVars, Start, Goto
    <2>1. CASE WriteRow
      <3>1. PICK p \in RowSteps : pc = p /\ row' = RowAfter(p)
        BY <2>1 DEF WriteRow
      <3>2. UNCHANGED <<decision, Launched>>
        BY <2>1 DEF WriteRow, Launched
      <3>3. CASE p = "succeed"
        <4>1. decision = "yes" /\ Launched = Tasks
          BY <3>1, <3>3 DEF PlaceInv, AfterVerdict, Approved, SomeTask, Launched
        <4>2. row'.status = "succeeded"
          BY <3>1, <3>3, RowAfterStatus DEF TypeOK
        <4> QED
          BY <3>2, <4>1, <4>2 DEF Contract!Succeed
      <3>4. CASE p = "fail"
        <4>1. row.status # "succeeded"
          BY <3>1, <3>4 DEF PlaceInv
        <4>2. row'.status = "retries_exceeded"
          BY <3>1, <3>4, RowAfterStatus DEF TypeOK
        <4> QED
          BY <3>2, <4>1, <4>2 DEF Contract!GiveUp
      <3>5. CASE p \notin {"succeed", "fail"}
        <4>1. /\ row'.status \in {row.status, "running", "waiting_input"}
              /\ row.status \in TerminalStatus => row'.status \in TerminalStatus
          BY <3>1, <3>5, RowAfterStatus DEF TypeOK
        <4>2. row.status \in {"queued", "running", "waiting_input"} \cup TerminalStatus
          BY DEF TypeOK, RunRows, RunStatus, PlaceInv, TerminalStatus
        <4> QED
          BY <3>2, <4>1, <4>2 DEF Contract!Progress, TerminalStatus
      <3> QED
        BY <3>3, <3>4, <3>5
    <2>2. CASE StopCancelled
      <3>1. UNCHANGED <<decision, Launched>>
        BY <2>2 DEF StopCancelled, Launched
      <3>2. row' = row \/ row'.status = "canceled"
        BY <2>2 DEF StopCancelled, SetFailure, Settle, TypeOK, RunRows, TerminalStatus
      <3> QED
        BY <3>1, <3>2 DEF Contract!Stop
    <2>3. CASE Verdict
      <3>1. decision = "none"
        BY <2>3 DEF Verdict, PlaceInv, AfterVerdict, AfterThrow
      <3>2. decision' \in {"yes", "no"} /\ UNCHANGED <<row, Launched>>
        BY <2>3 DEF Verdict, Choice, Launched
      <3> QED
        BY <3>1, <3>2 DEF Contract!Rule
    <2>4. CASE StartTask
      <3>1. decision = "yes" /\ UNCHANGED <<row, decision>>
        BY <2>4 DEF StartTask, PlaceInv, AfterVerdict, Approved
      <3>2. CASE UNCHANGED child
        BY <3>1, <3>2 DEF Launched
      <3>3. ASSUME NEW t \in Tasks, child[t] = "none",
                   child' = [child EXCEPT ![t] = "queued"]
            PROVE  Contract!Launch
        <4>1. Launched' = Launched \cup {t} /\ t \in Tasks \ Launched
          BY <3>3 DEF Launched, TypeOK
        <4> QED
          BY <3>1, <4>1 DEF Contract!Launch
      <3> QED
        BY <2>4, <3>2, <3>3 DEF StartTask
    <2>5. CASE TaskEnds
      <3>1. Launched' = Launched
        BY <2>5 DEF TaskEnds, Launched, TypeOK
      <3> QED
        BY <2>5, <3>1 DEF TaskEnds
    <2>6. CASE UNCHANGED <<row, decision, child>>
      BY <2>6 DEF Launched
    <2> QED
      BY <2>1, <2>2, <2>3, <2>4, <2>5, <2>6
         DEF Next, Step, Scheduler, Environment, Compile, Decide, Produce,
             ApplyPatch, Rollback, CheckPrompt, OpenGate, EmitPrompt, Receive,
             EmitResult, Escalate, Bridge, SendToSelf, BuildTasks, Join,
             SaveReceipt, SaveExecuteRow, EmitBudgetArtifact, EmitTerminal,
             Record, Finish, Dequeue, Recover, Crash, Cancel, Resume, PostReply,
             ApprovePlan, SendMessage
  <1> QED
    BY <1>1, <1>2, Invariance, PTL DEF Spec, IInv, KeepsContract, Contract!CSpec
=============================================================================
