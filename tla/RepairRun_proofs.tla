--------------------------- MODULE RepairRun_proofs ---------------------------
(***************************************************************************)
(* For every set of tasks, operators and failures: what a repair executes  *)
(* was approved, what DBOS recorded of it is what the row says, and a run  *)
(* it left open has somebody to answer for it.                             *)
(***************************************************************************)
EXTENDS RepairRun, TLAPS

Placed == \A w \in Executors : PlaceInv(w)
IInv == TypeOK /\ Placed /\ ApprovalInv /\ RepairKeepsApproval /\ ResultInv
          /\ OutcomeInv /\ OpenInv

\* What the helpers on exec do to the executor they name, and to no other.
Others(w) == \A v \in Executors : v # w => exec'[v] = exec[v]
SameRun(w) ==
  /\ exec'[w].db = exec[w].db /\ exec'[w].live = exec[w].live
  /\ exec'[w].seen = exec[w].seen /\ exec'[w].tmpl = exec[w].tmpl

\* An executor's record that stays one keeps the type of the map.
LEMMA StaysExec ==
  ASSUME exec \in [Executors -> ExecStates], NEW w \in Executors, NEW n \in ExecStates,
         exec' = [exec EXCEPT ![w] = n]
  PROVE  /\ exec' \in [Executors -> ExecStates]
         /\ exec'[w] = n /\ Others(w)
  BY DEF Others

LEMMA MemIs ==
  ASSUME exec \in [Executors -> ExecStates], NEW w \in Executors,
         NEW m \in {"none", "run", "ok", "err"}, Mem(w, m)
  PROVE  /\ exec' \in [Executors -> ExecStates]
         /\ Others(w) /\ SameRun(w)
         /\ exec'[w].mem = m /\ exec'[w].pc = exec[w].pc /\ exec'[w].err = exec[w].err
  BY DEF Mem, ExecStates, Others, SameRun

LEMMA GotoIs ==
  ASSUME exec \in [Executors -> ExecStates], NEW w \in Executors,
         NEW p \in Positions, Goto(w, p)
  PROVE  /\ exec' \in [Executors -> ExecStates]
         /\ Others(w) /\ SameRun(w)
         /\ exec'[w].mem = "none" /\ exec'[w].pc = p /\ exec'[w].err = exec[w].err
<1>1. exec' = [exec EXCEPT ![w].pc = p, ![w].mem = "none"]
  BY DEF Goto
<1> QED  BY <1>1 DEF ExecStates, Others, SameRun

LEMMA ThrowIs ==
  ASSUME exec \in [Executors -> ExecStates], NEW w \in Executors,
         NEW e \in Errors, Throw(w, e)
  PROVE  /\ exec' \in [Executors -> ExecStates]
         /\ Others(w) /\ SameRun(w)
         /\ exec'[w].mem = "none" /\ exec'[w].err = e
         /\ exec'[w].pc = IF e = "budget" THEN "budget" ELSE "fail"
<1> DEFINE p == IF e = "budget" THEN "budget" ELSE "fail"
<1>1. exec' = [exec EXCEPT ![w].pc = p, ![w].mem = "none", ![w].err = e]
  BY DEF Throw
<1>2. p \in Positions
  BY DEF Positions
<1> HIDE DEF p
<1>3. /\ exec' \in [Executors -> ExecStates]
      /\ Others(w) /\ SameRun(w)
      /\ exec'[w].mem = "none" /\ exec'[w].err = e /\ exec'[w].pc = p
  <2> DEFINE n == [exec[w] EXCEPT !.pc = p, !.mem = "none", !.err = e]
  <2>1. exec[w] \in ExecStates
    OBVIOUS
  <2>2. /\ n \in ExecStates /\ n.mem = "none" /\ n.err = e /\ n.pc = p
        /\ n.db = exec[w].db /\ n.live = exec[w].live
        /\ n.seen = exec[w].seen /\ n.tmpl = exec[w].tmpl
    BY <1>2, <2>1 DEF ExecStates
  <2>3. exec' = [exec EXCEPT ![w] = n]
    BY <1>1
  <2> HIDE DEF n
  <2> QED  BY <2>2, <2>3, StaysExec DEF SameRun
<1> QED  BY <1>3 DEF p

\* Where the branches on the checkpoints lead.
LEMMA Branches ==
  ASSUME NEW seen \in StepRows, NEW p \in {FromCompile(seen), FromApply(seen), FromDecide(seen)}
  PROVE  /\ p \in {"compile", "apply", "planWait", "build", "succeed", "sbx"}
         /\ p \in {"build", "succeed", "sbx"} => seen["DecideST"] # "none"
         /\ p = "build" => seen["ExecuteST"] = "none"
         /\ p = "succeed" => seen["ExecuteST"] = "ok"
         /\ p = "sbx" => seen["ExecuteST"] = "bad"
<1>1. seen["ExecuteST"] \in {"none", "ok", "bad"}
  BY DEF StepRows, StepIds
<1> QED  BY <1>1 DEF FromCompile, FromApply, FromDecide, Execute

RowSteps == {"compiled", "applied", "planWait", "planOps", "saved", "succeed", "fail"}

\* Where an executor goes after a step that does not end elsewhere.
LEMMA AfterIs ==
  ASSUME TypeOK, NEW w \in Executors,
         exec[w].pc \in RowSteps \cup {"reopen", "compile", "apply", "save"}
  PROVE  /\ After(w) \in Positions
         /\ exec[w].pc \in {"compiled", "applied"} =>
              After(w) \in {FromApply(exec[w].seen), FromDecide(exec[w].seen)}
         /\ exec[w].pc \notin {"compiled", "applied"} => After(w) = Flow[exec[w].pc]
<1>1. exec[w].seen \in StepRows
  BY DEF TypeOK, ExecStates
<1>2. \A p \in {FromApply(exec[w].seen), FromDecide(exec[w].seen)} : p \in Positions
  BY <1>1, Branches DEF Positions
<1>3. exec[w].pc \in {"compiled", "applied"} =>
              After(w) \in {FromApply(exec[w].seen), FromDecide(exec[w].seen)}
  BY DEF After
<1>4. exec[w].pc \notin {"compiled", "applied"} => After(w) = Flow[exec[w].pc]
  BY DEF After, RowSteps
<1>5. exec[w].pc \notin {"compiled", "applied"} => Flow[exec[w].pc] \in Positions
  BY DEF Flow, RowSteps, Positions
<1> QED  BY <1>2, <1>3, <1>4, <1>5

LEMMA RowAfterTyped ==
  ASSUME TypeOK, NEW w \in Executors, NEW p \in RowSteps
  PROVE  RowAfter(w, p) \in RunRows
<1>1. exec[w].err \in Errors /\ row \in RunRows
  BY DEF TypeOK, ExecStates
<1>2. /\ SetLastStep(row, "CompileST") \in RunRows
      /\ SetLastStep(row, "ApplyPatchST") \in RunRows
      /\ SetLastStep(row, "ExecuteST") \in RunRows
      /\ SetNextAction(row, "APPROVE_PLAN") \in RunRows
  BY <1>1 DEF RunRows, SetLastStep, SetNextAction, StepIds, NextActions
<1>3. /\ SetStatus(row, "waiting_input") \in RunRows
      /\ SetStatus(row, "succeeded") \in RunRows
      /\ SetFailure(row, "retries_exceeded", exec[w].err, "REPAIR") \in RunRows
  BY <1>1 DEF RunRows, RunStatus, SetStatus, SetFailure, Settle, NextActions
<1> QED  BY <1>2, <1>3 DEF RowAfter, RowSteps

LEMMA InitInv == Init => IInv
<1> SUFFICES ASSUME Init PROVE IInv
  OBVIOUS
<1>1. PICK f \in Failures :
       /\ row = [status |-> f.status, lastStep |-> f.lastStep, error |-> f.error,
                 nextAction |-> "REPAIR", retryCount |-> 0]
       /\ steps = f.steps /\ receipts = f.receipts /\ patched = f.patched
       /\ approved = f.approved /\ gate = f.gate /\ escalated = FALSE
       /\ child = [k \in Keys |-> IF k[2] = "cold" THEN f.child ELSE "none"]
  BY DEF Init
<1>2. /\ f.status \in {"failed", "retries_exceeded"} /\ f.lastStep \in StepIds \cup {"null"}
      /\ f.error \in Errors /\ f.steps \in StepRows /\ f.receipts \in Nat
      /\ f.patched \in BOOLEAN /\ f.approved \in BOOLEAN /\ f.gate \in BOOLEAN
      /\ f.child \in TaskStates
      /\ f.steps["DecideST"] # "none" \/ f.child # "none" => f.approved
      /\ f.steps["ExecuteST"] = "ok" => f.child = "ok"
  BY FailuresAssumption
<1>3. row \in RunRows /\ row.status \in {"failed", "retries_exceeded"}
  BY <1>1, <1>2 DEF RunRows, RunStatus, NextActions
<1>4. \A w \in Executors : exec[w] = NoExecutor
  BY DEF Init
<1>5. NoExecutor \in ExecStates
  BY RepairAssumption DEF NoExecutor, ExecStates, DbosStatus, Open, Positions, Errors,
       StepRows, Templates
<1>6. exec \in [Executors -> ExecStates]
  BY <1>5 DEF Init
<1>7. child \in [Keys -> TaskStates]
  BY <1>1, <1>2 DEF TaskStates
<1>8. mail \in [{"run"} \cup Executors -> BOOLEAN] /\ \A w \in Executors : mail[w] = FALSE
  BY DEF Init
<1>9. operator \in [Operators -> [at : {"idle", "act", "audit"}, op : Ops, on : Executors]]
  BY DEF Init, Idle, Ops, Executors
<1>10. {patched, approved, approvals, gate, escalated, hot} \subseteq BOOLEAN
  BY <1>1, <1>2 DEF Init
<1>11. TypeOK
  BY <1>1, <1>2, <1>3, <1>6, <1>7, <1>8, <1>9, <1>10 DEF TypeOK, Init
<1>12. Placed
  BY <1>4 DEF Placed, PlaceInv, NoExecutor, CatchSteps, Ended
<1>13. ApprovalInv /\ RepairKeepsApproval
  <2>1. ApprovalInv
    BY <1>1, <1>2, <1>4, <1>8 DEF ApprovalInv, NoExecutor, Executing, Succeeding, StepIds
  <2>2. \A k \in Keys : child[k] \in {f.child, "none"}
    BY <1>1
  <2> QED  BY <2>1, <2>2, <1>1, <1>2 DEF RepairKeepsApproval
<1>14. ResultInv
  <2>1. steps["ExecuteST"] = "ok" => \A t \in Tasks : child[<<t, "cold">>] = "ok"
    BY <1>1, <1>2 DEF Keys, Templates
  <2> QED  BY <2>1, <1>4 DEF ResultInv, AllGood, NoExecutor, Executing, StepIds, Templates
<1>15. OutcomeInv
  BY <1>3, <1>4 DEF OutcomeInv, NoExecutor, Executors, StepIds, Succeeding
<1>16. OpenInv
  BY <1>3, <1>4 DEF OpenInv, NoExecutor, Init, Idle, TerminalStatus
<1> QED  BY <1>11, <1>12, <1>13, <1>14, <1>15, <1>16 DEF IInv
-----------------------------------------------------------------------------
\* The writes of the row that are reached, and the branch they take.
LEMMA WriteIs ==
  ASSUME TypeOK, ApprovalInv, NEW w \in Executors, WriteRow(w)
  PROVE  \E p \in RowSteps : /\ Start(w, p) /\ row' = RowAfter(w, p)
                            /\ Goto(w, After(w)) /\ After(w) \in Positions
<1>1. PICK p \in {"compiled", "applied", "planWait", "planOps", "planClear", "planRun",
                  "decided", "saved", "succeed", "fail"} :
        Start(w, p) /\ row' = RowAfter(w, p)
  BY DEF WriteRow
<1>2. p \in RowSteps
  BY <1>1 DEF ApprovalInv, RowSteps, Start
<1>3. exec[w].pc \in RowSteps
  BY <1>1, <1>2 DEF Start
<1>4. After(w) \in Positions
  BY <1>3, AfterIs
<1> QED  BY <1>1, <1>2, <1>4 DEF WriteRow

\* Nothing is decided by a repair.
LEMMA NoDecide ==
  ASSUME ApprovalInv, NEW w \in Executors
  PROVE  ~Produce(w, "decide", "DecideST")
  BY DEF ApprovalInv, Produce, Start

\* A recorded step goes on, runs out of time or fails.
LEMMA RecordIs ==
  ASSUME TypeOK, Placed, ApprovalInv, NEW w \in Executors, Record(w)
  PROVE  /\ exec[w].pc \in {"reopen", "compile", "apply", "save"}
         /\ \/ /\ exec[w].mem = "ok" /\ Goto(w, Flow[exec[w].pc])
               /\ Flow[exec[w].pc] \in {"read", "compiled", "applied", "saved"}
            \/ /\ exec[w].mem = "ok" /\ exec[w].pc \in {"compile", "apply"}
               /\ Throw(w, "budget")
            \/ exec[w].mem = "err" /\ Throw(w, "step")
<1>1. exec[w].pc \in {"reopen", "compile", "apply", "save"}
  BY DEF Record, Placed, PlaceInv, ApprovalInv
<1>2. After(w) = Flow[exec[w].pc]
  BY <1>1, AfterIs
<1>3. Flow[exec[w].pc] \in {"read", "compiled", "applied", "saved"}
  BY <1>1 DEF Flow
<1> QED  BY <1>1, <1>2, <1>3 DEF Record, ApprovalInv

LEMMA StepTyped ==
  ASSUME TypeOK, Placed, ApprovalInv, NEW w \in Executors, Step(w)
  PROVE  TypeOK'
<1> USE DEF runVars, gateVars, taskVars, opsVars
<1>0. exec \in [Executors -> ExecStates] /\ row \in RunRows /\ steps \in StepRows
  BY DEF TypeOK
<1>a. \A p \in Positions : Goto(w, p) => exec' \in [Executors -> ExecStates]
  BY <1>0, GotoIs
<1>b. \A e \in Errors : Throw(w, e) => exec' \in [Executors -> ExecStates]
  BY <1>0, ThrowIs
<1>c. \A m \in {"none", "run", "ok", "err"} : Mem(w, m) => exec' \in [Executors -> ExecStates]
  BY <1>0, MemIs
<1>d. \A s \in StepIds, v \in {"none", "ok", "bad"} : [steps EXCEPT ![s] = v] \in StepRows
  BY <1>0 DEF StepRows
<1>1. CASE RaiseRetryCount(w)
  <2>1. row' \in RunRows
    BY <1>0, <1>1 DEF RaiseRetryCount, RunRows
  <2> QED  BY <1>1, <1>c, <2>1 DEF RaiseRetryCount, TypeOK
<1>2. CASE Reopen(w)
  <2>1. row' \in RunRows
    BY <1>0, <1>2 DEF Reopen, RunRows, RunStatus, NextActions, Settle
  <2> QED  BY <1>2, <1>c, <2>1 DEF Reopen, TypeOK
<1>3. CASE ReadCheckpoints(w)
  <2>1. FromCompile(steps) \in Positions
    BY <1>0, Branches DEF Positions
  <2>2. exec' \in [Executors -> ExecStates]
    <3> DEFINE n == [exec[w] EXCEPT !.seen = steps, !.pc = FromCompile(steps)]
    <3>1. exec[w] \in ExecStates /\ steps \in StepRows
      BY <1>0 DEF TypeOK
    <3>2. n \in ExecStates
      BY <2>1, <3>1 DEF ExecStates
    <3>3. exec' = [exec EXCEPT ![w] = n]
      BY <1>3 DEF ReadCheckpoints
    <3> HIDE DEF n
    <3> QED  BY <1>0, <3>2, <3>3, StaysExec
  <2> QED  BY <1>3, <2>2 DEF ReadCheckpoints, TypeOK
<1>4. CASE WriteRow(w)
  <2>1. PICK p \in RowSteps : /\ Start(w, p) /\ row' = RowAfter(w, p)
                            /\ Goto(w, After(w)) /\ After(w) \in Positions
    BY <1>4, WriteIs
  <2>2. row' \in RunRows
    BY <2>1, RowAfterTyped
  <2> QED  BY <1>4, <1>a, <2>1, <2>2 DEF WriteRow, TypeOK
<1>5. CASE Produce(w, "compile", "CompileST")
  <2>1. steps' \in StepRows
    BY <1>0, <1>5, <1>d DEF Produce, StepIds
  <2> QED  BY <1>5, <1>c, <2>1 DEF Produce, TypeOK
<1>6. CASE Produce(w, "decide", "DecideST")
  BY <1>6, NoDecide
<1>7. CASE ApplyPatch(w)
  <2>1. steps' \in StepRows /\ patched' \in BOOLEAN
    BY <1>0, <1>7, <1>d DEF ApplyPatch, StepIds, TypeOK
  <2> QED  BY <1>7, <1>c, <2>1 DEF ApplyPatch, TypeOK
<1>8. CASE Bridge(w)
  <2>1. mail' \in [{"run"} \cup Executors -> BOOLEAN]
    BY <1>8 DEF Bridge, TypeOK
  <2> QED  BY <1>8, <1>a, <2>1 DEF Bridge, TypeOK, Positions
<1>9. CASE OpenGate(w)
  BY <1>9, <1>a DEF OpenGate, TypeOK, Positions
<1>10. CASE Receive(w)
  <2>1. mail' \in [{"run"} \cup Executors -> BOOLEAN]
    BY <1>10 DEF Receive, TypeOK
  <2> QED  BY <1>10, <1>a, <2>1 DEF Receive, TypeOK, Positions
<1>11. CASE Escalate(w)
  BY <1>11, <1>b DEF Escalate, TypeOK, Errors
<1>12. CASE BuildTasks(w)
  <2>1. exec' \in [Executors -> ExecStates]
    <3>1. CASE Throw(w, "budget")
      BY <3>1, <1>b DEF Errors
    <3>2. CASE exec' = [exec EXCEPT ![w].pc = "start", ![w].tmpl = IF hot THEN "hot" ELSE "cold"]
      <4> DEFINE t == IF hot THEN "hot" ELSE "cold"
      <4>1. t \in Templates /\ exec' = [exec EXCEPT ![w].pc = "start", ![w].tmpl = t]
        BY <3>2 DEF Templates
      <4> HIDE DEF t
      <4>2. "start" \in Positions
        BY DEF Positions
      <4> DEFINE n == [exec[w] EXCEPT !.pc = "start", !.tmpl = t]
      <4>3. exec[w] \in ExecStates
        BY <1>0
      <4>4. n \in ExecStates
        BY <4>1, <4>2, <4>3 DEF ExecStates
      <4>5. exec' = [exec EXCEPT ![w] = n]
        BY <4>1
      <4> HIDE DEF n
      <4> QED  BY <1>0, <4>4, <4>5, StaysExec
    <3> QED  BY <1>12, <3>1, <3>2 DEF BuildTasks
  <2> QED  BY <1>12, <2>1 DEF BuildTasks, TypeOK
<1>13. CASE StartTask(w)
  <2>1. exec' \in [Executors -> ExecStates] /\ child' \in [Keys -> TaskStates]
    BY <1>0, <1>13, <1>a DEF StartTask, TypeOK, Positions, TaskStates
  <2> QED  BY <1>13, <2>1 DEF StartTask, TypeOK
<1>14. CASE Join(w)
  BY <1>14, <1>a, <1>b DEF Join, TypeOK, Positions, Errors
<1>15. CASE SaveReceipt(w)
  <2>1. exec' \in [Executors -> ExecStates]
    BY <1>15, <1>c DEF SaveReceipt
  <2> QED  BY <1>15, <2>1 DEF SaveReceipt, TypeOK
<1>16. CASE SaveExecuteRow(w)
  <2>1. steps' \in StepRows
    BY <1>0, <1>16, <1>d DEF SaveExecuteRow, StepIds
  <2> QED  BY <1>16, <1>c, <2>1 DEF SaveExecuteRow, TypeOK
<1>17. CASE CheckExecution(w)
  <2>1. exec' \in [Executors -> ExecStates]
    BY <1>17, <1>a, <1>b DEF CheckExecution, Positions, Errors
  <2> QED  BY <1>17, <2>1 DEF CheckExecution, TypeOK
<1>18. CASE EmitEvent(w)
  BY <1>18, <1>a DEF EmitEvent, TypeOK, Positions
<1>19. CASE Record(w)
  <2>1. exec' \in [Executors -> ExecStates]
    BY <1>19, <1>a, <1>b, RecordIs DEF Positions, Errors
  <2> QED  BY <1>19, <2>1 DEF Record, TypeOK
<1>20. CASE Finish(w)
  <2>1. exec' \in [Executors -> ExecStates]
    <3> DEFINE d == IF exec[w].err = "null" THEN "SUCCESS" ELSE "ERROR"
    <3>1. d \in DbosStatus /\ exec' = [exec EXCEPT ![w].live = FALSE, ![w].db = d]
      BY <1>20 DEF Finish, DbosStatus
    <3> HIDE DEF d
    <3> DEFINE n == [exec[w] EXCEPT !.live = FALSE, !.db = d]
    <3>2. exec[w] \in ExecStates
      BY <1>0
    <3>3. n \in ExecStates
      BY <3>1, <3>2 DEF ExecStates
    <3>4. exec' = [exec EXCEPT ![w] = n]
      BY <3>1
    <3> HIDE DEF n
    <3> QED  BY <1>0, <3>3, <3>4, StaysExec
  <2> QED  BY <1>20, <2>1 DEF Finish, TypeOK
<1>21. CASE StopCancelled(w)
  <2>1. exec' \in [Executors -> ExecStates]
    BY <1>0, <1>21 DEF StopCancelled, ExecStates
  <2>2. SetFailure(row, "canceled", "canceled", "NONE") \in RunRows
    BY <1>0 DEF SetFailure, Settle, RunRows, RunStatus, Errors, NextActions
  <2> QED  BY <1>21, <2>1, <2>2 DEF StopCancelled, TypeOK
<1> QED  BY <1>1, <1>2, <1>3, <1>4, <1>5, <1>6, <1>7, <1>8, <1>9, <1>10, <1>11, <1>12, <1>13,
            <1>14, <1>15, <1>16, <1>17, <1>18, <1>19, <1>20, <1>21 DEF Step

\* What DBOS does for an operator: to the executor, or by a fork.
LEMMA DbosDoesIs ==
  ASSUME exec \in [Executors -> ExecStates], NEW w \in Executors, NEW op \in Ops,
         DbosDoes(op, w)
  PROVE  /\ exec' \in [Executors -> ExecStates]
         /\ \/ exec' = exec
            \/ /\ op = "cancel" /\ exec[w].db \notin Ended
               /\ exec' = [exec EXCEPT ![w].db = "CANCELLED"]
            \/ /\ op = "resume" /\ exec[w].db \notin Ended
               /\ exec' = [exec EXCEPT ![w].db = "ENQUEUED", ![w].attempts = 0]
            \/ /\ op = "fork" /\ Others("fork") /\ exec["fork"].db = "absent"
               /\ exec'["fork"].db = "ENQUEUED" /\ exec'["fork"].mem = "none"
               /\ ~exec'["fork"].live /\ exec'["fork"].tmpl \in {exec[w].tmpl, "cold"}
               /\ \/ exec'["fork"].pc \in {"reopen", "read"} /\ exec'["fork"].err = "null"
                     /\ exec'["fork"].seen = [s \in StepIds |-> "none"]
                  \/ /\ exec'["fork"].pc = exec[w].pc /\ exec'["fork"].err = exec[w].err
                     /\ exec'["fork"].seen = exec[w].seen
                     /\ exec'["fork"].tmpl = exec[w].tmpl
<1> DEFINE Forks == {NoExecutor, [NoExecutor EXCEPT !.pc = "read"],
                     [exec[w] EXCEPT !.live = FALSE, !.mem = "none", !.attempts = 0]}
<1>0. exec[w] \in ExecStates
  OBVIOUS
<1>1. CASE exec' = exec
  BY <1>1
<1>2. CASE op = "cancel" /\ exec' # exec
  <2>1. exec[w].db \notin Ended /\ exec' = [exec EXCEPT ![w].db = "CANCELLED"]
    BY <1>2 DEF DbosDoes, Ended
  <2> QED  BY <1>2, <2>1 DEF ExecStates, DbosStatus
<1>3. CASE op = "resume" /\ exec' # exec
  <2>1. exec[w].db \notin Ended /\ exec' = [exec EXCEPT ![w].db = "ENQUEUED", ![w].attempts = 0]
    BY <1>3 DEF DbosDoes, Ended
  <2>2. "ENQUEUED" \in DbosStatus /\ 0 \in 0..MaxRecovery
    BY RepairAssumption DEF DbosStatus, Open
  <2> QED  BY <1>3, <2>1, <2>2 DEF ExecStates
<1>4. CASE op = "fork" /\ exec' # exec
  <2>1. PICK e \in Forks : /\ exec' = [exec EXCEPT !["fork"] = [e EXCEPT !.db = "ENQUEUED"]]
                           /\ exec["fork"].db = "absent"
    BY <1>4 DEF DbosDoes
  <2>2. /\ e \in ExecStates /\ e.mem = "none" /\ e.live = FALSE /\ e.tmpl \in {exec[w].tmpl, "cold"}
        /\ \/ e.pc \in {"reopen", "read"} /\ e.err = "null" /\ e.seen = [s \in StepIds |-> "none"]
           \/ e.pc = exec[w].pc /\ e.err = exec[w].err /\ e.seen = exec[w].seen
                /\ e.tmpl = exec[w].tmpl
    <3>0. NoExecutor \in ExecStates
      BY RepairAssumption DEF NoExecutor, ExecStates, DbosStatus, Open, Positions, Errors,
           StepRows, Templates
    <3>1. CASE e = NoExecutor
      BY <3>0, <3>1 DEF NoExecutor
    <3>2. CASE e = [NoExecutor EXCEPT !.pc = "read"]
      <4>1. e.pc = "read" /\ e.mem = "none" /\ e.live = FALSE /\ e.tmpl = "cold"
              /\ e.err = "null" /\ e.seen = [s \in StepIds |-> "none"]
        BY <3>2 DEF NoExecutor
      <4>2. e \in ExecStates
        BY <3>0, <3>2 DEF ExecStates, Positions
      <4> QED  BY <4>1, <4>2
    <3>3. CASE e = [exec[w] EXCEPT !.live = FALSE, !.mem = "none", !.attempts = 0]
      <4>1. 0 \in 0..MaxRecovery
        BY RepairAssumption
      <4> QED  BY <1>0, <3>3, <4>1 DEF ExecStates
    <3> QED  BY <3>1, <3>2, <3>3
  <2> HIDE DEF Forks
  <2>3. exec' \in [Executors -> ExecStates]
    BY <2>1, <2>2 DEF ExecStates, DbosStatus, Open, Executors
  <2>4. Others("fork")
    BY <2>1 DEF Others
  <2>5. /\ exec'["fork"].db = "ENQUEUED" /\ exec'["fork"].mem = e.mem
        /\ exec'["fork"].live = e.live /\ exec'["fork"].tmpl = e.tmpl
        /\ exec'["fork"].pc = e.pc /\ exec'["fork"].err = e.err /\ exec'["fork"].seen = e.seen
    BY <2>1, <2>2 DEF ExecStates, Executors
  <2> QED  BY <1>4, <2>1, <2>2, <2>3, <2>4, <2>5
<1>5. op \in {"cancel", "resume", "fork"}
  BY DEF Ops
<1> QED  BY <1>1, <1>2, <1>3, <1>4, <1>5

LEMMA OperatorIs ==
  ASSUME TypeOK, NEW o \in Operators, DoOp(o)
  PROVE  /\ operator[o].op \in Ops /\ operator[o].on \in Executors
         /\ DbosDoes(operator[o].op, operator[o].on)
         /\ operator' \in [Operators -> [at : {"idle", "act", "audit"}, op : Ops, on : Executors]]
         /\ operator'[o].at = "audit" /\ operator'[o].op = operator[o].op
         /\ operator'[o].on = operator[o].on
         /\ \A q \in Operators : q # o => operator'[q] = operator[q]
  BY DEF TypeOK, DoOp

LEMMA OthersTyped ==
  ASSUME TypeOK, [Next]_vars, \A w \in Executors : ~Step(w)
  PROVE  TypeOK'
<1> USE DEF runVars, gateVars, taskVars, opsVars
<1>0. exec \in [Executors -> ExecStates] /\ child \in [Keys -> TaskStates]
  BY DEF TypeOK
<1>1. CASE \E w \in Executors : Dequeue(w)
  <2>1. exec' \in [Executors -> ExecStates]
    <3>1. "PENDING" \in DbosStatus
      BY DEF DbosStatus, Open
    <3>2. PICK w \in Executors : exec' = [exec EXCEPT ![w].db = "PENDING", ![w].live = TRUE]
      BY <1>1 DEF Dequeue
    <3> DEFINE n == [exec[w] EXCEPT !.db = "PENDING", !.live = TRUE]
    <3>3. exec[w] \in ExecStates
      BY <1>0
    <3>4. n \in ExecStates
      BY <3>1, <3>3 DEF ExecStates
    <3>5. exec' = [exec EXCEPT ![w] = n]
      BY <3>2
    <3> HIDE DEF n
    <3> QED  BY <1>0, <3>4, <3>5, StaysExec
  <2> QED  BY <1>1, <2>1 DEF Dequeue, TypeOK
<1>2. CASE \E w \in Executors : Recover(w)
  <2>1. PICK w \in Executors : Recover(w)
    BY <1>2
  <2>2. exec[w].attempts \in 0..MaxRecovery /\ MaxRecovery \in Nat
    BY <1>0, RepairAssumption DEF ExecStates
  <2>3. CASE exec[w].attempts < MaxRecovery
    <3>1. exec[w].attempts + 1 \in 0..MaxRecovery
      BY <2>2, <2>3
    <3>2. exec' = [exec EXCEPT ![w].attempts = @ + 1, ![w].live = TRUE]
      BY <2>1, <2>3 DEF Recover
    <3>3. exec' \in [Executors -> ExecStates]
      <4> DEFINE n == [exec[w] EXCEPT !.attempts = exec[w].attempts + 1, !.live = TRUE]
      <4>1. exec[w] \in ExecStates
        BY <1>0
      <4>2. n \in ExecStates
        BY <3>1, <4>1 DEF ExecStates
      <4>3. exec' = [exec EXCEPT ![w] = n]
        BY <3>2
      <4> HIDE DEF n
      <4> QED  BY <1>0, <4>2, <4>3, StaysExec
    <3> QED  BY <2>1, <3>3 DEF Recover, TypeOK
  <2>4. CASE ~(exec[w].attempts < MaxRecovery)
    <3>1. exec' = [exec EXCEPT ![w].db = "MAX_RECOVERY_ATTEMPTS_EXCEEDED"]
      BY <2>1, <2>4 DEF Recover
    <3>2. exec' \in [Executors -> ExecStates]
      BY <1>0, <3>1 DEF ExecStates, DbosStatus
    <3> QED  BY <2>1, <3>2 DEF Recover, TypeOK
  <2> QED  BY <2>3, <2>4
<1>3. CASE \E w \in Executors : Crash(w)
  <2>1. exec' \in [Executors -> ExecStates]
    <3>1. PICK w \in Executors : exec' = [exec EXCEPT ![w].live = FALSE, ![w].mem = "none"]
      BY <1>3 DEF Crash
    <3> DEFINE n == [exec[w] EXCEPT !.live = FALSE, !.mem = "none"]
    <3>2. exec[w] \in ExecStates
      BY <1>0
    <3>3. n \in ExecStates
      BY <3>2 DEF ExecStates
    <3>4. exec' = [exec EXCEPT ![w] = n]
      BY <3>1
    <3> HIDE DEF n
    <3> QED  BY <1>0, <3>3, <3>4, StaysExec
  <2> QED  BY <1>3, <2>1 DEF Crash, TypeOK
<1>4. CASE TaskEnds
  <2>1. child' \in [Keys -> TaskStates]
    BY <1>0, <1>4 DEF TaskEnds, TaskStates
  <2> QED  BY <1>4, <2>1 DEF TaskEnds, TypeOK
<1>5. CASE RegisterTemplate
  BY <1>5 DEF RegisterTemplate, TypeOK
<1>6. CASE Retry
  <2>1. exec' \in [Executors -> ExecStates]
    BY <1>0, <1>6 DEF Retry, ExecStates, DbosStatus, Open, Executors
  <2> QED  BY <1>6, <2>1 DEF Retry, TypeOK
<1>7. CASE Answer
  <2>1. mail' \in [{"run"} \cup Executors -> BOOLEAN] /\ approvals' \in BOOLEAN
    BY <1>7 DEF Answer, TypeOK
  <2> QED  BY <1>7, <2>1 DEF Answer, TypeOK
<1>8. CASE \E o \in Operators : AskOp(o)
  <2>1. operator' \in [Operators -> [at : {"idle", "act", "audit"}, op : Ops, on : Executors]]
    BY <1>8 DEF AskOp, TypeOK
  <2> QED  BY <1>8, <2>1 DEF AskOp, TypeOK
<1>9. CASE \E o \in Operators : DoOp(o)
  <2>1. PICK o \in Operators : DoOp(o)
    BY <1>9
  <2>2. exec' \in [Executors -> ExecStates]
    BY <1>0, <2>1, OperatorIs, DbosDoesIs
  <2>3. operator' \in [Operators -> [at : {"idle", "act", "audit"}, op : Ops, on : Executors]]
    BY <2>1, OperatorIs
  <2> QED  BY <2>1, <2>2, <2>3 DEF DoOp, TypeOK
<1>10. CASE \E o \in Operators : PersistOpIntent(o)
  <2>1. PICK o \in Operators : PersistOpIntent(o)
    BY <1>10
  <2>2. /\ operator' \in [Operators -> [at : {"idle", "act", "audit"}, op : Ops, on : Executors]]
        /\ operator[o].op \in Ops /\ operator[o].on \in Executors
    BY <2>1 DEF PersistOpIntent, TypeOK, Idle, Ops, Executors
  <2> QED  BY <2>1, <2>2 DEF PersistOpIntent, TypeOK
<1>11. CASE \E o \in Operators : LoseOp(o)
  <2>1. operator' \in [Operators -> [at : {"idle", "act", "audit"}, op : Ops, on : Executors]]
    BY <1>11 DEF LoseOp, TypeOK, Idle, Ops, Executors
  <2> QED  BY <1>11, <2>1 DEF LoseOp, TypeOK
<1>12. CASE UNCHANGED vars
  BY <1>12 DEF TypeOK, vars
<1> QED  BY <1>1, <1>2, <1>3, <1>4, <1>5, <1>6, <1>7, <1>8, <1>9, <1>10, <1>11, <1>12
         DEF Next, Scheduler, Operate
-----------------------------------------------------------------------------
(***************************************************************************)
(* The steps of an executor, sorted by what they do to where it is.        *)
(***************************************************************************)
Stays(w) ==
  Others(w) /\ SameRun(w) /\ exec'[w].pc = exec[w].pc /\ exec'[w].err = exec[w].err
Moves(w, p, q) ==
  /\ Others(w) /\ SameRun(w) /\ exec'[w].mem = "none" /\ exec'[w].err = exec[w].err
  /\ exec[w].pc = p /\ exec'[w].pc = q
Throws(w) ==
  /\ Others(w) /\ SameRun(w) /\ exec'[w].mem = "none" /\ exec'[w].err # "null"
  /\ exec'[w].pc \in {"budget", "fail"}

Calm == UNCHANGED <<row, steps, child>>
Inner(w) ==
  RaiseRetryCount(w) \/ Reopen(w) \/ Produce(w, "compile", "CompileST") \/ ApplyPatch(w)
    \/ SaveReceipt(w) \/ SaveExecuteRow(w)
CalmEdges ==
  {<<"reopen", "read">>, <<"compile", "compiled">>, <<"apply", "applied">>,
   <<"bridge", "prompt">>, <<"prompt", "recv">>, <<"recv", "escalate">>,
   <<"start", "join">>, <<"join", "save">>, <<"save", "saved">>, <<"sbx", "succeed">>,
   <<"budget", "fail">>, <<"succeedEvt", "end">>, <<"failEvt", "end">>}
RowEdges ==
  {<<"planWait", "planOps">>, <<"planOps", "bridge">>, <<"saved", "sbx">>,
   <<"succeed", "succeedEvt">>, <<"fail", "failEvt">>}
    \cup ({"compiled", "applied"} \X {"compile", "apply", "planWait", "build", "succeed", "sbx"})

CalmMove(w, p, q) ==
  /\ <<p, q>> \in CalmEdges /\ Moves(w, p, q) /\ Calm
  /\ p = "join" => Joined(w)
  /\ p = "save" => exec[w].mem = "ok"
  /\ p = "sbx" => exec[w].seen["ExecuteST"] # "bad" /\ "failed" \notin Children(w)
RowMove(w, p, q) ==
  /\ <<p, q>> \in RowEdges /\ Moves(w, p, q) /\ row' = RowAfter(w, p)
  /\ UNCHANGED <<steps, child>>
  /\ p \in {"compiled", "applied"} => q \in {FromApply(exec[w].seen), FromDecide(exec[w].seen)}

\* What every step leaves alone.
Frame ==
  /\ UNCHANGED <<approved, hot, opsVars, deaths>> /\ steps'["DecideST"] = steps["DecideST"]
  /\ \A v \in Executors : ~mail'[v]

LEMMA StepFrame ==
  ASSUME TypeOK, Placed, ApprovalInv, NEW w \in Executors, Step(w)
  PROVE  Frame
<1> USE DEF Frame, runVars, gateVars, taskVars, opsVars
<1>0. /\ steps \in StepRows /\ mail \in [{"run"} \cup Executors -> BOOLEAN]
      /\ \A v \in Executors : ~mail[v]
  BY DEF TypeOK, ApprovalInv
<1>1. CASE RaiseRetryCount(w) \/ Reopen(w) \/ ReadCheckpoints(w) \/ WriteRow(w)
  BY <1>0, <1>1 DEF RaiseRetryCount, Reopen, ReadCheckpoints, WriteRow
<1>2. CASE Produce(w, "compile", "CompileST")
  BY <1>0, <1>2 DEF Produce, StepRows, StepIds
<1>3. CASE Produce(w, "decide", "DecideST")
  BY <1>3, NoDecide
<1>4. CASE ApplyPatch(w)
  BY <1>0, <1>4 DEF ApplyPatch, StepRows, StepIds
<1>5. CASE Bridge(w)
  <2>1. \A v \in Executors : mail'[v] = mail[v]
    BY <1>0, <1>5 DEF Bridge, Executors
  <2> QED  BY <1>0, <1>5, <2>1 DEF Bridge
<1>6. CASE Receive(w)
  <2>1. \A v \in Executors : ~mail'[v]
    BY <1>0, <1>6 DEF Receive
  <2> QED  BY <1>6, <2>1 DEF Receive
<1>7. CASE OpenGate(w) \/ Escalate(w) \/ BuildTasks(w) \/ StartTask(w) \/ Join(w)
  BY <1>0, <1>7 DEF OpenGate, Escalate, BuildTasks, StartTask, Join
<1>8. CASE SaveReceipt(w) \/ CheckExecution(w) \/ EmitEvent(w)
  BY <1>0, <1>8 DEF SaveReceipt, CheckExecution, EmitEvent
<1>9. CASE SaveExecuteRow(w)
  BY <1>0, <1>9 DEF SaveExecuteRow, StepRows, StepIds
<1>10. CASE Record(w) \/ Finish(w) \/ StopCancelled(w)
  BY <1>0, <1>10 DEF Record, Finish, StopCancelled
<1> QED  BY <1>1, <1>2, <1>3, <1>4, <1>5, <1>6, <1>7, <1>8, <1>9, <1>10 DEF Step

LEMMA StepIs ==
  ASSUME TypeOK, Placed, ApprovalInv, NEW w \in Executors, Step(w)
  PROVE  /\ exec[w].live
         /\ \/ Stays(w) /\ Inner(w)
            \/ Throws(w) /\ Calm /\ exec[w].pc \notin CatchSteps \cup Succeeding
            \/ \E p, q \in Positions : CalmMove(w, p, q) \/ RowMove(w, p, q)
            \/ ReadCheckpoints(w)
            \/ /\ exec[w].pc = "build" /\ Calm
               /\ exec' = [exec EXCEPT ![w].pc = "start", ![w].tmpl = IF hot THEN "hot" ELSE "cold"]
            \/ exec[w].pc = "start" /\ StartTask(w) /\ exec' = exec
            \/ Finish(w) \/ StopCancelled(w)
<1> USE DEF runVars, gateVars, taskVars, opsVars
<1>0. exec \in [Executors -> ExecStates] /\ exec[w] \in ExecStates
  BY DEF TypeOK
<1>l. exec[w].live
  BY DEF Step, Start, Inside, RaiseRetryCount, Reopen, ReadCheckpoints, WriteRow, Produce,
     ApplyPatch, Bridge, OpenGate, Receive, Escalate, BuildTasks, StartTask, Join,
     SaveReceipt, SaveExecuteRow, CheckExecution, EmitEvent, Record, Finish, StopCancelled
<1>a. \A p, q \in Positions : exec[w].pc = p /\ Goto(w, q) => Moves(w, p, q)
  BY <1>0, GotoIs DEF Moves
<1>b. \A e \in Errors \ {"null"} : Throw(w, e) => Throws(w)
  BY <1>0, ThrowIs DEF Throws
<1>c. \A m \in {"none", "run", "ok", "err"} : Mem(w, m) => Stays(w)
  BY <1>0, MemIs DEF Stays
<1>1. CASE Inner(w)
  BY <1>1, <1>c, <1>l DEF Inner, RaiseRetryCount, Reopen, Produce, ApplyPatch, SaveReceipt,
     SaveExecuteRow
<1>2. CASE ReadCheckpoints(w) \/ Finish(w) \/ StopCancelled(w)
  BY <1>2, <1>l
<1>3. CASE WriteRow(w)
  <2>1. PICK p \in RowSteps : /\ Start(w, p) /\ row' = RowAfter(w, p)
                            /\ Goto(w, After(w)) /\ After(w) \in Positions
    BY <1>3, WriteIs
  <2>2. PICK q \in Positions : q = After(w)
    BY <2>1
  <2>3. Moves(w, p, q) /\ p \in Positions
    BY <1>a, <2>1, <2>2 DEF Start, RowSteps, Positions
  <2>4. /\ p \in {"compiled", "applied"} => q \in {FromApply(exec[w].seen), FromDecide(exec[w].seen)}
        /\ p \notin {"compiled", "applied"} => q = Flow[p]
    BY <2>1, <2>2, AfterIs DEF Start
  <2>5. <<p, q>> \in RowEdges
    <3>1. exec[w].seen \in StepRows
      BY <1>0 DEF ExecStates
    <3>2. CASE p \in {"compiled", "applied"}
      BY <2>4, <3>1, <3>2, Branches DEF RowEdges
    <3>3. CASE p \notin {"compiled", "applied"}
      BY <2>4, <3>3 DEF Flow, RowSteps, RowEdges
    <3> QED  BY <3>2, <3>3
  <2>6. UNCHANGED <<steps, child>>
    BY <1>3 DEF WriteRow
  <2> QED  BY <1>l, <2>1, <2>3, <2>4, <2>5, <2>6 DEF RowMove
<1>4. CASE Produce(w, "decide", "DecideST")
  BY <1>4, NoDecide
<1>5. ASSUME NEW p \in Positions, NEW q \in Positions, <<p, q>> \in CalmEdges, exec[w].pc = p, Goto(w, q), Calm,
             p = "join" => Joined(w), p = "save" => exec[w].mem = "ok",
             p = "sbx" => exec[w].seen["ExecuteST"] # "bad" /\ "failed" \notin Children(w)
      PROVE  \E x, y \in Positions : CalmMove(w, x, y)
  BY <1>5, <1>a DEF CalmMove
<1>6. CASE Bridge(w)
  <2>1. exec[w].pc = "bridge" /\ Goto(w, "prompt") /\ Calm
    BY <1>6 DEF Bridge, Start, Calm
  <2> QED  BY <1>5, <1>l, <2>1 DEF CalmEdges, Positions
<1>7. CASE OpenGate(w)
  <2>1. exec[w].pc = "prompt" /\ Goto(w, "recv") /\ Calm
    BY <1>7 DEF OpenGate, Start, Calm
  <2> QED  BY <1>5, <1>l, <2>1 DEF CalmEdges, Positions
<1>8. CASE Receive(w)
  <2>1. exec[w].pc = "recv" /\ Goto(w, "escalate") /\ Calm
    BY <1>8 DEF Receive, Start, Calm, ApprovalInv
  <2> QED  BY <1>5, <1>l, <2>1 DEF CalmEdges, Positions
<1>9. CASE Escalate(w)
  BY <1>9, <1>b, <1>l DEF Escalate, Start, Calm, Errors, CatchSteps, Succeeding
<1>10. CASE BuildTasks(w)
  <2>1. exec[w].pc = "build" /\ Calm
    BY <1>10 DEF BuildTasks, Start, Calm
  <2> QED  BY <1>10, <2>1, <1>b, <1>l DEF BuildTasks, Errors, CatchSteps, Succeeding
<1>11. CASE StartTask(w)
  <2>1. exec[w].pc = "start"
    BY <1>11 DEF StartTask, Start
  <2>2. CASE exec' = exec
    BY <1>11, <1>l, <2>1, <2>2
  <2>3. CASE Goto(w, "join") /\ UNCHANGED child
    <3>1. Calm
      BY <1>11, <2>3 DEF StartTask, Calm
    <3> QED  BY <1>5, <1>l, <2>1, <2>3, <3>1 DEF CalmEdges, Positions
  <2> QED  BY <1>11, <2>2, <2>3 DEF StartTask
<1>12. CASE Join(w)
  <2>1. exec[w].pc = "join" /\ Calm
    BY <1>12 DEF Join, Start, Calm
  <2>2. CASE Joined(w) /\ Goto(w, "save")
    BY <1>5, <1>l, <2>1, <2>2 DEF CalmEdges, Positions
  <2>3. CASE Throw(w, "step") \/ Throw(w, "budget")
    BY <1>b, <1>l, <2>1, <2>3 DEF Errors, CatchSteps, Succeeding
  <2> QED  BY <1>12, <2>2, <2>3 DEF Join, Joined
<1>13. CASE CheckExecution(w)
  <2>1. exec[w].pc = "sbx" /\ Calm
    BY <1>13 DEF CheckExecution, Start, Calm
  <2>2. CASE Throw(w, "sbx")
    BY <1>b, <1>l, <2>1, <2>2 DEF Errors, CatchSteps, Succeeding
  <2>3. CASE Goto(w, "succeed") /\ exec[w].seen["ExecuteST"] # "bad" /\ "failed" \notin Children(w)
    BY <1>5, <1>l, <2>1, <2>3 DEF CalmEdges, Positions
  <2> QED  BY <1>13, <2>2, <2>3 DEF CheckExecution
<1>14. CASE EmitEvent(w)
  <2>1. Calm
    BY <1>14 DEF EmitEvent, Calm
  <2>2. CASE exec[w].pc = "budget" /\ Goto(w, "fail")
    BY <1>5, <1>l, <2>1, <2>2 DEF CalmEdges, Positions
  <2>3. CASE exec[w].pc = "succeedEvt" /\ Goto(w, "end")
    BY <1>5, <1>l, <2>1, <2>3 DEF CalmEdges, Positions
  <2>4. CASE exec[w].pc = "failEvt" /\ Goto(w, "end")
    BY <1>5, <1>l, <2>1, <2>4 DEF CalmEdges, Positions
  <2> QED  BY <1>14, <2>2, <2>3, <2>4 DEF EmitEvent, Start
<1>15. CASE Record(w)
  <2>1. Calm
    BY <1>15 DEF Record, Calm
  <2>2. exec[w].pc \in {"reopen", "compile", "apply", "save"}
    BY <1>15, RecordIs
  <2>3. CASE Throw(w, "step") \/ Throw(w, "budget")
    BY <1>b, <1>l, <2>1, <2>2, <2>3 DEF Errors, CatchSteps, Succeeding
  <2>4. CASE exec[w].mem = "ok" /\ Goto(w, Flow[exec[w].pc])
    <3>1. PICK p \in Positions, q \in Positions : p = exec[w].pc /\ q = Flow[p]
      BY <2>2 DEF Flow, Positions
    <3>2. <<p, q>> \in CalmEdges
      BY <2>2, <3>1 DEF Flow, CalmEdges
    <3> QED  BY <1>5, <1>l, <2>1, <2>2, <2>4, <3>1, <3>2
  <2> QED  BY <1>15, <2>3, <2>4, RecordIs
<1> QED  BY <1>1, <1>2, <1>3, <1>4, <1>6, <1>7, <1>8, <1>9, <1>10, <1>11, <1>12, <1>13, <1>14,
            <1>15 DEF Step, Inner
-----------------------------------------------------------------------------
LEMMA StepPlaced ==
  ASSUME TypeOK, Placed, ApprovalInv, NEW w \in Executors, Step(w)
  PROVE  Placed'
<1>0. /\ exec \in [Executors -> ExecStates] /\ exec[w].live /\ PlaceInv(w)
      /\ \A v \in Executors : PlaceInv(v)
  BY StepIs DEF TypeOK, Placed
<1>a. ASSUME Others(w), PlaceInv(w)' PROVE Placed'
  BY <1>0, <1>a DEF Placed, PlaceInv, Others
<1>1. CASE Stays(w) /\ Inner(w)
  <2>1. /\ exec'[w].mem = "run" => exec[w].pc \in {"reopen", "save"}
        /\ exec'[w].mem \in {"ok", "err"} => exec[w].pc \in {"reopen", "compile", "apply", "decide", "save"}
    BY <1>0, <1>1, MemIs
       DEF Inner, RaiseRetryCount, Reopen, Produce, ApplyPatch, SaveReceipt, SaveExecuteRow, Start, Inside
  <2>2. PlaceInv(w)'
    BY <1>0, <1>1, <2>1 DEF Stays, SameRun, PlaceInv
  <2> QED  BY <1>1, <1>a, <2>2 DEF Stays
<1>2. CASE Throws(w) /\ exec[w].pc \notin CatchSteps
  <2>1. PlaceInv(w)'
    BY <1>0, <1>2 DEF Throws, SameRun, PlaceInv, CatchSteps, Ended, Open
  <2> QED  BY <1>2, <1>a, <2>1 DEF Throws
<1>3. ASSUME NEW p \in Positions, NEW q \in Positions, CalmMove(w, p, q) \/ RowMove(w, p, q)
      PROVE  Placed'
  <2>1. Moves(w, p, q) /\ (<<p, q>> \in CalmEdges \/ <<p, q>> \in RowEdges)
    BY <1>3 DEF CalmMove, RowMove
  <2>2. /\ p \notin CatchSteps => q \notin CatchSteps \/ q = "end"
        /\ p \in CatchSteps => q \in CatchSteps
    BY <2>1 DEF CalmEdges, RowEdges, CatchSteps
  <2>3. p = "succeedEvt" \/ (p \notin CatchSteps /\ q # "end") \/ (p \in CatchSteps \ {"end"} /\ q \in CatchSteps)
    BY <2>1 DEF CalmEdges, RowEdges, CatchSteps
  <2>4. exec[w].db \notin Ended
    BY <1>0 DEF PlaceInv, Open, Ended
  <2>5. PlaceInv(w)'
    BY <1>0, <2>1, <2>2, <2>3, <2>4 DEF Moves, SameRun, PlaceInv, CatchSteps
  <2> QED  BY <1>a, <2>1, <2>5 DEF Moves
<1>4. CASE ReadCheckpoints(w)
  <2>1. FromCompile(steps) \in {"compile", "apply", "planWait", "build", "succeed", "sbx"}
    BY Branches DEF TypeOK
  <2>2. Others(w) /\ PlaceInv(w)'
    BY <1>0, <1>4, <2>1 DEF ReadCheckpoints, Start, Others, PlaceInv, ExecStates, CatchSteps, Ended, Open
  <2> QED  BY <1>a, <2>2
<1>5. CASE exec[w].pc = "build" /\
           exec' = [exec EXCEPT ![w].pc = "start", ![w].tmpl = IF hot THEN "hot" ELSE "cold"]
  <2>1. /\ Others(w) /\ exec'[w].pc = "start" /\ exec'[w].mem = exec[w].mem
        /\ exec'[w].err = exec[w].err /\ exec'[w].live = exec[w].live /\ exec'[w].db = exec[w].db
    BY <1>0, <1>5 DEF Others, ExecStates
  <2>2. PlaceInv(w)'
    BY <1>0, <1>5, <2>1 DEF PlaceInv, CatchSteps, Ended, Open
  <2> QED  BY <1>a, <2>1, <2>2
<1>6. CASE exec' = exec
  BY <1>0, <1>6, <1>a DEF Others, PlaceInv
<1>7. CASE Finish(w)
  <2>1. Others(w) /\ PlaceInv(w)'
    BY <1>0, <1>7 DEF Finish, Others, PlaceInv, ExecStates, CatchSteps, Ended
  <2> QED  BY <1>a, <2>1
<1>8. CASE StopCancelled(w)
  <2>1. Others(w) /\ PlaceInv(w)'
    BY <1>0, <1>8 DEF StopCancelled, Others, PlaceInv, ExecStates
  <2> QED  BY <1>a, <2>1
<1> QED  BY <1>1, <1>2, <1>3, <1>4, <1>5, <1>6, <1>7, <1>8, StepIs

\* What the queue, crashes and operators do to an executor: it stays where it
\* is, or it is a fork that is put where another one is.
Handled(w) ==
  /\ Others(w)
  /\ exec'[w].pc = exec[w].pc /\ exec'[w].err = exec[w].err
  /\ exec'[w].seen = exec[w].seen /\ exec'[w].tmpl = exec[w].tmpl
  /\ \/ exec'[w].mem = exec[w].mem
     \/ exec'[w].mem = "none" /\ ~exec'[w].live
  /\ \/ exec'[w].db = "PENDING" /\ exec[w].db \in Open
     \/ exec'[w].db = "MAX_RECOVERY_ATTEMPTS_EXCEEDED" /\ exec[w].db = "PENDING" /\ ~exec'[w].live
     \/ exec'[w].db = exec[w].db /\ ~exec'[w].live
     \/ exec'[w].db \in {"CANCELLED", "ENQUEUED"} /\ exec[w].db \notin Ended
           /\ exec'[w].live = exec[w].live
ForkOf(w) ==
  /\ exec["fork"].db = "absent"
  /\ Others("fork") /\ exec'["fork"].db = "ENQUEUED" /\ exec'["fork"].mem = "none"
  /\ ~exec'["fork"].live
  /\ \/ exec'["fork"].pc \in {"reopen", "read"} /\ exec'["fork"].err = "null"
        /\ exec'["fork"].seen = [s \in StepIds |-> "none"]
     \/ /\ exec'["fork"].pc = exec[w].pc /\ exec'["fork"].err = exec[w].err
        /\ exec'["fork"].seen = exec[w].seen /\ exec'["fork"].tmpl = exec[w].tmpl

LEMMA OthersIs ==
  ASSUME TypeOK, [Next]_vars, \A w \in Executors : ~Step(w)
  PROVE  /\ UNCHANGED <<row, steps, approved>> /\ ops' \in {ops, ops + 1}
         /\ \A v \in Executors : mail'[v] = mail[v]
         /\ child' = child \/ TaskEnds
         /\ \/ exec' = exec
            \/ \E w \in Executors : Handled(w) \/ ForkOf(w)
<1> USE DEF runVars, gateVars, taskVars, opsVars
<1>0. /\ exec \in [Executors -> ExecStates]
      /\ \A w \in Executors : exec[w] \in ExecStates
      /\ mail \in [{"run"} \cup Executors -> BOOLEAN]
  BY DEF TypeOK
<1>1. CASE \E w \in Executors : Dequeue(w)
  <2>1. PICK w \in Executors : Dequeue(w)
    BY <1>1
  <2>2. Handled(w)
    BY <1>0, <2>1 DEF Dequeue, Handled, Others, ExecStates, Open
  <2> QED  BY <2>1, <2>2 DEF Dequeue
<1>2. CASE \E w \in Executors : Recover(w)
  <2>1. PICK w \in Executors : Recover(w)
    BY <1>2
  <2>2. CASE exec[w].attempts < MaxRecovery
    <3>1. PICK n : exec' = [exec EXCEPT ![w].attempts = n, ![w].live = TRUE] /\ exec[w].db = "PENDING"
      BY <2>1, <2>2 DEF Recover
    <3>2. /\ Others(w) /\ exec'[w].db = exec[w].db /\ exec'[w].mem = exec[w].mem
          /\ exec'[w].pc = exec[w].pc /\ exec'[w].err = exec[w].err
          /\ exec'[w].seen = exec[w].seen /\ exec'[w].tmpl = exec[w].tmpl
      BY <1>0, <3>1 DEF Others, ExecStates
    <3>3. Handled(w)
      BY <3>1, <3>2 DEF Handled, Open
    <3> QED  BY <2>1, <3>3 DEF Recover
  <2>3. CASE ~(exec[w].attempts < MaxRecovery)
    <3>1. exec' = [exec EXCEPT ![w].db = "MAX_RECOVERY_ATTEMPTS_EXCEEDED"]
            /\ exec[w].db = "PENDING" /\ ~exec[w].live
      BY <2>1, <2>3 DEF Recover
    <3>2. Handled(w)
      BY <1>0, <3>1 DEF Handled, Others, ExecStates, Open
    <3> QED  BY <2>1, <3>2 DEF Recover
  <2> QED  BY <2>2, <2>3
<1>3. CASE \E w \in Executors : Crash(w)
  <2>1. PICK w \in Executors : Crash(w)
    BY <1>3
  <2>2. Handled(w)
    BY <1>0, <2>1 DEF Crash, Handled, Others, ExecStates, Open
  <2> QED  BY <2>1, <2>2 DEF Crash
<1>4. CASE TaskEnds
  BY <1>4 DEF TaskEnds
<1>5. CASE RegisterTemplate
  BY <1>5 DEF RegisterTemplate
<1>6. CASE Retry
  <2>1. exec' = [exec EXCEPT !["repair"].db = "ENQUEUED"] /\ exec["repair"].db = "absent"
    BY <1>6 DEF Retry
  <2>2. Handled("repair") /\ "repair" \in Executors
    BY <1>0, <2>1 DEF Handled, Others, ExecStates, Executors, Ended
  <2> QED  BY <1>6, <2>2 DEF Retry
<1>7. CASE Answer
  <2>1. \A v \in Executors : mail'[v] = mail[v]
    BY <1>0, <1>7 DEF Answer, Executors
  <2> QED  BY <1>7, <2>1 DEF Answer
<1>8. CASE \E o \in Operators : AskOp(o) \/ PersistOpIntent(o) \/ LoseOp(o)
  BY <1>8 DEF AskOp, PersistOpIntent, LoseOp
<1>9. CASE \E o \in Operators : DoOp(o)
  <2>1. PICK o \in Operators : DoOp(o)
    BY <1>9
  <2>2. PICK w \in Executors, op \in Ops : DbosDoes(op, w)
    BY <2>1, OperatorIs
  <2>3. CASE exec[w].db \notin Ended /\ exec' = [exec EXCEPT ![w].db = "CANCELLED"]
    <3>1. Handled(w)
      BY <1>0, <2>3 DEF Handled, Others, ExecStates
    <3> QED  BY <2>1, <3>1 DEF DoOp
  <2>4. CASE exec[w].db \notin Ended
               /\ exec' = [exec EXCEPT ![w].db = "ENQUEUED", ![w].attempts = 0]
    <3>1. Handled(w)
      BY <1>0, <2>4 DEF Handled, Others, ExecStates
    <3> QED  BY <2>1, <3>1 DEF DoOp
  <2>5. exec' = exec \/ ForkOf(w) \/ (exec[w].db \notin Ended /\ exec' = [exec EXCEPT ![w].db = "CANCELLED"])
          \/ (exec[w].db \notin Ended
               /\ exec' = [exec EXCEPT ![w].db = "ENQUEUED", ![w].attempts = 0])
    BY <1>0, <2>2, DbosDoesIs DEF ForkOf
  <2> QED  BY <2>1, <2>3, <2>4, <2>5 DEF DoOp
<1>10. CASE UNCHANGED vars
  BY <1>10 DEF vars
<1> QED  BY <1>1, <1>2, <1>3, <1>4, <1>5, <1>6, <1>7, <1>8, <1>9, <1>10
         DEF Next, Scheduler, Operate

LEMMA NextPlaced == TypeOK /\ Placed /\ ApprovalInv /\ [Next]_vars => Placed'
<1> SUFFICES ASSUME TypeOK, Placed, ApprovalInv, [Next]_vars PROVE Placed'
  OBVIOUS
<1>1. CASE \E w \in Executors : Step(w)
  BY <1>1, StepPlaced
<1>2. CASE ~\E w \in Executors : Step(w)
  <2>0. \A v \in Executors : PlaceInv(v)
    BY DEF Placed
  <2>1. CASE exec' = exec
    BY <2>0, <2>1 DEF Placed, PlaceInv
  <2>2. ASSUME NEW w \in Executors, Handled(w) PROVE Placed'
    <3>1. PlaceInv(w)'
      BY <2>0, <2>2 DEF Handled, PlaceInv, Open, Ended
    <3> QED  BY <2>0, <2>2, <3>1 DEF Handled, Others, Placed, PlaceInv
  <2>3. ASSUME NEW w \in Executors, ForkOf(w) PROVE Placed'
    <3>1. PlaceInv("fork")'
      BY <2>0, <2>3 DEF ForkOf, PlaceInv, CatchSteps, Ended
    <3> QED  BY <2>0, <2>3, <3>1 DEF ForkOf, Others, Placed, PlaceInv
  <2> QED  BY <1>2, <2>1, <2>2, <2>3, OthersIs
<1> QED  BY <1>1, <1>2
-----------------------------------------------------------------------------
\* The way past the plan gate is a row of DecideST.
LEMMA NextApproval ==
  TypeOK /\ Placed /\ ApprovalInv /\ RepairKeepsApproval /\ [Next]_vars
    => ApprovalInv' /\ RepairKeepsApproval'
<1> SUFFICES ASSUME TypeOK, Placed, ApprovalInv, RepairKeepsApproval, [Next]_vars
             PROVE  ApprovalInv' /\ RepairKeepsApproval'
  OBVIOUS
<1> DEFINE Dead == {"planClear", "planRun", "decide", "decided"}
           Behind == Executing \cup Succeeding \cup {"sbx"}
<1>0. /\ exec \in [Executors -> ExecStates] /\ steps \in StepRows
      /\ \A v \in Executors : exec[v].seen \in StepRows
      /\ steps["DecideST"] # "none" => approved
      /\ \A v \in Executors :
           /\ ~mail[v] /\ exec[v].pc \notin Dead
           /\ exec[v].seen["DecideST"] # "none" => approved
           /\ exec[v].pc \in Behind => approved
      /\ (\E k \in Keys : child[k] # "none") => approved
  BY DEF TypeOK, ExecStates, ApprovalInv, RepairKeepsApproval
<1>b. \A q : q \in Behind <=> q \in {"build", "start", "join", "save", "saved", "succeed", "succeedEvt", "sbx"}
  BY DEF Executing, Succeeding
<1>d. \A q : q \in Dead <=> q \in {"planClear", "planRun", "decide", "decided"}
  OBVIOUS
<1> HIDE DEF Dead, Behind
<1>1. CASE \E w \in Executors : Step(w)
  <2>1. PICK w \in Executors : Step(w)
    BY <1>1
  <2>2. Frame
    BY <2>1, StepFrame
  <2> DEFINE Fine == /\ Others(w) /\ exec'[w].pc \notin Dead
                     /\ exec'[w].seen["DecideST"] # "none" => approved
                     /\ exec'[w].pc \in Behind => approved
                     /\ child' = child \/ approved
  <2>3. Fine
    <3>1. CASE Stays(w) /\ Inner(w)
      BY <1>0, <3>1 DEF Stays, SameRun, Inner, RaiseRetryCount, Reopen, Produce, ApplyPatch,
         SaveReceipt, SaveExecuteRow, taskVars
    <3>2. CASE Throws(w) /\ Calm
      BY <1>0, <1>b, <1>d, <3>2 DEF Throws, SameRun, Calm
    <3>3. ASSUME NEW p \in Positions, NEW q \in Positions, CalmMove(w, p, q)
          PROVE  Fine
      <4>1. Moves(w, p, q) /\ Calm /\ <<p, q>> \in CalmEdges
        BY <3>3 DEF CalmMove
      <4>2. q \notin Dead /\ (q \in Behind => p \in Behind)
        BY <1>b, <1>d, <4>1 DEF CalmEdges
      <4> QED  BY <1>0, <4>1, <4>2 DEF Moves, SameRun, Calm
    <3>4. ASSUME NEW p \in Positions, NEW q \in Positions, RowMove(w, p, q)
          PROVE  Fine
      <4>1. Moves(w, p, q) /\ child' = child /\ <<p, q>> \in RowEdges
        BY <3>4 DEF RowMove
      <4>2. q \notin Dead
        BY <1>d, <4>1 DEF RowEdges
      <4>3. q \in Behind => p \in Behind \/ exec[w].seen["DecideST"] # "none"
        <5>1. CASE p \in {"compiled", "applied"}
          BY <1>0, <1>b, <3>4, <4>1, <5>1, Branches DEF RowMove, RowEdges
        <5>2. CASE p \notin {"compiled", "applied"}
          BY <1>b, <4>1, <5>2 DEF RowEdges
        <5> QED  BY <5>1, <5>2
      <4> QED  BY <1>0, <4>1, <4>2, <4>3 DEF Moves, SameRun
    <3>5. CASE ReadCheckpoints(w)
      <4>1. /\ FromCompile(steps) \in {"compile", "apply", "planWait", "build", "succeed", "sbx"}
            /\ FromCompile(steps) \in {"build", "succeed", "sbx"} => steps["DecideST"] # "none"
        BY <1>0, Branches
      <4>2. /\ Others(w) /\ exec'[w].pc = FromCompile(steps) /\ exec'[w].seen = steps
            /\ child' = child
        BY <1>0, <3>5 DEF ReadCheckpoints, Others, ExecStates, taskVars
      <4> QED  BY <1>0, <1>b, <1>d, <4>1, <4>2
    <3>6. CASE /\ exec[w].pc = "build" /\ Calm
               /\ exec' = [exec EXCEPT ![w].pc = "start", ![w].tmpl = IF hot THEN "hot" ELSE "cold"]
      <4>1. Others(w) /\ exec'[w].pc = "start" /\ exec'[w].seen = exec[w].seen /\ child' = child
        BY <1>0, <3>6 DEF Others, ExecStates, Calm
      <4> QED  BY <1>0, <1>b, <1>d, <3>6, <4>1
    <3>7. CASE exec[w].pc = "start" /\ StartTask(w) /\ exec' = exec
      BY <1>0, <1>b, <3>7 DEF Others
    <3>8. CASE Finish(w) \/ StopCancelled(w)
      <4>1. /\ Others(w) /\ exec'[w].pc = exec[w].pc /\ exec'[w].seen = exec[w].seen
            /\ child' = child
        BY <1>0, <3>8 DEF Finish, StopCancelled, Others, ExecStates, runVars, taskVars
      <4> QED  BY <1>0, <4>1
    <3> QED  BY <2>1, <3>1, <3>2, <3>3, <3>4, <3>5, <3>6, <3>7, <3>8, StepIs
  <2>4. ApprovalInv'
    BY <1>0, <2>2, <2>3 DEF Frame, Others, ApprovalInv, Dead, Behind
  <2>5. RepairKeepsApproval'
    BY <1>0, <2>2, <2>3, <2>4 DEF Frame, RepairKeepsApproval
  <2> QED  BY <2>4, <2>5
<1>2. CASE ~\E w \in Executors : Step(w)
  <2>1. /\ UNCHANGED <<steps, approved>> /\ \A v \in Executors : mail'[v] = mail[v]
        /\ exec' = exec \/ \E w \in Executors : Handled(w) \/ ForkOf(w)
        /\ child' = child \/ TaskEnds
    BY <1>2, OthersIs
  <2>2. \A v \in Executors :
          /\ exec'[v].pc \notin Dead
          /\ exec'[v].seen["DecideST"] # "none" => approved
          /\ exec'[v].pc \in Behind => approved
    <3>1. CASE exec' = exec
      BY <1>0, <3>1
    <3>2. ASSUME NEW w \in Executors, Handled(w) PROVE <2>2
      BY <1>0, <3>2 DEF Handled, Others
    <3>3. ASSUME NEW w \in Executors, ForkOf(w) PROVE <2>2
      BY <1>0, <1>b, <1>d, <3>3 DEF ForkOf, Others, StepIds
    <3> QED  BY <2>1, <3>1, <3>2, <3>3
  <2>3. ApprovalInv'
    BY <1>0, <2>1, <2>2 DEF ApprovalInv, Dead, Behind
  <2>4. (\E k \in Keys : child'[k] # "none") => approved
    BY <1>0, <2>1 DEF TaskEnds
  <2> QED  BY <2>1, <2>3, <2>4 DEF RepairKeepsApproval
<1> QED  BY <1>1, <1>2

\* A result that is there stays.
LEMMA ResultsStay ==
  ASSUME TypeOK, Placed, ApprovalInv, [Next]_vars
  PROVE  /\ child' \in [Keys -> TaskStates]
         /\ \A k \in Keys : child[k] \in {"ok", "failed"} => child'[k] = child[k]
<1>0. child \in [Keys -> TaskStates]
  BY DEF TypeOK
<1>1. child' = child \/ TaskEnds \/ \E w \in Executors : StartTask(w)
  <2>1. CASE \E w \in Executors : Step(w)
    BY <2>1, StepIs DEF Calm, CalmMove, RowMove, Inner, RaiseRetryCount, Reopen, Produce,
       ApplyPatch, SaveReceipt, SaveExecuteRow, ReadCheckpoints, Finish, StopCancelled,
       runVars, taskVars
  <2>2. CASE ~\E w \in Executors : Step(w)
    BY <2>2, OthersIs
  <2> QED  BY <2>1, <2>2
<1>2. CASE child' = child
  BY <1>0, <1>2
<1>3. CASE TaskEnds
  <2>1. PICK k \in Keys, s \in {"ok", "failed", "threw"} :
          child[k] = "queued" /\ child' = [child EXCEPT ![k] = s]
    BY <1>3 DEF TaskEnds
  <2> QED  BY <1>0, <2>1 DEF TaskStates
<1>4. CASE \E w \in Executors : StartTask(w)
  <2>1. PICK w \in Executors : StartTask(w)
    BY <1>4
  <2>2. CASE \E t \in Tasks : /\ child[<<t, exec[w].tmpl>>] = "none"
                              /\ child' = [child EXCEPT ![<<t, exec[w].tmpl>>] = "queued"]
    <3>1. PICK t \in Tasks : /\ child[<<t, exec[w].tmpl>>] = "none"
                             /\ child' = [child EXCEPT ![<<t, exec[w].tmpl>>] = "queued"]
      BY <2>2
    <3>2. PICK k \in Keys : k = <<t, exec[w].tmpl>>
      BY DEF Keys, TypeOK, ExecStates
    <3> QED  BY <1>0, <3>1, <3>2 DEF TaskStates
  <2> QED  BY <1>2, <2>1, <2>2 DEF StartTask
<1> QED  BY <1>1, <1>2, <1>3, <1>4
-----------------------------------------------------------------------------
\* Results that were all there are the same afterwards.
LEMMA JoinedStays ==
  ASSUME TypeOK, Placed, ApprovalInv, [Next]_vars, NEW v \in Executors, NEW w \in Executors,
         Joined(w), exec'[v].tmpl = exec[w].tmpl
  PROVE  Children(v)' = Children(w) /\ Joined(v)'
<1>1. \A t \in Tasks : <<t, exec[w].tmpl>> \in Keys
  BY DEF Keys, TypeOK, ExecStates
<1>2. \A t \in Tasks : child[<<t, exec[w].tmpl>>] \in {"ok", "failed"}
  BY DEF Joined, Children
<1>3. \A t \in Tasks : child'[<<t, exec'[v].tmpl>>] = child[<<t, exec[w].tmpl>>]
  BY <1>1, <1>2, ResultsStay
<1>4. Children(v)' = Children(w)
  BY <1>3 DEF Children
<1> QED  BY <1>4 DEF Joined

LEMMA AllGoodStays ==
  ASSUME TypeOK, Placed, ApprovalInv, [Next]_vars, AllGood
  PROVE  AllGood'
<1>1. PICK m \in Templates : \A t \in Tasks : child[<<t, m>>] = "ok"
  BY DEF AllGood
<1>2. \A t \in Tasks : <<t, m>> \in Keys
  BY DEF Keys
<1>3. \A t \in Tasks : child'[<<t, m>>] = "ok"
  BY <1>1, <1>2, ResultsStay
<1> QED  BY <1>3 DEF AllGood

\* Of the steps only SaveExecuteRow touches the row of ExecuteST.
LEMMA ExecuteRowStays ==
  ASSUME TypeOK, Placed, ApprovalInv, [Next]_vars, \A w \in Executors : ~SaveExecuteRow(w)
  PROVE  steps'["ExecuteST"] = steps["ExecuteST"]
<1>0. steps \in StepRows
  BY DEF TypeOK
<1>1. CASE \E w \in Executors : Step(w)
  <2>1. PICK w \in Executors : Step(w)
    BY <1>1
  <2>2. CASE Inner(w)
    BY <1>0, <2>2 DEF Inner, RaiseRetryCount, Reopen, Produce, ApplyPatch, SaveReceipt,
       StepRows, StepIds
  <2>3. CASE ~Inner(w)
    BY <2>1, <2>3, StepIs DEF Calm, CalmMove, RowMove, ReadCheckpoints, StartTask, Finish,
       StopCancelled, runVars
  <2> QED  BY <2>2, <2>3
<1>2. CASE ~\E w \in Executors : Step(w)
  BY <1>2, OthersIs
<1> QED  BY <1>1, <1>2

LEMMA NextResult ==
  TypeOK /\ Placed /\ ApprovalInv /\ ResultInv /\ [Next]_vars => ResultInv'
<1> SUFFICES ASSUME TypeOK, Placed, ApprovalInv, ResultInv, [Next]_vars
             PROVE  ResultInv'
  OBVIOUS
<1> DEFINE Fits(v) ==
             /\ exec[v].pc \in Executing => exec[v].seen["ExecuteST"] = "none"
             /\ exec[v].pc \in {"save", "saved"} => Joined(v)
             /\ exec[v].pc = "sbx" /\ exec[v].seen["ExecuteST"] # "bad" => Joined(v)
<1>0. /\ exec \in [Executors -> ExecStates] /\ steps \in StepRows
      /\ \A v \in Executors : exec[v].seen \in StepRows /\ Fits(v)
      /\ steps["ExecuteST"] = "ok" => AllGood
  BY DEF TypeOK, ExecStates, ResultInv
<1>1. steps'["ExecuteST"] = "ok" => AllGood'
  <2>1. CASE \E w \in Executors : SaveExecuteRow(w)
    <3>1. PICK w \in Executors : SaveExecuteRow(w)
      BY <2>1
    <3>2. exec[w].pc = "save" /\ Joined(w) /\ exec[w].tmpl \in Templates
      <4>1. exec[w].pc = "save"
        BY <3>1 DEF SaveExecuteRow, Inside
      <4>2. Joined(w)
        BY <1>0, <4>1
      <4> QED  BY <1>0, <4>1, <4>2 DEF ExecStates
    <3>3. CASE "failed" \in Children(w)
      BY <1>0, <3>1, <3>3 DEF SaveExecuteRow, StepRows, StepIds
    <3>4. CASE "failed" \notin Children(w)
      <4>1. \A t \in Tasks : child[<<t, exec[w].tmpl>>] \in Children(w)
        BY DEF Children
      <4>2. \A t \in Tasks : child[<<t, exec[w].tmpl>>] = "ok"
        BY <3>2, <3>4, <4>1 DEF Joined
      <4>3. AllGood
        BY <3>2, <4>2 DEF AllGood
      <4> QED  BY <4>3, AllGoodStays
    <3> QED  BY <3>3, <3>4
  <2>2. CASE \A w \in Executors : ~SaveExecuteRow(w)
    BY <1>0, <2>2, ExecuteRowStays, AllGoodStays
  <2> QED  BY <2>1, <2>2
<1>2. ASSUME NEW v \in Executors, NEW w \in Executors,
             exec'[v].pc = exec[w].pc, exec'[v].seen = exec[w].seen, exec'[v].tmpl = exec[w].tmpl
      PROVE  Fits(v)'
  <2>1. Joined(w) => Joined(v)'
    BY <1>2, JoinedStays
  <2> QED  BY <1>0, <1>2, <2>1
<1>e. \A q : q \in Executing <=> q \in {"build", "start", "join", "save", "saved"}
  BY DEF Executing
<1>r. (\A v \in Executors : Fits(v)') => ResultInv'
  BY <1>1, Zenon DEF ResultInv
<1>3. CASE \E w \in Executors : Step(w)
  <2>1. PICK w \in Executors : Step(w)
    BY <1>3
  <2>2. Others(w) /\ Fits(w)'
    <3>1. CASE Stays(w) /\ Inner(w)
      BY <1>2, <3>1 DEF Stays, SameRun
    <3>2. CASE Throws(w)
      BY <1>e, <3>2 DEF Throws
    <3>3. ASSUME NEW p \in Positions, NEW q \in Positions, CalmMove(w, p, q)
          PROVE  Others(w) /\ Fits(w)'
      <4>1. /\ Moves(w, p, q) /\ <<p, q>> \in CalmEdges /\ exec[w].pc = p
            /\ p = "join" => Joined(w)
        BY <3>3 DEF CalmMove, Moves
      <4>2. /\ q \in Executing => p \in Executing
            /\ q \in {"save", "saved"} => p \in {"join", "save"}
            /\ q # "sbx"
        BY <1>e, <4>1 DEF CalmEdges
      <4>3. Joined(w) => Joined(w)'
        BY <4>1, JoinedStays DEF Moves, SameRun
      <4> QED  BY <1>0, <4>1, <4>2, <4>3 DEF Moves, SameRun
    <3>4. ASSUME NEW p \in Positions, NEW q \in Positions, RowMove(w, p, q)
          PROVE  Others(w) /\ Fits(w)'
      <4>1. /\ Moves(w, p, q) /\ <<p, q>> \in RowEdges /\ exec[w].pc = p
            /\ p \in {"compiled", "applied"} => q \in {FromApply(exec[w].seen), FromDecide(exec[w].seen)}
        BY <3>4 DEF RowMove, Moves
      <4>2. Joined(w) => Joined(w)'
        BY <4>1, JoinedStays DEF Moves, SameRun
      <4>3. CASE p \in {"compiled", "applied"}
        <5>1. /\ q \in Executing => exec[w].seen["ExecuteST"] = "none"
              /\ q \notin {"save", "saved"} /\ q = "sbx" => exec[w].seen["ExecuteST"] = "bad"
          BY <1>0, <1>e, <4>1, <4>3, Branches
        <5>2. q \notin {"save", "saved"}
          BY <4>1, <4>3 DEF RowEdges
        <5> QED  BY <4>1, <5>1, <5>2 DEF Moves, SameRun
      <4>4. CASE p \notin {"compiled", "applied"}
        <5>1. q \notin Executing /\ (q = "sbx" => p = "saved")
          BY <1>e, <4>1, <4>4 DEF RowEdges
        <5> QED  BY <1>0, <1>e, <4>1, <4>2, <5>1 DEF Moves, SameRun
      <4> QED  BY <4>3, <4>4
    <3>5. CASE ReadCheckpoints(w)
      <4>1. Others(w) /\ exec'[w].pc = FromCompile(steps) /\ exec'[w].seen = steps
        BY <1>0, <3>5 DEF ReadCheckpoints, Others, ExecStates
      <4>2. PICK q : q = FromCompile(steps)
        OBVIOUS
      <4>3. /\ q \in {"compile", "apply", "planWait", "build", "succeed", "sbx"}
            /\ q = "build" => steps["ExecuteST"] = "none"
            /\ q = "sbx" => steps["ExecuteST"] = "bad"
        BY <1>0, <4>2, Branches
      <4> QED  BY <1>e, <4>1, <4>2, <4>3
    <3>6. CASE /\ exec[w].pc = "build"
               /\ exec' = [exec EXCEPT ![w].pc = "start", ![w].tmpl = IF hot THEN "hot" ELSE "cold"]
      <4>1. Others(w) /\ exec'[w].pc = "start" /\ exec'[w].seen = exec[w].seen
        BY <1>0, <3>6 DEF Others, ExecStates
      <4> QED  BY <1>0, <1>e, <3>6, <4>1
    <3>7. CASE exec' = exec
      BY <1>2, <3>7 DEF Others
    <3>8. CASE Finish(w) \/ StopCancelled(w)
      <4>1. /\ Others(w) /\ exec'[w].pc = exec[w].pc /\ exec'[w].seen = exec[w].seen
            /\ exec'[w].tmpl = exec[w].tmpl
        BY <1>0, <3>8 DEF Finish, StopCancelled, Others, ExecStates
      <4> QED  BY <1>2, <4>1
    <3> QED  BY <2>1, <3>1, <3>2, <3>3, <3>4, <3>5, <3>6, <3>7, <3>8, StepIs DEF Throws
  <2>3. \A v \in Executors : Fits(v)'
    BY <1>2, <2>2 DEF Others
  <2> QED  BY <1>r, <2>3
<1>4. CASE ~\E w \in Executors : Step(w)
  <2>1. exec' = exec \/ \E w \in Executors : Handled(w) \/ ForkOf(w)
    BY <1>4, OthersIs
  <2>2. CASE exec' = exec
    BY <1>r, <1>2, <2>2
  <2>3. ASSUME NEW w \in Executors, Handled(w) PROVE ResultInv'
    <3>1. \A v \in Executors : Fits(v)'
      BY <1>2, <2>3 DEF Handled, Others
    <3> QED  BY <1>r, <3>1
  <2>4. ASSUME NEW w \in Executors, ForkOf(w) PROVE ResultInv'
    <3>1. \A v \in Executors : v # "fork" => Fits(v)'
      BY <1>2, <2>4 DEF ForkOf, Others
    <3>2. Fits("fork")'
      <4>1. CASE exec'["fork"].pc \in {"reopen", "read"}
        BY <1>e, <4>1
      <4>2. CASE /\ exec'["fork"].pc = exec[w].pc /\ exec'["fork"].seen = exec[w].seen
                 /\ exec'["fork"].tmpl = exec[w].tmpl
        BY <1>2, <4>2 DEF Executors
      <4> QED  BY <2>4, <4>1, <4>2 DEF ForkOf
    <3> QED  BY <1>r, <3>1, <3>2
  <2> QED  BY <2>1, <2>2, <2>3, <2>4
<1> QED  BY <1>3, <1>4
-----------------------------------------------------------------------------
\* What the steps make of the status of the row.
LEMMA RowAfterStatus ==
  ASSUME row \in RunRows, NEW w \in Executors, NEW p \in Positions, NEW q \in Positions,
         <<p, q>> \in RowEdges
  PROVE  /\ p = "succeed" => RowAfter(w, p).status = "succeeded"
         /\ p = "fail" => RowAfter(w, p).status = "retries_exceeded"
         /\ p \notin {"succeed", "fail"} =>
              \/ RowAfter(w, p).status = row.status
              \/ RowAfter(w, p).status = "waiting_input" /\ row.status \notin TerminalStatus
<1>1. p \in RowSteps
  BY DEF RowEdges, RowSteps
<1>2. /\ SetStatus(row, "succeeded").status = "succeeded"
      /\ SetFailure(row, "retries_exceeded", exec[w].err, "REPAIR").status = "retries_exceeded"
      /\ \/ SetStatus(row, "waiting_input").status = row.status
         \/ SetStatus(row, "waiting_input").status = "waiting_input" /\ row.status \notin TerminalStatus
  BY DEF RunRows, SetStatus, SetFailure, Settle, TerminalStatus
<1>3. /\ \A x \in StepIds : SetLastStep(row, x).status = row.status
      /\ SetNextAction(row, "APPROVE_PLAN").status = row.status
  BY DEF RunRows, SetLastStep, SetNextAction
<1> QED  BY <1>1, <1>2, <1>3 DEF RowAfter, RowSteps, StepIds

LEMMA InnerStatus ==
  ASSUME row \in RunRows, steps \in StepRows, NEW w \in Executors, Inner(w)
  PROVE  /\ exec[w].pc \in {"reopen", "compile", "apply", "save"}
         /\ \/ row'.status = row.status
            \/ exec[w].pc = "reopen" /\ row'.status = "repairing"
         /\ exec[w].pc # "save" => steps'["ExecuteST"] = steps["ExecuteST"]
  BY DEF Inner, RaiseRetryCount, Reopen, Produce, ApplyPatch, SaveReceipt, SaveExecuteRow,
     Start, Inside, RunRows, Settle, TerminalStatus, StepRows, StepIds, runVars

\* Unless somebody forks it, only the repair itself steps.
\* Only its end changes what DBOS says of an executor that steps.
LEMMA StepDb ==
  ASSUME TypeOK, Placed, ApprovalInv, NEW w \in Executors, Step(w)
  PROVE  /\ Others(w) /\ exec[w].db \in Open \cup {"CANCELLED"}
         /\ exec'[w].db \in {exec[w].db} \cup Ended
<1>0. exec \in [Executors -> ExecStates] /\ exec[w].live /\ PlaceInv(w)
  BY StepIs DEF TypeOK, Placed
<1>1. exec[w].db \in Open \cup {"CANCELLED"}
  BY <1>0 DEF PlaceInv
<1>2. CASE Stays(w) \/ Throws(w) \/ \E p, q \in Positions : CalmMove(w, p, q) \/ RowMove(w, p, q)
  BY <1>1, <1>2 DEF Stays, Throws, CalmMove, RowMove, Moves, SameRun
<1>3. CASE exec' = exec
  BY <1>1, <1>3 DEF Others
<1>4. CASE ReadCheckpoints(w) \/ StopCancelled(w)
  BY <1>0, <1>1, <1>4 DEF ReadCheckpoints, StopCancelled, Others, ExecStates
<1>5. CASE exec' = [exec EXCEPT ![w].pc = "start", ![w].tmpl = IF hot THEN "hot" ELSE "cold"]
  BY <1>0, <1>1, <1>5 DEF Others, ExecStates
<1>6. CASE Finish(w)
  BY <1>0, <1>1, <1>6 DEF Finish, Others, ExecStates, Ended
<1> QED  BY <1>2, <1>3, <1>4, <1>5, <1>6, StepIs

\* Unless somebody forks it, only the repair itself steps.
LEMMA NextOutcome ==
  IInv /\ [Next]_vars => OutcomeInv'
<1> SUFFICES ASSUME IInv, [Next]_vars, Unforked' PROVE OutcomeInv'
  BY DEF OutcomeInv
<1> DEFINE r == "repair"
           H1 == exec[r].seen["ExecuteST"] \in {"none", steps["ExecuteST"]}
           H2 == (exec[r].pc = "save" /\ exec[r].mem = "ok") \/ exec[r].pc = "saved" => Merged(r)
           H3 == exec[r].pc = "sbx" /\ exec[r].seen["ExecuteST"] # "bad" => Merged(r)
           H4 == exec[r].pc \in Succeeding => steps["ExecuteST"] = "ok"
           H5 == row.status = "succeeded" =>
                   exec[r].pc \in {"succeedEvt", "end"} /\ steps["ExecuteST"] = "ok"
           H6 == exec[r].pc = "failEvt" \/ (exec[r].pc = "end" /\ exec[r].err # "null") =>
                   row.status = "retries_exceeded"
           H7 == exec[r].pc = "succeedEvt" \/ (exec[r].pc = "end" /\ exec[r].err = "null") =>
                   row.status = "succeeded" \/ (row.status = "canceled" /\ ops > 0)
           H == H1 /\ H2 /\ H3 /\ H4 /\ H5 /\ H6 /\ H7
<1>0. /\ TypeOK /\ Placed /\ ApprovalInv /\ ResultInv /\ OutcomeInv /\ OpenInv
      /\ row \in RunRows /\ steps \in StepRows /\ ops \in Nat
      /\ exec \in [Executors -> ExecStates] /\ exec[r] \in ExecStates
      /\ PlaceInv(r) /\ PlaceInv("fork")
      /\ exec[r].seen \in StepRows
      /\ r \in Executors /\ "fork" \in Executors
  BY DEF IInv, TypeOK, Placed, Executors, ExecStates
<1>h. H' => OutcomeInv'
  BY DEF OutcomeInv
<1>o. Unforked => H
  BY <1>0 DEF OutcomeInv
<1>j. /\ exec[r].pc \in {"save", "saved"} => Joined(r)
      /\ exec[r].pc = "sbx" /\ exec[r].seen["ExecuteST"] # "bad" => Joined(r)
      /\ exec[r].pc = "save" => exec[r].seen["ExecuteST"] = "none"
  BY <1>0 DEF ResultInv, Executing
<1>s. \A q : q \in Succeeding <=> q \in {"succeed", "succeedEvt"}
  BY DEF Succeeding
<1>m. ASSUME Joined(r), exec'[r].tmpl = exec[r].tmpl, steps' = steps, Merged(r) PROVE Merged(r)'
  <2>1. Children(r)' = Children(r)
    BY <1>0, <1>m, JoinedStays
  <2> QED  BY <1>m, <2>1 DEF Merged
<1>1. CASE ~\E w \in Executors : Step(w)
  <2>1. /\ UNCHANGED <<row, steps>> /\ ops' \in {ops, ops + 1}
        /\ exec' = exec \/ \E w \in Executors : Handled(w) \/ ForkOf(w)
    BY <1>0, <1>1, OthersIs
  <2>2. ~\E w \in Executors : ForkOf(w)
    BY DEF ForkOf, Unforked
  <2>3. /\ Unforked
        /\ exec'[r].pc = exec[r].pc /\ exec'[r].err = exec[r].err
        /\ exec'[r].seen = exec[r].seen /\ exec'[r].tmpl = exec[r].tmpl
        /\ exec'[r].mem \in {exec[r].mem, "none"}
    <3>1. CASE exec' = exec
      BY <3>1 DEF Unforked
    <3>2. ASSUME NEW w \in Executors, Handled(w) PROVE <2>3
      BY <1>0, <3>2 DEF Handled, Others, Unforked
    <3> QED  BY <2>1, <2>2, <3>1, <3>2
  <2>4. H1' /\ H4' /\ H5' /\ H6'
    BY <1>o, <2>1, <2>3
  <2>5. H2' /\ H3'
    BY <1>o, <1>j, <1>m, <2>1, <2>3
  <2>6. H7'
    <3>1. ops > 0 => ops' > 0
      BY <1>0, <2>1
    <3> QED  BY <1>o, <2>1, <2>3, <3>1
  <2> QED  BY <1>h, <2>4, <2>5, <2>6
<1>2. CASE \E w \in Executors : Step(w)
  <2>1. PICK w \in Executors : Step(w)
    BY <1>2
  <2>2. Unforked /\ w = r
    BY <1>0, <2>1, StepDb DEF Unforked, Others, Executors, Open, Ended
  <2>3. H
    BY <1>o, <2>2
  <2>4. ops' = ops
    BY <1>0, <2>1, StepFrame DEF Frame, opsVars
  <2>5. CASE Stays(w) /\ Inner(w)
    <3>1. /\ exec[r].pc \in {"reopen", "compile", "apply", "save"}
          /\ \/ row'.status = row.status
             \/ exec[r].pc = "reopen" /\ row'.status = "repairing"
          /\ exec[r].pc # "save" => steps'["ExecuteST"] = steps["ExecuteST"]
      BY <1>0, <2>2, <2>5, InnerStatus
    <3>2. exec'[r].pc = exec[r].pc /\ exec'[r].seen = exec[r].seen /\ exec'[r].tmpl = exec[r].tmpl
      BY <2>2, <2>5 DEF Stays, SameRun
    <3>3. H1' /\ H3' /\ H4' /\ H5' /\ H6' /\ H7'
      BY <1>s, <1>j, <2>3, <3>1, <3>2
    <3>4. ASSUME exec[r].pc = "save", exec'[r].mem = "ok" PROVE Merged(r)'
      <4>1. SaveExecuteRow(r)
        BY <1>0, <2>2, <2>5, <3>4, MemIs
           DEF Inner, RaiseRetryCount, Reopen, Produce, ApplyPatch, SaveReceipt, Start, Inside
      <4>2. steps'["ExecuteST"] = IF "failed" \in Children(r) THEN "bad" ELSE "ok"
        BY <1>0, <4>1 DEF SaveExecuteRow, StepRows, StepIds
      <4>3. Children(r)' = Children(r)
        BY <1>0, <1>j, <3>2, <3>4, JoinedStays
      <4> QED  BY <4>2, <4>3 DEF Merged
    <3>5. H2'
      BY <3>1, <3>2, <3>4
    <3> QED  BY <1>h, <3>3, <3>5
  <2>6. CASE Throws(w) /\ Calm /\ exec[w].pc \notin CatchSteps \cup Succeeding
    <3>1. /\ exec'[r].pc \in {"budget", "fail"} /\ exec'[r].seen = exec[r].seen
          /\ steps' = steps /\ row' = row /\ exec[r].pc \notin {"succeedEvt", "end"}
      BY <1>s, <2>2, <2>6 DEF Throws, SameRun, Calm, CatchSteps
    <3>2. H'
      BY <1>s, <2>3, <3>1
    <3> QED  BY <1>h, <3>2
  <2>7. ASSUME NEW p \in Positions, NEW q \in Positions, CalmMove(w, p, q)
        PROVE  OutcomeInv'
    <3>1. /\ exec[r].pc = p /\ exec'[r].pc = q /\ exec'[r].seen = exec[r].seen
          /\ exec'[r].err = exec[r].err /\ exec'[r].tmpl = exec[r].tmpl
          /\ steps' = steps /\ row' = row /\ <<p, q>> \in CalmEdges
          /\ exec'[r].mem = "none"
          /\ p = "save" => exec[r].mem = "ok"
          /\ p = "sbx" => exec[r].seen["ExecuteST"] # "bad" /\ "failed" \notin Children(r)
      BY <2>2, <2>7 DEF CalmMove, Moves, SameRun, Calm
    <3>2. /\ q # "sbx" /\ (q = "saved" => p = "save") /\ (q \in {"succeed", "succeedEvt"} => p = "sbx")
          /\ q # "failEvt" /\ (q = "end" <=> p \in {"succeedEvt", "failEvt"}) /\ p # "end"
          /\ q # "succeedEvt"
      BY <3>1 DEF CalmEdges
    <3>3. H1'
      BY <2>3, <3>1
    <3>4. H2' /\ H3'
      BY <1>j, <1>m, <2>3, <3>1, <3>2
    <3>5. H4'
      BY <1>s, <2>3, <3>1, <3>2 DEF Merged
    <3>6. H5'
      BY <2>3, <3>1, <3>2
    <3>7. p = "succeedEvt" => exec[r].err = "null"
      BY <1>0, <3>1 DEF PlaceInv, CatchSteps
    <3>8. p = "failEvt" => exec[r].err # "null"
      BY <1>0, <3>1 DEF PlaceInv, CatchSteps
    <3>9. H6' /\ H7'
      BY <2>3, <2>4, <3>1, <3>2, <3>7, <3>8
    <3> QED  BY <1>h, <3>3, <3>4, <3>5, <3>6, <3>9
  <2>8. ASSUME NEW p \in Positions, NEW q \in Positions, RowMove(w, p, q)
        PROVE  OutcomeInv'
    <3>1. /\ exec[r].pc = p /\ exec'[r].pc = q /\ exec'[r].seen = exec[r].seen
          /\ exec'[r].err = exec[r].err /\ exec'[r].tmpl = exec[r].tmpl
          /\ steps' = steps /\ <<p, q>> \in RowEdges /\ row' = RowAfter(r, p)
          /\ p \in {"compiled", "applied"} => q \in {FromApply(exec[r].seen), FromDecide(exec[r].seen)}
      BY <2>2, <2>8 DEF RowMove, Moves, SameRun
    <3>2. /\ q \notin {"save", "saved", "end"} /\ p \notin {"succeedEvt", "end"}
          /\ q = "sbx" => p \in {"saved", "compiled", "applied"}
          /\ q = "succeed" => p \in {"compiled", "applied"}
          /\ (q = "succeedEvt" <=> p = "succeed") /\ (q = "failEvt" <=> p = "fail")
      BY <3>1 DEF RowEdges
    <3>3. p \in {"compiled", "applied"} =>
            /\ q = "succeed" => exec[r].seen["ExecuteST"] = "ok"
            /\ q = "sbx" => exec[r].seen["ExecuteST"] = "bad"
      BY <1>0, <3>1, Branches
    <3>4. /\ p = "succeed" => row'.status = "succeeded"
          /\ p = "fail" => row'.status = "retries_exceeded"
          /\ p \notin {"succeed", "fail"} => row'.status \in {row.status, "waiting_input"}
      BY <1>0, <3>1, RowAfterStatus
    <3>5. H1' /\ H2'
      BY <2>3, <3>1, <3>2
    <3>6. H3'
      BY <1>j, <1>m, <2>3, <3>1, <3>2, <3>3
    <3>7. H4'
      BY <1>s, <2>3, <3>1, <3>2, <3>3
    <3>8. H5' /\ H6' /\ H7'
      BY <1>s, <2>3, <3>1, <3>2, <3>4
    <3> QED  BY <1>h, <3>5, <3>6, <3>7, <3>8
  <2>9. CASE ReadCheckpoints(w)
    <3>1. /\ exec'[r].pc = FromCompile(steps) /\ exec'[r].seen = steps /\ exec[r].pc = "read"
          /\ steps' = steps /\ row' = row
      BY <1>0, <2>2, <2>9 DEF ReadCheckpoints, Start, ExecStates, runVars
    <3>2. PICK q : q = FromCompile(steps)
      OBVIOUS
    <3>3. /\ q \in {"compile", "apply", "planWait", "build", "succeed", "sbx"}
          /\ q = "succeed" => steps["ExecuteST"] = "ok"
          /\ q = "sbx" => steps["ExecuteST"] = "bad"
      BY <1>0, <3>2, Branches
    <3>4. H'
      BY <1>s, <2>3, <3>1, <3>2, <3>3
    <3> QED  BY <1>h, <3>4
  <2>10. CASE /\ exec[w].pc = "build" /\ Calm
              /\ exec' = [exec EXCEPT ![w].pc = "start", ![w].tmpl = IF hot THEN "hot" ELSE "cold"]
    <3>1. /\ exec'[r].pc = "start" /\ exec'[r].seen = exec[r].seen /\ exec[r].pc = "build"
          /\ steps' = steps /\ row' = row
      BY <1>0, <2>2, <2>10 DEF Calm, ExecStates
    <3>2. H'
      BY <1>s, <2>3, <3>1
    <3> QED  BY <1>h, <3>2
  <2>11. CASE exec[w].pc = "start" /\ StartTask(w) /\ exec' = exec
    <3>1. exec[r].pc = "start" /\ steps' = steps /\ row' = row
      BY <2>2, <2>11 DEF StartTask, runVars
    <3>2. H'
      BY <1>s, <2>3, <2>11, <3>1
    <3> QED  BY <1>h, <3>2
  <2>12. CASE Finish(w) \/ StopCancelled(w)
    <3>1. /\ exec'[r].pc = exec[r].pc /\ exec'[r].seen = exec[r].seen /\ exec'[r].err = exec[r].err
          /\ exec'[r].mem = exec[r].mem /\ exec'[r].tmpl = exec[r].tmpl /\ steps' = steps
      BY <1>0, <2>2, <2>12 DEF Finish, StopCancelled, ExecStates, runVars
    <3>2. \/ row' = row
          \/ row'.status = "canceled" /\ exec[r].pc \notin {"failEvt", "end"} /\ ops > 0
      BY <1>0, <2>2, <2>12
         DEF Finish, StopCancelled, runVars, SetFailure, Settle, RunRows, TerminalStatus,
             CatchSteps, OpenInv
    <3>3. H1' /\ H4'
      BY <2>3, <3>1
    <3>4. H2' /\ H3'
      BY <1>j, <1>m, <2>3, <3>1
    <3>5. H5' /\ H6' /\ H7'
      BY <2>3, <2>4, <3>1, <3>2
    <3> QED  BY <1>h, <3>3, <3>4, <3>5
  <2> QED  BY <1>0, <2>1, <2>5, <2>6, <2>7, <2>8, <2>9, <2>10, <2>11, <2>12, StepIs
<1> QED  BY <1>1, <1>2
-----------------------------------------------------------------------------
\* What an operator was told stays told, or the server died.
LEMMA ToldStays ==
  ASSUME TypeOK, NEW w \in Executors, Told(w),
         \/ UNCHANGED <<audit, operator>> /\ deaths' \in {deaths, deaths + 1}
         \/ \E o \in Operators : Operate(o)
  PROVE  Told(w)'
<1>0. deaths \in Nat
  BY DEF TypeOK
<1>1. CASE UNCHANGED <<audit, operator>> /\ deaths' \in {deaths, deaths + 1}
  BY <1>0, <1>1 DEF Told
<1>2. CASE \E o \in Operators : AskOp(o) \/ DoOp(o)
  <2>1. PICK o \in Operators : AskOp(o) \/ DoOp(o)
    BY <1>2
  <2>2. /\ operator[o].at # "audit" /\ audit' = audit /\ deaths' = deaths
        /\ \A q \in Operators : q # o => operator'[q] = operator[q]
    BY <2>1 DEF AskOp, DoOp, TypeOK
  <2> QED  BY <2>2 DEF Told
<1>3. CASE \E o \in Operators : PersistOpIntent(o)
  <2>1. PICK o \in Operators : PersistOpIntent(o)
    BY <1>3
  <2>2. /\ audit' = audit \cup {[op |-> operator[o].op, on |-> operator[o].on]}
        /\ deaths' = deaths
        /\ \A q \in Operators : q # o => operator'[q] = operator[q]
    BY <2>1 DEF PersistOpIntent, TypeOK
  <2>3. CASE \E a \in audit : a.op = "cancel" /\ a.on = w
    BY <2>2, <2>3 DEF Told
  <2>4. CASE operator[o].op = "cancel" /\ operator[o].on = w
    <3>1. [op |-> operator[o].op, on |-> operator[o].on] \in audit'
      BY <2>2
    <3> QED  BY <2>4, <3>1 DEF Told
  <2>5. CASE \E q \in Operators : /\ q # o /\ operator[q].at = "audit"
                                 /\ operator[q].op = "cancel" /\ operator[q].on = w
    BY <2>2, <2>5 DEF Told
  <2>6. CASE deaths > 0
    BY <2>2, <2>6 DEF Told
  <2> QED  BY <2>3, <2>4, <2>5, <2>6 DEF Told
<1>4. CASE \E o \in Operators : LoseOp(o)
  <2>1. deaths' > 0
    BY <1>0, <1>4 DEF LoseOp
  <2> QED  BY <2>1 DEF Told
<1> QED  BY <1>1, <1>2, <1>3, <1>4 DEF Operate

\* A step out of "cancelled" is an operator's, a step into it too.
LEMMA NextTold ==
  ASSUME IInv, [Next]_vars
  PROVE  /\ \A o \in Operators : operator'[o].at # "idle" => ops' > 0
         /\ \A w \in Executors : exec'[w].db = "CANCELLED" => ops' > 0 /\ Told(w)'
<1> USE DEF runVars, gateVars, taskVars, opsVars
<1>0. /\ TypeOK /\ Placed /\ ApprovalInv /\ ops \in Nat /\ deaths \in Nat
      /\ exec \in [Executors -> ExecStates]
      /\ \A v \in Executors : exec[v] \in ExecStates
      /\ \A o \in Operators : operator[o].at # "idle" => ops > 0
      /\ \A v \in Executors : exec[v].db = "CANCELLED" => ops > 0 /\ Told(v)
  BY DEF IInv, TypeOK, OpenInv
<1>1. ASSUME ops' = ops, UNCHANGED <<audit, operator>>, deaths' \in {deaths, deaths + 1},
             \A v \in Executors : exec'[v].db = "CANCELLED" => exec[v].db = "CANCELLED"
      PROVE  /\ \A o \in Operators : operator'[o].at # "idle" => ops' > 0
             /\ \A v \in Executors : exec'[v].db = "CANCELLED" => ops' > 0 /\ Told(v)'
  BY <1>0, <1>1, ToldStays
<1>2. CASE \E w \in Executors : Step(w)
  <2>1. PICK w \in Executors : Step(w)
    BY <1>2
  <2>2. UNCHANGED <<ops, audit, operator, deaths>>
    BY <1>0, <2>1, StepFrame DEF Frame
  <2>3. \A v \in Executors : exec'[v].db = "CANCELLED" => exec[v].db = "CANCELLED"
    BY <1>0, <2>1, StepDb DEF Others, Ended
  <2> QED  BY <1>0, <1>1, <2>2, <2>3
<1>3. CASE \E w \in Executors : Dequeue(w) \/ Recover(w) \/ Crash(w)
  <2>1. UNCHANGED <<ops, audit, operator>> /\ deaths' \in {deaths, deaths + 1}
    BY <1>3 DEF Dequeue, Recover, Crash
  <2>2. \A v \in Executors : exec'[v].db = "CANCELLED" => exec[v].db = "CANCELLED"
    <3>1. PICK w \in Executors : Dequeue(w) \/ Recover(w) \/ Crash(w)
      BY <1>3
    <3>2. \A v \in Executors : v # w => exec'[v] = exec[v]
      BY <1>0, <3>1 DEF Dequeue, Recover, Crash
    <3>3. CASE Dequeue(w)
      BY <1>0, <3>2, <3>3 DEF Dequeue, ExecStates
    <3>4. CASE Recover(w)
      <4>1. exec[w].db = "PENDING"
        BY <3>4 DEF Recover
      <4>2. CASE exec[w].attempts < MaxRecovery
        <5>1. PICK n : exec' = [exec EXCEPT ![w].attempts = n, ![w].live = TRUE]
          BY <3>4, <4>2 DEF Recover
        <5>2. exec'[w].db = exec[w].db
          BY <1>0, <5>1 DEF ExecStates
        <5> QED  BY <3>2, <4>1, <5>2
      <4>3. CASE ~(exec[w].attempts < MaxRecovery)
        <5>1. exec' = [exec EXCEPT ![w].db = "MAX_RECOVERY_ATTEMPTS_EXCEEDED"]
          BY <3>4, <4>3 DEF Recover
        <5> QED  BY <1>0, <3>2, <5>1 DEF ExecStates
      <4> QED  BY <4>2, <4>3
    <3>5. CASE Crash(w)
      BY <1>0, <3>2, <3>5 DEF Crash, ExecStates
    <3> QED  BY <3>1, <3>3, <3>4, <3>5
  <2> QED  BY <1>0, <1>1, <2>1, <2>2
<1>4. CASE TaskEnds \/ RegisterTemplate \/ Answer
  <2>1. UNCHANGED <<ops, audit, operator, deaths, exec>>
    BY <1>4 DEF TaskEnds, RegisterTemplate, Answer
  <2> QED  BY <1>0, <1>1, <2>1
<1>5. CASE Retry
  <2>1. UNCHANGED <<ops, audit, operator, deaths>>
    BY <1>5 DEF Retry
  <2>2. \A v \in Executors : exec'[v].db = "CANCELLED" => exec[v].db = "CANCELLED"
    BY <1>0, <1>5 DEF Retry, ExecStates, Executors
  <2> QED  BY <1>0, <1>1, <2>1, <2>2
<1>6. CASE \E o \in Operators : AskOp(o) \/ PersistOpIntent(o) \/ LoseOp(o)
  <2>1. PICK o \in Operators : AskOp(o) \/ PersistOpIntent(o) \/ LoseOp(o)
    BY <1>6
  <2>2. exec' = exec /\ ops' \in {ops, ops + 1} /\ \A v \in Executors : Told(v) => Told(v)'
    BY <1>0, <2>1, ToldStays DEF AskOp, PersistOpIntent, LoseOp, Operate
  <2>3. \A q \in Operators : q # o => operator'[q] = operator[q]
    BY <2>1 DEF AskOp, PersistOpIntent, LoseOp, TypeOK, IInv
  <2>4. operator'[o].at = "idle" \/ ops' = ops + 1
    BY <1>0, <2>1 DEF AskOp, PersistOpIntent, LoseOp, Idle, TypeOK
  <2> QED  BY <1>0, <2>2, <2>3, <2>4
<1>7. CASE \E o \in Operators : DoOp(o)
  <2>1. PICK o \in Operators : DoOp(o)
    BY <1>7
  <2>2. /\ operator[o].op \in Ops /\ operator[o].on \in Executors
        /\ DbosDoes(operator[o].op, operator[o].on)
        /\ operator'[o].at = "audit" /\ operator'[o].op = operator[o].op
        /\ operator'[o].on = operator[o].on
        /\ \A q \in Operators : q # o => operator'[q] = operator[q]
    BY <1>0, <2>1, OperatorIs
  <2>3. ops' = ops /\ ops > 0
    BY <1>0, <2>1 DEF DoOp
  <2>4. \A v \in Executors : Told(v) => Told(v)'
    BY <1>0, <2>1, ToldStays DEF Operate
  <2>5. ASSUME NEW v \in Executors, exec'[v].db = "CANCELLED", exec[v].db # "CANCELLED"
        PROVE  operator[o].op = "cancel" /\ operator[o].on = v
    <3>1. PICK w \in Executors : w = operator[o].on
      BY <2>2
    <3>2. PICK op \in Ops : op = operator[o].op
      BY <2>2
    <3>3. \/ exec' = exec
          \/ op = "cancel" /\ exec' = [exec EXCEPT ![w].db = "CANCELLED"]
          \/ exec' = [exec EXCEPT ![w].db = "ENQUEUED", ![w].attempts = 0]
          \/ Others("fork") /\ exec'["fork"].db = "ENQUEUED"
      BY <1>0, <2>2, <3>1, <3>2, DbosDoesIs
    <3>4. ~Others("fork") \/ exec'["fork"].db # "ENQUEUED"
      BY <2>5 DEF Others
    <3>5. exec' # [exec EXCEPT ![w].db = "ENQUEUED", ![w].attempts = 0]
      BY <1>0, <2>5 DEF ExecStates
    <3>6. op = "cancel" /\ exec' = [exec EXCEPT ![w].db = "CANCELLED"]
      BY <2>5, <3>3, <3>4, <3>5
    <3> QED  BY <1>0, <2>5, <3>1, <3>2, <3>6 DEF ExecStates
  <2>6. \A v \in Executors : exec'[v].db = "CANCELLED" => Told(v)'
    BY <1>0, <2>1, <2>2, <2>4, <2>5 DEF Told
  <2> QED  BY <1>0, <2>2, <2>3, <2>6
<1>8. CASE UNCHANGED vars
  <2>1. UNCHANGED <<ops, audit, operator, deaths, exec>>
    BY <1>8 DEF vars
  <2> QED  BY <1>0, <1>1, <2>1
<1> QED  BY <1>2, <1>3, <1>4, <1>5, <1>6, <1>7, <1>8 DEF Next, Scheduler, Operate

\* Whoever reopened the run has still to end it.
LEMMA NextOpen ==
  IInv /\ [Next]_vars => OpenInv'
<1> SUFFICES ASSUME IInv, [Next]_vars PROVE OpenInv'
  OBVIOUS
<1> DEFINE Out == {"succeedEvt", "failEvt", "end"}
           Owes(w) == exec[w].db \notin Ended \cup {"absent"} /\ exec[w].pc \notin Out
<1>0. /\ TypeOK /\ Placed /\ ApprovalInv /\ row \in RunRows /\ steps \in StepRows
      /\ exec \in [Executors -> ExecStates] /\ \A v \in Executors : PlaceInv(v)
      /\ row.status \notin TerminalStatus => \E v \in Executors : Owes(v)
  BY DEF IInv, TypeOK, OpenInv, Placed
<1>1. SUFFICES ASSUME row'.status \notin TerminalStatus
               PROVE  \E v \in Executors : Owes(v)'
  BY NextTold DEF OpenInv
<1>2. CASE \E w \in Executors : Step(w)
  <2>1. PICK w \in Executors : Step(w)
    BY <1>2
  <2>2. /\ Others(w) /\ exec[w].db \notin Ended \cup {"absent"}
        /\ exec'[w].db \in {exec[w].db} \cup Ended
    BY <1>0, <2>1, StepDb DEF Open, Ended
  <2>3. CASE exec'[w].db = exec[w].db /\ exec'[w].pc \notin Out
    BY <2>2, <2>3
  <2>4. ASSUME row.status \notin TerminalStatus, exec[w].pc \in Out
        PROVE  \E v \in Executors : Owes(v)'
    <3>1. PICK v \in Executors : Owes(v)
      BY <1>0, <2>4
    <3> QED  BY <2>2, <2>4, <3>1 DEF Others
  <2>5. CASE Stays(w) /\ Inner(w)
    BY <1>0, <2>3, <2>5, InnerStatus DEF Stays, SameRun
  <2>6. CASE Throws(w)
    BY <2>3, <2>6 DEF Throws, SameRun
  <2>7. ASSUME NEW p \in Positions, NEW q \in Positions, CalmMove(w, p, q)
        PROVE  \E v \in Executors : Owes(v)'
    <3>1. /\ exec[w].pc = p /\ exec'[w].pc = q /\ exec'[w].db = exec[w].db
          /\ row' = row /\ <<p, q>> \in CalmEdges
      BY <2>7 DEF CalmMove, Moves, SameRun, Calm
    <3>2. q \in Out => p \in Out
      BY <3>1 DEF CalmEdges
    <3> QED  BY <1>1, <2>3, <2>4, <3>1, <3>2
  <2>8. ASSUME NEW p \in Positions, NEW q \in Positions, RowMove(w, p, q)
        PROVE  \E v \in Executors : Owes(v)'
    <3>1. /\ exec'[w].pc = q /\ exec'[w].db = exec[w].db
          /\ row' = RowAfter(w, p) /\ <<p, q>> \in RowEdges
      BY <2>8 DEF RowMove, Moves, SameRun
    <3>2. q \in Out => p \in {"succeed", "fail"}
      BY <3>1 DEF RowEdges
    <3>3. p \in {"succeed", "fail"} => row'.status \in TerminalStatus
      BY <1>0, <3>1, RowAfterStatus DEF TerminalStatus
    <3> QED  BY <1>1, <2>3, <3>1, <3>2, <3>3
  <2>9. CASE ReadCheckpoints(w)
    <3>1. /\ exec'[w].pc = FromCompile(steps) /\ exec'[w].db = exec[w].db
      BY <1>0, <2>9 DEF ReadCheckpoints, ExecStates
    <3>2. PICK q : q = FromCompile(steps)
      OBVIOUS
    <3>3. q \in {"compile", "apply", "planWait", "build", "succeed", "sbx"}
      BY <3>2, Branches DEF IInv, TypeOK
    <3> QED  BY <2>3, <3>1, <3>2, <3>3
  <2>10. CASE exec' = [exec EXCEPT ![w].pc = "start", ![w].tmpl = IF hot THEN "hot" ELSE "cold"]
    <3>1. exec'[w].pc = "start" /\ exec'[w].db = exec[w].db
      BY <1>0, <2>10 DEF ExecStates
    <3> QED  BY <2>3, <3>1
  <2>11. CASE exec[w].pc = "start" /\ StartTask(w) /\ exec' = exec
    BY <2>3, <2>11
  <2>12. CASE Finish(w)
    <3>1. exec[w].pc = "end" /\ row' = row
      BY <2>12 DEF Finish, runVars
    <3> QED  BY <1>1, <2>4, <3>1
  <2>13. CASE StopCancelled(w)
    <3>1. /\ exec'[w].pc = exec[w].pc /\ exec'[w].db = exec[w].db
          /\ row' = row \/ row'.status \in TerminalStatus
      BY <1>0, <2>13 DEF StopCancelled, ExecStates, SetFailure, Settle, RunRows, TerminalStatus
    <3> QED  BY <1>1, <2>3, <2>4, <3>1
  <2> QED  BY <1>0, <2>1, <2>5, <2>6, <2>7, <2>8, <2>9, <2>10, <2>11, <2>12, <2>13, StepIs
<1>3. CASE ~\E w \in Executors : Step(w)
  <2>1. /\ row' = row
        /\ exec' = exec \/ \E w \in Executors : Handled(w) \/ ForkOf(w)
    BY <1>0, <1>3, OthersIs
  <2>2. PICK v \in Executors : Owes(v)
    BY <1>0, <1>1, <2>1
  <2>3. CASE exec' = exec
    BY <2>2, <2>3
  <2>4. ASSUME NEW w \in Executors, Handled(w) PROVE Owes(v)'
    BY <2>2, <2>4 DEF Handled, Others, Ended
  <2>5. ASSUME NEW w \in Executors, ForkOf(w) PROVE Owes(v)'
    BY <2>2, <2>5 DEF ForkOf, Others
  <2> QED  BY <2>1, <2>3, <2>4, <2>5
<1> QED  BY <1>2, <1>3

LEMMA NextInv == IInv /\ [Next]_vars => IInv'
<1> SUFFICES ASSUME IInv, [Next]_vars PROVE IInv'
  OBVIOUS
<1>1. TypeOK /\ Placed /\ ApprovalInv /\ RepairKeepsApproval /\ ResultInv
  BY DEF IInv
<1>2. TypeOK'
  BY <1>1, StepTyped, OthersTyped
<1> QED  BY <1>1, <1>2, NextPlaced, NextApproval, NextResult, NextOutcome, NextOpen DEF IInv

\* The inductive invariant holds in every state.
THEOREM Invariance == Spec => []IInv
<1> QED  BY InitInv, NextInv, PTL DEF Spec

\* A repair and its forks execute only what the run was given a yes for, with
\* any tasks, operators and failures to repair.
THEOREM Approved == Spec => []RepairKeepsApproval
<1>1. IInv => RepairKeepsApproval
  BY DEF IInv
<1> QED  BY <1>1, Invariance, PTL

\* What DBOS recorded of a repair that nobody forked is what the row says.
THEOREM Outcome == Spec => []RepairOutcome
<1>1. IInv => RepairOutcome
  <2> SUFFICES ASSUME IInv PROVE RepairOutcome
    OBVIOUS
  <2>1. TypeOK /\ (\A w \in Executors : PlaceInv(w)) /\ ResultInv /\ OutcomeInv
    BY DEF IInv, Placed
  <2>2. PlaceInv("repair")
    BY <2>1 DEF Executors
  <2>3. Unforked =>
          /\ exec["repair"].db = "ERROR" => row.status = "retries_exceeded"
          /\ exec["repair"].db = "SUCCESS" =>
               \/ row.status = "succeeded"
               \/ row.status = "canceled" /\ ops > 0
    BY <2>1, <2>2 DEF OutcomeInv, PlaceInv, Ended
  <2>4. Unforked /\ row.status = "succeeded" => steps["ExecuteST"] = "ok" /\ AllGood
    BY <2>1 DEF OutcomeInv, ResultInv
  <2> QED  BY <2>1, <2>3, <2>4 DEF RepairOutcome
<1> QED  BY <1>1, Invariance, PTL

\* A run is open only while a repair or its fork has still to end it, or was
\* given up, or was cancelled by an operator the audit names.
THEOREM Explained == Spec => []OpenIsExplained
<1>1. IInv => OpenIsExplained
  BY DEF IInv, OpenInv, OpenIsExplained, TypeOK, ExecStates, DbosStatus, Open, Ended
<1> QED  BY <1>1, Invariance, PTL
=============================================================================
