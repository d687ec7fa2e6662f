----------------------------- MODULE MCRepairRun -----------------------------
EXTENDS RepairRun

Rows(done, execute) ==
  [s \in StepIds |-> IF s = "ExecuteST" THEN execute
                     ELSE IF s \in done THEN "ok" ELSE "none"]
Failure(status, last, e, rows, seen, left, yes, asked, tasks) ==
  [status |-> status, lastStep |-> last, error |-> e, steps |-> rows,
   receipts |-> seen, patched |-> left, approved |-> yes, gate |-> asked,
   child |-> tasks]

\* The trigger failed; the budget ran out after apply; the plan was rejected;
\* decide failed; the budget ran out after it; a task threw; the receipt was
\* counted twice; the sandbox reported an error.
AllFailures ==
  LET C == {"CompileST"}  CA == C \cup {"ApplyPatchST"}  CAD == CA \cup {"DecideST"} IN
  {Failure("failed", "null", "step", Rows({}, "none"), 0, FALSE, FALSE, FALSE, "none"),
   Failure("retries_exceeded", "CompileST", "budget", Rows(CA, "none"), 0, TRUE, FALSE, FALSE, "none"),
   Failure("retries_exceeded", "ApplyPatchST", "rejected", Rows(CA, "none"), 0, FALSE, FALSE, TRUE, "none"),
   Failure("retries_exceeded", "ApplyPatchST", "step", Rows(CA, "none"), 0, FALSE, TRUE, TRUE, "none"),
   Failure("retries_exceeded", "DecideST", "budget", Rows(CAD, "none"), 0, FALSE, TRUE, TRUE, "none"),
   Failure("retries_exceeded", "DecideST", "step", Rows(CAD, "none"), 0, FALSE, TRUE, TRUE, "threw"),
   Failure("retries_exceeded", "DecideST", "step", Rows(CAD, "none"), 1, FALSE, TRUE, TRUE, "ok"),
   Failure("retries_exceeded", "ExecuteST", "sbx", Rows(CAD, "bad"), 1, FALSE, TRUE, TRUE, "failed")}
=============================================================================
