SPECIFICATION Spec
CONSTANTS
  Tasks = {"t1"}
  Operators = {"o1"}
  Failures <- AllFailures
  Budgeted = TRUE
  MaxRecovery = 1
  MaxTroubles = 2
  ForkFrom = {"ERROR", "CANCELLED", "MAX_RECOVERY_ATTEMPTS_EXCEEDED"}
CHECK_DEADLOCK FALSE
INVARIANTS RepairKeepsApproval RepairOutcome OpenIsExplained
PROPERTY RepairSettles
