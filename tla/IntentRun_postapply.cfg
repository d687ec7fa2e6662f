SPECIFICATION Spec
CONSTANTS
  t1 = t1
  c1 = c1
  Tasks = {t1}
  Patches = 1
  Clients = {c1}
  AskGate = FALSE
  Budgeted = TRUE
  MaxRecovery = 1
  MaxCancels = 0
SYMMETRY Symmetry
INVARIANTS
  PostApplyFailureRollsBack
CHECK_DEADLOCK FALSE
