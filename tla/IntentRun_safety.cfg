SPECIFICATION Spec
CONSTANTS
  t1 = t1
  t2 = t2
  c1 = c1
  c2 = c2
  Tasks = {t1, t2}
  Patches = 2
  Clients = {c1, c2}
  AskGate = FALSE
  Budgeted = TRUE
  MaxRecovery = 1
  MaxCancels = 2
SYMMETRY Symmetry
INVARIANTS
  IInv
  ApprovalGuardsExecution
  EndsHonestly
  TimeoutEscalates
  ApprovalReachesGate
PROPERTIES
  KeepsContract
CHECK_DEADLOCK FALSE
