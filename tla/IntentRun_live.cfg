SPECIFICATION FairSpec
CONSTANTS
  t1 = t1
  c1 = c1
  Tasks = {t1}
  Patches = 1
  Clients = {c1}
  AskGate = TRUE
  Budgeted = TRUE
  MaxRecovery = 1
  MaxCancels = 1
INVARIANTS
  AnswerPrecedesPatches
PROPERTIES
  RunSettles
CHECK_DEADLOCK FALSE
