SPECIFICATION OcSpec
CONSTANTS
  Modes = {"replay", "live", "strict"}
  Texts = {"a", "b"}
  MessageBudget = 1
  MaxCrashes = 1
  MaxRepairs = 1
CHECK_DEADLOCK FALSE
INVARIANTS LedgerDecides
PROPERTY CallEnds
