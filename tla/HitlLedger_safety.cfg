SPECIFICATION Spec
CONSTANTS
  q1 = q1
  q2 = q2
  q3 = q3
  Gates = {"g1", "g2"}
  Keys = {"k1", "k2", "k3", "legacy1", "legacy2"}
  Payloads = {"yes", "no"}
  Offers <- OwnKeys
  LegacyKey <- Legacy
  Approval = "yes"
  PlanGate = "g2"
  Requests = {q1, q2, q3}
SYMMETRY RequestSymmetry
CHECK_DEADLOCK FALSE
INVARIANTS IInv TakenIsRecorded AnswersHonest ConflictRefused
PROPERTIES KeepsAnswers
