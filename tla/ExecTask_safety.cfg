SPECIFICATION Spec
CONSTANTS
  Plans <- FewPlans
  Commands = {"tests", "INFRA_FAIL", "FAIL_ME", "FLAKY_INFRA_FAIL", "TIMEOUT_ME"}
  Providers = {"mock", "e2b", "microsandbox"}
  Words = {}
  MaxFanout = 2
  MaxRetries = 1
  SbxConcurrency = 1
  MaxCrashes <- Deaths
  MaxLost <- Losses
CHECK_DEADLOCK FALSE
INVARIANTS EvidenceInv EvidenceDecides SandboxesReleased
PROPERTY TasksSettle
