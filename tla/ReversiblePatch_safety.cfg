SPECIFICATION Spec
CONSTANTS
  Runs <- TwoRuns
  Paths = {"a", "b"}
  Texts <- AllTexts
  Plans <- TwoRunPlans
  MaxPatches = 2
  EditTexts = {"edit"}
  MaxCrashes = 1
  MaxEdits = 1
  MaxForks = 1
CHECK_DEADLOCK FALSE
INVARIANTS IInv FilesFit ReplayConverges
PROPERTY NothingLost
