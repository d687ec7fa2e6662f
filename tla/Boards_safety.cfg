SPECIFICATION Spec
CONSTANTS
  Windows = {"a"}
  Elsewhere = {"b"}
  Wids = {"w1", "w2"}
  Fresh = "w1"
  Recipes = {"compile", "other"}
  VersionsOf <- TwoRecipes
  MaxActs = 2
  MaxInFlight = 1
  MaxErrors = 1
CHECK_DEADLOCK FALSE
INVARIANTS OneAnswerPerGate StartsWhatIsThere
PROPERTY EndIsShown
