SPECIFICATION Spec
CONSTANTS
  q1 = q1
  q2 = q2
  q3 = q3
  Intents = {"ih", "it"}
  Recipes = {"r1", "r2"}
  Idents = {"a", "b", "keyless"}
  Keyed = {"a", "b"}
  Dedups = {"ih", "k"}
  Offers <- MixedOffers
  Requests = {q1, q2, q3}
SYMMETRY RequestSymmetry
CHECK_DEADLOCK FALSE
INVARIANTS IInv IdentityAgreed CreatedIsStarted RowShown
