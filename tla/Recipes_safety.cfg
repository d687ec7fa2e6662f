SPECIFICATION MCSpec
CONSTANTS
  Importers = {"i1", "i2"}
  Bundles <- MCBundles
  Legacy <- MCLegacy
  Checks <- MCChecks
  Needs <- MCNeeds
  Evaluators = {"e1", "e2"}
  MaxImports = 1
  MaxEvaluations = 2
CHECK_DEADLOCK FALSE
INVARIANTS RegistryCoherent ResultsCohere
PROPERTIES StableKept ImportsEnd
