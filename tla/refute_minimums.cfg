SPECIFICATION SolverSpec
CONSTANTS
  Goals = {"a", "b", "c"}
  Coinductive = {}
  OverflowDepth = 3
  MAX = 9
  CachingEnabled = TRUE
  SharedCache = FALSE
  FreshMinimums = TRUE
  Programs <- NegativeCycles
INVARIANTS
  NoAssertionFails
