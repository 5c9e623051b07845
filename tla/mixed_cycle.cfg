SPECIFICATION SolverSpec
CONSTANTS
  Goals = {"a", "b"}
  Coinductive = {"b"}
  OverflowDepth = 2
  MAX = 9
  CachingEnabled = TRUE
  SharedCache = FALSE
  FreshMinimums = FALSE
  Programs <- OneCondition
INVARIANTS
  CachedAreRight
