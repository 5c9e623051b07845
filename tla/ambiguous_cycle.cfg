SPECIFICATION SolverSpec
CONSTANTS
  Goals = {"a", "b"}
  Coinductive = {}
  OverflowDepth = 2
  MAX = 9
  CachingEnabled = TRUE
  SharedCache = FALSE
  FreshMinimums = FALSE
  Programs <- AmbiguousCycles
INVARIANTS
  CachedAreRight
