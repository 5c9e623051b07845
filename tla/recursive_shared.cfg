SPECIFICATION SolverSpec
CONSTANTS
  Goals = {"a", "b"}
  Coinductive = {}
  OverflowDepth = 2
  MAX = 9
  CachingEnabled = TRUE
  SharedCache = TRUE
  FreshMinimums = FALSE
  Programs <- TwoConditions
INVARIANTS
  RepliesAreRight
PROPERTIES
  CacheIsFinal
