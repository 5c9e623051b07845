SPECIFICATION SolverSpec
CONSTANTS
  Goals = {"a", "b", "c", "d"}
  Coinductive = {"a", "b"}
  OverflowDepth = 4
  MAX = 9
  CachingEnabled = FALSE
  SharedCache = FALSE
  FreshMinimums = FALSE
  Programs <- Conjunctions
INVARIANTS
  RepliesAreRight
