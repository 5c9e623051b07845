SPECIFICATION SolverSpec
CONSTANTS
  Goals = {"a", "b", "c"}
  Coinductive = {}
  OverflowDepth = 3
  MAX = 9
  CachingEnabled = FALSE
  SharedCache = FALSE
  FreshMinimums = FALSE
  Programs <- AmbiguousConjunctions
INVARIANTS
  UnwrapIsSafe
