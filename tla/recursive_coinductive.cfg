SPECIFICATION FairSolverSpec
CONSTANTS
  Goals = {"a", "b", "c", "d"}
  Coinductive = {"a", "b", "c", "d"}
  OverflowDepth = 4
  MAX = 9
  CachingEnabled = TRUE
  SharedCache = FALSE
  FreshMinimums = FALSE
  Programs <- Conjunctions
INVARIANTS
  RepliesAreRight
  CachedAreRight
PROPERTIES
  EveryQuestionIsAnswered
