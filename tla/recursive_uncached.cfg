SPECIFICATION FairSolverSpec
CONSTANTS
  Goals = {"a", "b", "c"}
  Coinductive = {"b"}
  OverflowDepth = 3
  MAX = 9
  CachingEnabled = FALSE
  SharedCache = FALSE
  FreshMinimums = FALSE
  Programs <- CyclicPrograms
INVARIANTS
  RepliesAreRight
PROPERTIES
  EveryQuestionIsAnswered
