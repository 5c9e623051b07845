SPECIFICATION FairSolverSpec
CONSTANTS
  Goals = {"a", "b", "c"}
  Coinductive = {}
  OverflowDepth = 3
  MAX = 9
  CachingEnabled = TRUE
  SharedCache = FALSE
  FreshMinimums = TRUE
  Programs <- InductivePrograms
INVARIANTS
  SolverTypeOK
  RepliesAreRight
  CachedAreRight
  AnswersAreCombined
  NoPanic
PROPERTIES
  AnswersNeverDecrease
  EveryQuestionIsAnswered
