SPECIFICATION Spec
CONSTANTS
  Goals = {a, b, c}
  Coinductive = {b}
  OverflowDepth = 3
  MAX = 3
  CachingEnabled = TRUE
  SharedCache = TRUE
  FreshMinimums = FALSE
INVARIANTS
  TypeOK
  IndicesMatchNodes
  StackMirrorsCalls
  LinksTracked
  RetainedAreCyclic
  NoAssertionFails
  IdleIsClean
