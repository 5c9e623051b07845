SPECIFICATION Spec
CONSTANTS
  N = 3
  Types = {s, t, u}
  Polarities = {TRUE}
  MayBeAmbiguous = FALSE
  OrphanAnswers = {"Unique"}
CHECK_DEADLOCK FALSE
INVARIANTS
  EachImplOnce
