SPECIFICATION Spec
CONSTANTS
  N = 3
  Types = {s, t, u}
  Polarities = {TRUE, FALSE}
  MayBeAmbiguous = TRUE
  OrphanAnswers = {"Unique", "Ambig", "None"}
SYMMETRY Symmetry
CHECK_DEADLOCK FALSE
INVARIANTS
  TypeOK
  PrioritiesDecideOverlap
  OverlapIsReal
