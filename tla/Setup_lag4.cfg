SPECIFICATION Spec
CONSTANTS
  N = 4
  AckMayLag = TRUE
  NoOne = NoOne
INVARIANTS
  ReadyMeansLabelled
CHECK_DEADLOCK FALSE
