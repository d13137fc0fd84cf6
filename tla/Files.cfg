SPECIFICATION FilesSpec
CONSTANTS
  NumWire = 4
  GateLines <- SomeGates
  MaxGate = 3
  Junk = {2, 9}
  N = 2
  NumShares = 2
  InputLines <- SomeInputs
  MaxLines = 3
  NaN = NaN
INVARIANTS
  WholeLinesRight
  StaysInRange
  MissingBecomeNot
  OwnersDecide
  ThrowTogether
PROPERTY NobodyWaits
\* Input files that cannot be parsed, or that disagree, leave parties waiting.
CHECK_DEADLOCK FALSE
