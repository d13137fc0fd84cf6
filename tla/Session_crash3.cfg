SPECIFICATION SFairSpec
CONSTANTS
  N = 3
  NumWire = 2
  NumGate = 1
  NumInput = 1
  OutputLength = 1
  Gates <- SquareGates
  Owner <- SquareOwner
  Value <- EvalValue
  NoOutput = NoOutput
  Mortal = {0, 1, 2}
INVARIANTS
  STypeOK
  FailureHasCause
  ResultNeedsAll
PROPERTIES
  ResultsRight
  EveryoneStops
