SPECIFICATION Spec
CONSTANTS
  N = 2
  NumWire = 3
  NumGate = 1
  NumInput = 2
  OutputLength = 1
  Gates <- AndGates
  Owner <- AndOwner
  Value <- EvalValue
  NoOutput = NoOutput
INVARIANT
  ExpectedAndOutput
