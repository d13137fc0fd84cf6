SPECIFICATION FairSpec
CONSTANTS
  N = 2
  NumWire = 8
  NumGate = 5
  NumInput = 3
  OutputLength = 2
  Gates <- AdderGates
  Owner <- AdderOwner
  Value <- EvalValue
  NoOutput = NoOutput
INVARIANTS
  LockStep
PROPERTY
  ImplementsMPC
