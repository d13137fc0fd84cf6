SPECIFICATION FairSpec
CONSTANTS
  N = 3
  NumWire = 5
  NumGate = 3
  NumInput = 2
  OutputLength = 2
  Gates <- SmallGates
  Owner <- SmallOwner
  Value <- EvalValue
  NoOutput = NoOutput
INVARIANTS
  TypeOK
  ShareCorrect
  CleanExit
  Backlog
PROPERTY
  ImplementsMPC
