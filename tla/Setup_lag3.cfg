SPECIFICATION Spec
CONSTANTS
  N = 3
  AckMayLag = TRUE
  NoOne = NoOne
INVARIANTS
  SocketsLabelled
