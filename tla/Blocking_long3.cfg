SPECIFICATION BlockingSpec
CONSTANTS
  N = 3
  Owner <- LinePerParty
  NumAnd = 1
  BufferSize = 2
  ShareSize = 2
  PublicSize = 2
  ValuesSize = 2
  MaxGossip = 3
PROPERTY
  EveryRunEnds
\* What is looked for is a run that stops before it is done.
CHECK_DEADLOCK FALSE
