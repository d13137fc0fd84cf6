SPECIFICATION WireSpec
CONSTANTS
  FrameBase = 2
  IntSize = 3
  Capacity = 2
  Streams <- FrameRuns
  N = 4
  Owner <- FiveLines
  NumAnd = 2
  BufferSize = 2
  ShareSize = 3
  PublicSize = 3
  ValuesSize = 4
  MaxGossip = 4
  Base = 12
  SizeT = 2
  BlockSize = 2
  Texts <- ThreeTexts
  MaxOptions = 2
  Keys = {5}
  P = 23
  Q = 11
  G = 2
  Radix = 3
  Length = 3
  NumOptions = 4
INVARIANTS
  ThrowsForCause
  SticksOnlyInGossip
  RoundTrip
  ReadsInside
  ChosenKeyOnly
  OnlyIdentityRefused
PROPERTIES
  Channel
  AllArrive
  ShortOutputEnds
\* With a long output the parties of Blocking do stop.
CHECK_DEADLOCK FALSE
