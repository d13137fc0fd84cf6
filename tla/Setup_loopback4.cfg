SPECIFICATION FSpec
CONSTANTS
  N = 4
  AckMayLag = FALSE
  NoOne = NoOne
INVARIANTS
  TypeOK
  SocketsLabelled
  KeysAgree
  NothingLeftOver
PROPERTIES
  OnlyCrashesHurt
  LinkedEnds
\* A party may wait in accept for one that died: nothing can happen any more.
CHECK_DEADLOCK FALSE
