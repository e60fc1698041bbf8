CONSTANTS
  ServerLists <- MCServerLists
  ID <- MCID
  Chunks = 2
  Window = 1
SPECIFICATION Spec
INVARIANTS InputInOrder RunOnce
PROPERTY Ends
CHECK_DEADLOCK FALSE
