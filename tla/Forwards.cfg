SPECIFICATION FairSpec
CONSTANTS
  Modes = {"local", "x11"}
  MaxConn = 2
  MaxData = 1
INVARIANTS TypeOK NothingLost
PROPERTIES EndedIsClosed X11EndPassedOn X11CallersAccepted
CHECK_DEADLOCK FALSE
