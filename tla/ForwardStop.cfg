SPECIFICATION FairSpec
CONSTANTS
  Modes = {"local"}
  MaxConn = 2
  MaxData = 1
PROPERTY CallersAccepted
CHECK_DEADLOCK FALSE
