SPECIFICATION FairSpec
CONSTANTS
  Modes = {"local", "remote"}
  MaxConn = 2
  MaxData = 1
PROPERTY EndPassedOn
CHECK_DEADLOCK FALSE
