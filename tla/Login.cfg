CONSTANTS
  Parts <- MCParts
  Procs = {p, q}
  Files <- MCFiles
  FirstConf <- MCFirstConf
  HostsFiles <- MCHostsFiles
  ArgLists <- MCArgLists
  HostArg <- MCHostArg
  Answers = {"x", "y"}
  MaxLaunches = 2
SPECIFICATION Spec
INVARIANTS ConfigSurvives PasswordUsed CommandKept
PROPERTY NotSavedAgain
CHECK_DEADLOCK FALSE
SYMMETRY Terminals
