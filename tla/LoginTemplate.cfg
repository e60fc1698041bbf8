CONSTANTS
  Parts <- MCParts
  Procs = {p}
  Files <- MCFiles
  FirstConf <- MCFirstConf
  HostsFiles <- MCHostsFiles
  ArgLists <- MCArgLists
  HostArg <- MCHostArg
  Answers = {"x"}
  MaxLaunches = 1
SPECIFICATION Spec
INVARIANT TemplatePasswordUsed
CHECK_DEADLOCK FALSE
