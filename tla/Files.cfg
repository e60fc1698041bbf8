CONSTANTS
  Servers = {"s1", "s2"}
  Names <- MCNames
  Trees <- MCTrees
  ScpLines <- MCScpLines
  SftpLines <- MCSftpLines
  Hidden = {".h"}
  MaxLines = 3
  MaxLosses = 1
SPECIFICATION Spec
INVARIANTS DoneIsWhole Together InStep
PROPERTY CommandEnds
CHECK_DEADLOCK FALSE
