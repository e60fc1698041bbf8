CONSTANTS
  Servers = {"s1", "s2", "s3"}
  Names <- MCNames
  Trees <- MCThree
  ScpLines <- MCVia
  SftpLines = {}
  Hidden = {".h"}
  MaxLines = 1
  MaxLosses = 0
SPECIFICATION Spec
INVARIANT ViaIsWhole
CHECK_DEADLOCK FALSE
