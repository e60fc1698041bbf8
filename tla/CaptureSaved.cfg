SPECIFICATION Spec
CONSTANTS
  Commands = {"dl"}
  Window = 2
  ShortTimeout = 1
  LongTimeout = 2
  PromptTimeout = 1
  MaxReq = 2
  MaxNoise = 0
INVARIANT HostInfoIsHostInfo
CHECK_DEADLOCK FALSE
