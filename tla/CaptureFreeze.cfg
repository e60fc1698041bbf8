SPECIFICATION FairSpec
CONSTANTS
  Commands = {"dl"}
  Window = 2
  ShortTimeout = 1
  LongTimeout = 2
  PromptTimeout = 1
  MaxReq = 1
  MaxNoise = 0
PROPERTY TerminalKeepsFlowing
CHECK_DEADLOCK FALSE
