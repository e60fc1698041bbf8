SPECIFICATION FairSpec
CONSTANTS
  Commands = {"dl"}
  Window = 2
  ShortTimeout = 1
  LongTimeout = 2
  PromptTimeout = 1
  MaxReq = 2
  MaxNoise = 0
INVARIANTS ResponseIsOwn FreezeNeedsTimeout
PROPERTIES ImplementsRequest PromptNotMissed FlowsUntilTimeout
CHECK_DEADLOCK FALSE
