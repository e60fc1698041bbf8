SPECIFICATION Spec
CONSTANTS
  Commands = {"up"}
  Window = 1
  ShortTimeout = 0
  LongTimeout = 1
  PromptTimeout = 1
  MaxReq = 2
  MaxNoise = 2
INVARIANTS TypeOK AnswerIsWhole AnswerIsHidden
CHECK_DEADLOCK FALSE
