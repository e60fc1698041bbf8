CONSTANTS
  Servers = {"a", "b"}
  Inputs <- MCInputs
  Outputs = {1, 2}
  Window = 1
  MaxLines = 1
  MaxSignals = 2
SPECIFICATION Spec
INVARIANT PipeWhole
PROPERTIES StatementsInOrder LineEnds InterruptWorks
CHECK_DEADLOCK FALSE
