CONSTANTS
  Servers = {"a", "b"}
  Inputs <- MCInputs
  Outputs = {1}
  Window = 1
  MaxLines = 1
  MaxSignals = 0
SPECIFICATION Spec
INVARIANT OutputShown
CHECK_DEADLOCK FALSE
