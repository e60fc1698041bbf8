SPECIFICATION Spec
CONSTANTS
  N = 4
  Letters = {"a", "b"}
  Text <- MCText
  Height = 2
  Clicks = {}
  MaxKeyword = 3
INVARIANT ChosenAreRows
CHECK_DEADLOCK FALSE
