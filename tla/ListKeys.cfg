SPECIFICATION Spec
CONSTANTS
  N = 4
  Letters = {"a", "b"}
  Text <- MCText
  Height = 2
  Clicks = {0, 1, 2, 4}
  MaxKeyword = 3
INVARIANTS TypeOK ViewIsFiltered CursorOnRow CrashNeedsCause SelectedOnce
PROPERTY HiddenRowsKept
CHECK_DEADLOCK FALSE
