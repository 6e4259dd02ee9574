SPECIFICATION Spec
CONSTANTS
  Lower = {"a", "w"}
  Upper = {"A", "W"}
  Up <- MCUp
  Down <- MCDown
  Letters = {"a"}
  Sought <- MCSought
  Events <- MCEvents
  Alias <- MCAlias
  Limit = 4
  RedoCap = 3
  MaxLine = 5
  MaxArg = 2
  MaxKeys = 6
CHECK_DEADLOCK FALSE
INVARIANTS ModesAgree RedoKeepsRecord
PROPERTIES CutIsKept CursorStays
