CONSTANTS
  EL_BUFSIZ = 14
  NEAR = 4
  TabStop = 8
  MIN_END_KEEP = 4
  Settings <- MCOneRow
SPECIFICATION Spec
INVARIANT LineCleared
CHECK_DEADLOCK FALSE
