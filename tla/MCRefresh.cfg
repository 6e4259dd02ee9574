CONSTANTS
  EL_BUFSIZ = 14
  NEAR = 1
  TabStop = 2
  MIN_END_KEEP = 2
  Settings <- MCSettings
SPECIFICATION Spec
INVARIANT ScreenShows
CHECK_DEADLOCK FALSE
