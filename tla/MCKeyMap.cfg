SPECIFICATION MapSpec
CONSTANTS
  NKeys = 8
  Escape = 1
  Emacs <- EmacsTable
  ViInsert <- ViInsertTable
  ViCommand <- ViCommandTable
  CtrlX <- CtrlXCtrlX
  Printable = {4}
  Ansi <- AnsiUp
  Termcap <- TermUp
  ArrowName = 2
  Specials = {0, 2}
  Erase = 2
  Words <- Typed
  Commands = {"other"}
INVARIANTS LeavesBound KeysReachable
PROPERTIES BindTakesEffect ImplementsTable
CHECK_DEADLOCK FALSE
