SPECIFICATION SearchSpec
CONSTANTS
  UndoMax = 1
  Utf16 = FALSE
  Keys = {"x", " "}
  MaxLen = 2
  BufSize = 1
  Windows = FALSE
  EmacsBound <- Emacs
  ViBound <- Vi
  OldEvents <- OneEvent
  Dropped = 0
  Kept <- OneLine
  MaxEvents = 2
  MaxLines = 2
  PatternKeys = {"x"}
  MaxPattern = 1
  MaxDepth = 3
INVARIANTS EventnoInRange DraftFound
PROPERTIES AbortReturns
VIEW View
