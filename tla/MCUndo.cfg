SPECIFICATION Spec
CONSTANTS
  UndoMax = 2
  Utf16 = TRUE
  Keys = {"x", "lead"}
  MaxLen = 2
INVARIANTS StacksBounded CurIsLine
PROPERTY ImplementsTimeline
