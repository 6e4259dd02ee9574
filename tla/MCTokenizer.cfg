SPECIFICATION Spec
CONSTANTS
  Plain = {"a"}
  WIncr = 5
  AIncr = 5
  Margin = 4
  MaxInput = 5
INVARIANTS TypeOK BuffersHold WordsSpelt CursorInWord
