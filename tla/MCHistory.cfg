SPECIFICATION Spec
CONSTANTS
  Char = {"a"}
  Lines <- MCLines
  MaxText = 2
  MaxSize = 3
  MaxId = 4
INVARIANTS TypeOK CursorLive NumbersDescend LoadedSoFar
PROPERTIES OneEventEdited ImplementsLog
