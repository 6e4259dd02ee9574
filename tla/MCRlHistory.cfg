SPECIFICATION RlSpec
CONSTANTS
  Char = {"a", "b", "#"}
  Lines <- MCLines
  MaxText = 2
  MaxSize = 2
  MaxId = 3
  IntMax = 9
  MaxPlace = 3
  MaxFile = 3
PROPERTIES LengthExact NumbersStay LooksLeaveCursor
