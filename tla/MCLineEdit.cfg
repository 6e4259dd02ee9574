SPECIFICATION Spec
CONSTANTS
  Lower = {"a"}
  Upper = {"A"}
  Up <- MCUp
  Down <- MCDown
  Typed <- MCTyped
  Strings <- MCStrings
  Args = {0, 1, 2}
  BufSize = 5
  MaxLine = 3
  MaxKept = 2
  MaxTyped = 2
INVARIANT BuffersHold
PROPERTIES CursorStays CutIsKept CodePointsKept LettersKept
