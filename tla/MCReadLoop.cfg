SPECIFICATION Spec
CONSTANTS
  NKeys = 16
  Current <- KeyTable
  Keys <- Chained
  Digit <- Digits
  MaxMacro = 3
  ArgLimit = 4
  Strings <- PushedStrings
  Typed = {0, 1, 2, 3, 4, 5, 6, 7}
  MaxPushes = 2
  MaxArgument = 4
INVARIANTS ArgumentAsTyped MetaForNextKey
PROPERTIES ImplementsQueue QueueDrains
