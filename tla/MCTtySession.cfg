SPECIFICATION Spec
CONSTANTS
  Apis = {"el_gets", "readline", "callback"}
  Flags = {"HANDLE_SIGNALS", "EDIT_DISABLED", "FIXIO"}
  Signals = {"INT", "TSTP", "CONT"}
  UserChars = {"user"}
  MaxChanges = 1
INVARIANTS CookedBetween UserSettingsKept HandlersBack
