\* A letter, and a digit whose key has nothing in the shifted table.
CONSTANTS
  MaxPid = 4
  MAX_PRIORITY = 2
  CHAR_MAX = 2
  MaxSecs = 0
  MaxSleeps = 0
  Overkill = 0
  Calls = {"loadProcess", "read"}
  ReaderCalls = {"loadProcess", "exit", "block", "unblock", "read"}
  Keys = {"a", "4"}
  Unshifted = {"4"}
  Modifiers = {"lshift", "rshift", "caps", "alt", "f1"}
  Other = "home"
  EOF = EOF
  None = None
  MaxDue = 2
SPECIFICATION MCSpec
CHECK_DEADLOCK FALSE
INVARIANTS
  KeysInOrder
  KeysGoToForeground
  NoReaderSleepsOnKey
