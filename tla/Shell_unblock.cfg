\* The built-in unblock.
CONSTANTS
  MaxPid = 6
  MAX_PRIORITY = 2
  CHAR_MAX = 2
  MaxSecs = 0
  MaxSleeps = 0
  Overkill = 0
  Calls = {"loadProcess", "wait", "exit", "read", "unblock"}
  Cmds = {"help", "unblock"}
  BuiltIns = {"unblock"}
  Help = "help"
  Unknown = "unknown"
  NoPipe = "none"
  MaxLines = 1
SPECIFICATION ShellSpec
CHECK_DEADLOCK FALSE
INVARIANTS
  UnblockOnlyUnblocks
