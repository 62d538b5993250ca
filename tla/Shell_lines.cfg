\* Two lines typed to the shell; commands end, or make the call of a built-in.
CONSTANTS
  MaxPid = 7
  MAX_PRIORITY = 2
  CHAR_MAX = 2
  MaxSecs = 0
  MaxSleeps = 0
  Overkill = 1
  Calls = {"loadProcess", "wait", "exit", "read", "kill", "block", "unblock"}
  Cmds = {"help", "kill", "block", "unblock"}
  BuiltIns = {"kill", "block", "unblock"}
  Help = "help"
  Unknown = "unknown"
  NoPipe = "none"
  MaxLines = 2
SPECIFICATION ShellSpec
CHECK_DEADLOCK FALSE
INVARIANTS
  PipeInUseIsOpen
  PromptHasTerminal
