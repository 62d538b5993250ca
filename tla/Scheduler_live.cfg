\* Every way to end or yield a turn but nice; and sleepers that are woken meanwhile.
CONSTANTS
  MaxPid = 4
  MAX_PRIORITY = 2
  CHAR_MAX = 2
  MaxSecs = 1
  MaxSleeps = 2
  Overkill = 0
  Calls = {"loadProcess", "exit", "unblock", "sleep"}
  OtherCalls = {"loadProcess", "kill", "exit", "wait", "read", "quitCPU"}
SPECIFICATION MCSpec
PROPERTIES
  HandlerReturns
  ReadyRunsAwake
  SleeperWakes
