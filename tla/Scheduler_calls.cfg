\* Every system call but sleep, on the idle process, init and two children.
CONSTANTS
  MaxPid = 4
  MAX_PRIORITY = 2
  CHAR_MAX = 2
  MaxSecs = 0
  MaxSleeps = 0
  Overkill = 1
  Calls = {"loadProcess", "kill", "exit", "block", "unblock", "wait", "read", "quitCPU"}
SPECIFICATION Spec
INVARIANTS
  TypeOK
  ListWellFormed
  CpuIsSound
  ChildrenCounted
  WaiterHasChild
  TerminalHeld
PROPERTIES
  IdleIsLastResort
  DeadStaysDead
