\* The bounds of each of the three instances are in MCPipes.
CONSTANTS
  MaxPid = 4
  MAX_PRIORITY = 2
  CHAR_MAX = 2
  MaxSecs = 0
  MaxSleeps = 0
  Overkill = 0
  Calls = {"loadProcess"}
  KillCalls = {"loadProcess", "kill"}
  Sems = {"Pipes", "FullSem"}
  Mutexes = {"Pipes"}
  SemMod = 16
  NoSem = NoSem
  Freed = Freed
  PIPE_MAX_SIZE = 2
  Chars = {a, EOF}
  EOF = EOF
  Junk = Junk
  MaxPipes = 2
  MaxWrite = 2
  MaxSent = 3
SPECIFICATION MCSpec
CHECK_DEADLOCK FALSE
INVARIANTS
  ReadsInOrder
  CountIsUnread
  LockNeverKept
  PipeMemory
