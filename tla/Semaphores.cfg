\* One mutex: three user processes, or two that also kill and unblock each other.
CONSTANTS
  MaxPid = 4
  MAX_PRIORITY = 2
  CHAR_MAX = 2
  MaxSecs = 1
  MaxSleeps = 1
  Overkill = 0
  Calls = {"loadProcess", "exit", "quitCPU", "read", "wait"}
  FaultyCalls = {"loadProcess", "kill", "block", "unblock", "sleep"}
  FaultyPids = 3
  Sems = {m}
  Mutexes = {m}
  SemMod = 3
  NoSem = NoSem
  Freed = Freed
SPECIFICATION MCSpec
INVARIANTS
  HandoffIsImmediate
  WaitersAreServed
  MutexConserved
