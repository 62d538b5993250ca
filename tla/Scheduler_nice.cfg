\* Turns: nice, sleep and everything else that starts or ends a turn, one child,
\* quantum 1 to 4.
CONSTANTS
  MaxPid = 3
  MAX_PRIORITY = 4
  CHAR_MAX = 5
  MaxSecs = 1
  MaxSleeps = 1
  Overkill = 0
  Calls = {"loadProcess", "exit", "block", "nice", "wait", "read", "quitCPU", "sleep"}
SPECIFICATION Spec
INVARIANTS
  QuantumRespected
