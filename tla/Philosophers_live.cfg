\* Liveness at a table of up to three, which come and go.
CONSTANTS
  MAX_PHILO_SIZE = 3
  STARTING = 3
  Args = {NoArg, 2, 0}
  NoArg = NoArg
  Keys = {"a", "r", "q", "EOF"}
  MaxPhils = 3
SPECIFICATION FairSpec
CHECK_DEADLOCK FALSE
PROPERTIES
  HungryEats
  EndLeavesNobody
