\* Three at the table, and one more: two can eat at the same time.
CONSTANTS
  MAX_PHILO_SIZE = 3
  STARTING = 3
  Args = {3}
  NoArg = NoArg
  Keys = {"a", "r", "q", "EOF"}
  MaxPhils = 4
SPECIFICATION Spec
CHECK_DEADLOCK FALSE
INVARIANTS
  DinnerGoesOn
