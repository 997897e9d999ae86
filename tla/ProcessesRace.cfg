CONSTANTS
  MAX_PROCESSES = 3
  UserTasks = {t1, t2, t3}
  KernelSpawners = {shell}
  SpawnsOverlap = TRUE
  NONE = none
SPECIFICATION Spec
INVARIANT TaskOwnsItsRecord
CHECK_DEADLOCK FALSE
