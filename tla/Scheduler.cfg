CONSTANTS
  MAX_TASKS = 4
  BootTasks = 2
  Spinners = {1}
  Events = {e1}
  NULL = null
  MaxTick = 3
SPECIFICATION Spec
INVARIANTS
  TypeOK
  UnblockedWaitsForNothing
  ExitedNeverRuns
  NoEarlyWake
  Rsp0IsOwnStack
