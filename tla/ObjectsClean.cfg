CONSTANTS
  Procs = {p1, p2}
  OBJECT_SLOTS = 6
  HANDLES_PER_PROCESS = 3
  Resource = resource
  Unused = unused
  Grants = TRUE
  MaxDrift = 2
  FullTableOpens = FALSE
SPECIFICATION Spec
INVARIANT FreeSlotsHaveCleanTables
