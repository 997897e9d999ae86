CONSTANTS
  Procs = {p1, p2}
  NFrames = 6
  ImagePages = {1}
  StackPages = {2}
  ThreadPages = {3}
  Regions = {}
  CopyOutPages = {}
  COW_SLOTS = 6
  Values = {zero}
  Zero = zero
  NONE = none
  ForkPages = {1, 2, 3}
  TaskTableFull = {FALSE}
  TouchesStack = TRUE
SPECIFICATION Spec
INVARIANT NoDanglingMapping
CHECK_DEADLOCK FALSE
