CONSTANTS
  p1 = p1
  p2 = p2
  p3 = p3
  Procs = {p1, p2, p3}
  NFrames = 4
  ImagePages = {1}
  StackPages = {2}
  ThreadPages = {3}
  Regions = {4}
  CopyOutPages = {3}
  COW_SLOTS = 6
  Values = {zero, one}
  Zero = zero
  NONE = none
  ForkPages = {1, 2}
  TaskTableFull = {FALSE}
  TouchesStack = TRUE
SPECIFICATION MCSpec
INVARIANTS
  TypesOK
  FramesKept
  CowExact
  HeapSound

  
SYMMETRY ProcSymmetry
CHECK_DEADLOCK FALSE
