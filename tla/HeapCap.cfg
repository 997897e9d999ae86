CONSTANTS
  PAGE = 2
  CHUNK = 4
  CAP = 8
  MaxSize = 3
  FrameFails = FALSE
SPECIFICATION Spec
INVARIANT
  CapIsOutOfMemory
CHECK_DEADLOCK FALSE
