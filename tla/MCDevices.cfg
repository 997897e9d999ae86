CONSTANTS
  DiskUsers = {k, s}
  Sectors = {1, 2}
  QUEUE_DEPTH = 2
  DiskOverlap = FALSE
  MaxTimeouts = 1
  MaxCommands = 5
SPECIFICATION MCSpec
INVARIANTS
  TypesOK
  MinifsSound
  
  FilesSound
  OkMeansServed
  WindowsSound
  InputSound

  
CHECK_DEADLOCK FALSE
