CONSTANTS
  Tasks = {t1, t2, t3, t4, t5}
  NONE = none
  ExitsHolding = TRUE
  p1 = p1
  p2 = p2
  PIPE_BUF_SIZE = 3
  Bytes = {byte1, byte2}
  MaxLen = 4
  Overlap = FALSE
  Procs = {p1, p2}
  Threads = {p1, p2}
  ProcessOf <- OneThreadEach
  SLOTS = 2
  Kinds = {k1, k2}
  ChecksKind = TRUE
  MaxIssues = 4
  UNSET = unset
  resource = resource
  unused = unused
SPECIFICATION MCSpec
INVARIANTS
  TypesOK
  MutualExclusion
  RequestsSound
PROPERTIES
  ObjectsSound
  ImplementsOwnership
  ImplementsFifo
CHECK_DEADLOCK FALSE
