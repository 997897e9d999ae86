CONSTANTS
  t1 = t1
  t2 = t2
  t3 = t3
  t4 = t4
  s1 = s1
  s2 = s2
  worker = worker
  MAX_PROCESSES = 3
  UserTasks = {t1, t2, t3, t4}
  KernelSpawners = {shell}
  SpawnsOverlap = FALSE
  NONE = none
SPECIFICATION MCSpec
INVARIANTS
  TypesOK
  RecordsPaired
  ServicesSound
  DesktopSound
  ImagesSound
PROPERTIES
  LifecyclesSound
SYMMETRY TaskSymmetry
CHECK_DEADLOCK FALSE
