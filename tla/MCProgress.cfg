CONSTANTS
  Receivers = {r1}
  MaxSends = 6
  none = none
  e1 = e1
  s1 = s1
  sm_worker = sm_worker
  shell = shell
  t1 = t1
  t2 = t2
  t3 = t3
  t4 = t4
  p1 = p1
  p2 = p2
  k1 = k1
SPECIFICATION MCFairSpec
PROPERTIES
  ImplementsMailbox
  RespawnHappens
  WaitsEnd
CHECK_DEADLOCK FALSE
