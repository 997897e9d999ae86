CONSTANTS
  Users = {a, b}
  TX_RING_SIZE = 2
  RX_RING_SIZE = 3
  NicOverlap = FALSE
  MaxArrivals = 5
  MaxSends = 3
  MaxStuck = 1
SPECIFICATION MCSpec
INVARIANTS
  
  
  
  NicSound
  
  
  PowerExact
CHECK_DEADLOCK FALSE
