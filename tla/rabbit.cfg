SPECIFICATION FairSpec
CONSTANTS
  c1 = c1
  c2 = c2
  Call = {c1, c2}
  Conn = {1, 2, 3, 4}
  Dials = 3
  MaxRetries = 3
  MaxFaults = 1
INVARIANTS
  TypeOK
  
PROPERTIES
  Publishes
  CallsReturn
  
  LeakNeedsOverlap
CHECK_DEADLOCK FALSE
