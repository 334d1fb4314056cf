SPECIFICATION FairSpec
CONSTANTS
  Event = {e1, e2}
  Id = {m1, m2}
  Loop = {l1, l2}
  Idle = Idle
  Off = Off
INVARIANTS
  TypeOK
  UsedOnce
PROPERTIES
  ActsAsClaims
  QueueMoves
  MarkedIsReported
CHECK_DEADLOCK FALSE
