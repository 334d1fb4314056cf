SPECIFICATION FairSpec
CONSTANTS
  Instance = {i1}
  All = All
  Sock = {s1, s2}
  NoSock = NoSock
  Call = {c1, c2}
INVARIANTS
  TypeOK
  NoDeadRegistration
  ReadersRegistered
  BroadcastComplete
PROPERTIES
  ClosedUnregistered
  ProduceReturns
  Broadcasts
CHECK_DEADLOCK FALSE
