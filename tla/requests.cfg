SPECIFICATION FairSpec
CONSTANTS
  c1 = c1
  c2 = c2
  Call <- MCCall
  Mixes <- MCMixes
  Socks = 2
INVARIANTS
  TypeOK
  NooneForgotten
  ChannelsOpen
PROPERTIES
  KeepsPromise
  
CHECK_DEADLOCK FALSE
