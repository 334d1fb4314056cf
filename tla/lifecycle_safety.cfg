SPECIFICATION Spec
CONSTANTS
  t1 = t1
  t2 = t2
  Run = {1, 2}
  Chan = {1, 2, 3}
  Task = {t1, t2}
  Jid = {j1}
  NoJid = NoJid
  Ops = {"Connect", "Disconnect", "Logout", "Delete"}
  Faults = {"drop", "loggedOut", "pairError", "crash"}
  QrMax = 0
  QrCodes = 1
  MaxStimuli = 2
SYMMETRY TaskSymmetry
VIEW LiveState
INVARIANTS
  TypeOK
  ClosedChannelBrief
  
PROPERTIES
  
  DiesOnlyUnderDelete
  OnlyHandlersRewriteRow
CHECK_DEADLOCK FALSE
