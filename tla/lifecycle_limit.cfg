SPECIFICATION Spec
CONSTANTS
  t1 = t1
  t2 = t2
  Run = {1, 2}
  Chan = {1, 2, 3}
  Task = {t1, t2}
  Jid = {j1}
  NoJid = NoJid
  Ops = {"Reconnect", "SetProxy", "ForceReconnect", "Delete", "Use"}
  Faults = {"drop", "undecryptable", "noStore", "connectFails"}
  QrMax = 2
  QrCodes = 2
  MaxStimuli = 2
SYMMETRY TaskSymmetry
VIEW LiveState
PROPERTIES
  RegisteredKeepsHandler
CHECK_DEADLOCK FALSE
