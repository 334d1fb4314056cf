SPECIFICATION Spec
CONSTANTS
  t1 = t1
  t2 = t2
  Run = {1, 2}
  Chan = {1, 2, 3}
  Task = {t1, t2}
  Jid = {j1}
  NoJid = NoJid
  Ops = {"Connect", "Logout", "Delete"}
  Faults = {}
  QrMax = 0
  QrCodes = 1
  MaxStimuli = 2
PROPERTIES
  DeleteIsFinal
CHECK_DEADLOCK FALSE
