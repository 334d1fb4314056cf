SPECIFICATION FairSpec
CONSTANTS
  t1 = t1
  t2 = t2
  Run = {1, 2, 3}
  Chan = {1, 2, 3}
  Task = {t1, t2}
  Jid = {j1}
  NoJid = NoJid
  Ops = {}
  Faults = {"drop", "crash"}
  QrMax = 2
  QrCodes = 2
  MaxStimuli = 2
PROPERTIES
  RestartResumes
CHECK_DEADLOCK FALSE
