SPECIFICATION FairSpec
CONSTANTS
  t1 = t1
  t2 = t2
  Run = {1, 2, 3}
  Chan = {1, 2, 3}
  Task = {t1, t2}
  Jid = {j1}
  NoJid = NoJid
  Ops = {"Connect", "Reconnect", "SetProxy", "Logout", "ForceReconnect", "Delete", "Use"}
  Faults = {"drop", "loggedOut"}
  QrMax = 2
  QrCodes = 2
  MaxStimuli = 1

  
PROPERTIES
  PolledKillTaken
  
  
CHECK_DEADLOCK FALSE
