SPECIFICATION FairChainSpec
CONSTANTS
  t1 = t1
  t2 = t2
  Tab = {t1}
  Editor = {t1}
  Progress = progress
  Annotation = {h1}
  Foreign = {}
  MaxOps = 2
  MaxEdits = 2
  MaxAttempts = 2
  MaxExpiries = 0
  MaxStops = 1
  None = None
PROPERTIES SuccessorsWait EveryEditSettles
CHECK_DEADLOCK FALSE
