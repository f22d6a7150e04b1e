SPECIFICATION FairSpec
CONSTANTS
  t1 = t1
  t2 = t2
  a = a
  b = b
  Tab = {t1, t2}
  Slots = 2
  Subject = {a, b}
  MaxStarts <- Starts
  MaxAbandons <- Abandons
  MaxReloads <- Reloads
  None = None
INVARIANTS EpochNamesOwner 
 
CHECK_DEADLOCK FALSE
