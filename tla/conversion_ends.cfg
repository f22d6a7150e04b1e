SPECIFICATION FairSpec
CONSTANTS
  w1 = w1
  w2 = w2
  a1 = a1
  Worker = {w1, w2}
  Admin = {a1}
  MaxJobs = 1
  MaxAttempts = 2
  MaxCrashes = 1
PROPERTIES EveryJobEnds
CHECK_DEADLOCK FALSE
