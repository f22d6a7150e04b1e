SPECIFICATION Spec
CONSTANTS
  t1 = t1
  t2 = t2
  h1 = h1
  Tab = {t1, t2}
  Editor = {t1}
  Highlight = {h1}
  MaxRevision = 2
  MaxRefreshes = 2
  None = None
INVARIANTS NothingVanishes DrainedMeansStored
CHECK_DEADLOCK FALSE
