SPECIFICATION Spec
CONSTANTS
  t1 = t1
  t2 = t2
  a = a
  b = b
  Tab = {t1, t2}
  Slots = 2
  Subject = {a, b}
  MaxStarts <- ManyStarts
  MaxAbandons <- Nothing
  MaxReloads <- Nothing
  None = None
SYMMETRY AccountSymmetry
PROPERTY DrainedLosesNothing
CHECK_DEADLOCK FALSE
