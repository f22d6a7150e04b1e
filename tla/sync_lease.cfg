SPECIFICATION Spec
CONSTANTS
  t1 = t1
  t2 = t2
  Tab = {t1, t2}
  Editor = {t1}
  Progress = progress
  Annotation = {h1}
  Foreign = {f1}
  MaxOps = 1
  MaxEdits = 2
  MaxAttempts = 1
  MaxExpiries = 1
  MaxStops = 0
  None = None
INVARIANTS EditsKept AcknowledgedOnServer DrainsExclude AckedStaysGone
CHECK_DEADLOCK FALSE
