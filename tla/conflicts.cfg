SPECIFICATION CenterSpec
CONSTANTS
  t1 = t1
  f1 = f1
  f2 = f2
  Tab = {t1}
  Editor = {t1}
  Progress = progress
  Annotation = {}
  Foreign = {f1, f2}
  MaxOps = 2
  MaxEdits = 2
  MaxAttempts = 1
  MaxExpiries = 0
  MaxStops = 0
  None = None
SYMMETRY ForeignSymmetry
INVARIANTS ChoicesKept ChoiceRefusedOnlyIfMoved
CHECK_DEADLOCK FALSE
