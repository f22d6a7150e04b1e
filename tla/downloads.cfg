SPECIFICATION Spec
CONSTANTS
  t1 = t1
  t2 = t2
  p1 = p1
  Tab = {t1, t2}
  Slots = 2
  MaxVersion = 2
  Page = {p1}
  MaxStarts <- Starts
  MaxReloads <- Reloads
  None = None
SYMMETRY TabSymmetry
INVARIANT TypeOK
INVARIANT WipedStaysEmpty
INVARIANT OneActive
INVARIANT ReadyIsOpenable
INVARIANT ActiveIsOpenable
PROPERTY KeepsPrior
CHECK_DEADLOCK FALSE
