SPECIFICATION OpenBookSpec
CONSTANTS
  Request = {r1, r2, r3, r4, r5}
  OperationId = {o1, o2, o3, o4, o5}
  o1 = o1
  o2 = o2
  o3 = o3
  o4 = o4
  o5 = o5
  r1 = r1
  Progress = progress
  b1 = b1
  h1 = h1
  c1 = c1
  c2 = c2
  v1 = v1
  Bookmark = {b1}
  Highlight = {h1}
  Content = {c1, c2}
  Anchored = {c1, c2}
  AtEnd = {c2}
  Version = {v1}
  Inputs <- RaceInputs
  ReplayAttempts = 2
  None = None
SYMMETRY OtherSymmetry
INVARIANTS NoLostUpdate TombstonesMatch CopiesKeepOrigin LostRetargetKeepsEdit
PROPERTIES DeletedIsFinal WatermarkMonotone RefinesReaderStore
CHECK_DEADLOCK FALSE
