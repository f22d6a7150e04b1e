SPECIFICATION FairSpec
CONSTANTS
  Request = {r1, r2, r3}
  OperationId = {o1, o2, o3, o4, o5}
  o1 = o1
  o2 = o2
  o3 = o3
  o4 = o4
  o5 = o5
  r1 = r1
  Progress = progress
  b1 = b1
  h1 = h1
  c1 = c1
  c2 = c2
  v1 = v1
  Bookmark = {b1}
  Highlight = {h1}
  Content = {c1, c2}
  Anchored = {}
  AtEnd = {c2}
  Version = {v1}
  Inputs <- MixedInputs
  ReplayAttempts = 2
  None = None
INVARIANTS ConcurrentMeansRival ExactlyOnce ReplyIsDurable
PROPERTIES CompletionKept EveryCallAnswered
CHECK_DEADLOCK FALSE
