SPECIFICATION Spec
CONSTANTS
  u1 = u1
  u2 = u2
  u3 = u3
  k1 = k1
  k2 = k2
  k3 = k3
  User = {u1, u2, u3}
  Admins = {u1, u2}
  Call = {k1, k2, k3}
  MaxRows = 3
  None = None
SYMMETRY AdminSymmetry
INVARIANTS OneLivePerFamily AdminRemains BarredMintNothing SuccessMeansRevoked
CHECK_DEADLOCK FALSE
