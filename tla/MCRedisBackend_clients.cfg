SPECIFICATION Spec
CONSTANTS
  j1 = j1
  j2 = j2
  c1 = c1
  c2 = c2
  Job = {j1, j2}
  Client = {c1, c2}
  LEVELS = 2
  MaxLimit = 2
  MaxAttempt = 3
SYMMETRY Symmetry
INVARIANTS
  RedisTypeOK
  OnePlace
  SoleHolder
  NeverLost
  ClaimableHasPayload
CHECK_DEADLOCK FALSE
