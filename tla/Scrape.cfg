\* Three recorders of two instances, over four ticks.
SPECIFICATION Spec
CONSTANTS
  r1 = r1
  r2 = r2
  r3 = r3
  Recorders = {r1, r2, r3}
  Role <- MCRoles
  Instances = {i1, i2}
  CacheTTL = 0
  DefaultTTL = 1
  Timeout = 2
  ListKey = ListKey
  None = None
  MaxTime = 4
INVARIANTS NoPileUp NoneSkipped
SYMMETRY Symmetry
\* The clock stops at MaxTime, where the system simply continues.
CHECK_DEADLOCK FALSE
