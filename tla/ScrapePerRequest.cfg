\* What doc/design.md:22 says of every request.
SPECIFICATION Spec
CONSTANTS
  r1 = r1
  r2 = r2
  r3 = r3
  Recorders = {r1, r2}
  Role <- TwoRoles
  Instances = {i1}
  CacheTTL = 0
  DefaultTTL = 1
  Timeout = 2
  ListKey = ListKey
  None = None
  MaxTime = 4
INVARIANT ReadPerRequest
\* The clock stops at MaxTime, where the system simply continues.
CHECK_DEADLOCK FALSE
