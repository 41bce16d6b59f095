SPECIFICATION Spec
CONSTANTS
  Listed <- MCListed
  HostDomains = {"dom", "0.0.1"}
  Timeouts = {0, 2}
  None = None
\* A Collect ends.
CHECK_DEADLOCK FALSE
INVARIANTS FailsOnlyForCause FromOnePoint OwnData Reached
PROPERTIES SearchEnds
