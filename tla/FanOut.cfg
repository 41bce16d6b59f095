\* One call with three recorders.  It returns once, then nothing is left to do.
SPECIFICATION FairSpec
CONSTANTS
  N = 3
  Outcomes <- MCOutcomes
  Failed <- MCFailed
  Pending = Pending
INVARIANTS NoSendOnClosed
PROPERTIES ImplementsForkJoin CallReturns
CHECK_DEADLOCK FALSE
