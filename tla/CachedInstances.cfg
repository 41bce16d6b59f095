\* Refreshes of two instances by two Collects, while they read the configuration.
SPECIFICATION CachedSpec
CONSTANTS
  S1 = S1
  S2 = S2
  Instances = {i1, i2}
  Readers = {c1, c2}
  AccessPoints = 2
  Sids <- MCSids
  Configured <- MCConfigured
  NoSid = NoSid
  None = None
  TTLs <- MCTTLs
  Nil = Nil
INVARIANTS EveryInstanceOnce FailedInstancesLabelled CrashOnlyWhileUnknown
INVARIANT NoCrashOnceShown
PROPERTY SidStable
SYMMETRY Symmetry
\* A crash of the process ends the behaviour.
CHECK_DEADLOCK FALSE
