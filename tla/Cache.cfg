\* Three goroutines race for one key; the set function may return any ttl.
SPECIFICATION FairSpec
CONSTANTS
  Callers = {c1, c2, c3}
  Keys = {k1}
  Values = {list}
  TTLs <- MCTTLs
  None = None
  MaxTime = 3
  StatsModulus = 2
INVARIANTS LockDiscipline HeldCopyCurrent FetchOnlyWhenDead StatsConserved
PROPERTIES ImplementsReadThroughCache EveryCallReturns
