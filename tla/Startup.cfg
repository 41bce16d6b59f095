\* Starts and ends of one configured process, with up to two failures.
SPECIFICATION FairSpec
CONSTANTS
  Configs <- MCConfigs
  Locations = {"Europe/Moscow"}
  None = None
  MaxAge = 3
  MaxFailures = 2
INVARIANT ServesAsConfigured
PROPERTY OpenAlertReachesLoki
