\* Two Collects of one instance, which may report an alert twice and lose its labels
\* from one list to the next; they compete for a channel with room for one entry.
SPECIFICATION FairSpec
CONSTANTS
  name1 = name1
  name2 = name2
  name3 = name3
  Collects = {p1, p2}
  Instances = {i1}
  Labels = {properties, none}
  Alerts <- MCAlertSet
  Unparsable = Unparsable
  MaxAge = 1
  Capacity = 1
  None = None
  MaxAlerts = 2
  MaxTime = 2
INVARIANTS SeriesDistinct NoAlertHidden
PROPERTY CollectEnds
\* That everybody waits for ever is excluded by CollectEnds.
CHECK_DEADLOCK FALSE
