\* The recorders of a collector, or of two that share an answer, of two instances.
SPECIFICATION MetricsSpec
CONSTANTS
  Together = {{"instances", "processes"}, {"workprocs", "queues"}, {"enqueue"}}
  Instances = {i1, i2}
  Processes <- MCProcesses
  Queues = {"ABAP/DIA", "ABAP/BTC"}
  WorkProcs <- MCWorkProcs
  StatColours = {"GREEN", "RED", "none"}
  MaxList = 2
INVARIANTS LabelsAligned RefusedOnlyForRepeats CountsAgree
\* A scrape ends.
CHECK_DEADLOCK FALSE
