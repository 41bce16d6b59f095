\* The seven calls, with one element of the answer missing or none.
SPECIFICATION AnswersSpec
CONSTANTS
  Seconds = {0, 60, 3599, 86399, 180061}
  Forms = {0, 1, 2, 3, 4}
  MaxPid = 2
  Unreadable = Unreadable
INVARIANTS NothingLost ColoursAgree CpuFaithful
PROPERTY CounterFallsOnlyWhenEmpty
\* A call ends.
CHECK_DEADLOCK FALSE
