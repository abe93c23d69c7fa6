SPECIFICATION FairSpec
CONSTANTS
  NumTasks = 2
  File = {f, g}
  Provider = {p, q}
  Named = {p}
  None = None
  MaxActive = 1
  NumRetries = 1
  Failures = 1
  Expiries = 1
INVARIANTS SlotsBound FinishedMeansStored WaitingMeansServed
PROPERTIES TasksEnd
\* all tasks may be over
CHECK_DEADLOCK FALSE
