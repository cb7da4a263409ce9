SPECIFICATION Spec
CONSTANTS
  Workers = {w1, w2}
  Tasks = 3
  MaxPages = 2
  MaxBytes = 2
  MaxRuns = 2
  EarlyClose = FALSE
CHECK_DEADLOCK FALSE
INVARIANTS
  EndAccountsForTasks
  EndLineIsLast
  SlotCoversFetches
PROPERTIES
  ReloginKept
  SlotReturned
