SPECIFICATION Spec
CONSTANTS
  Workers = {w1, w2}
  Tasks = 2
  MaxPages = 2
  MaxBytes = 2
  MaxRuns = 1
  EarlyClose = TRUE
CHECK_DEADLOCK FALSE
PROPERTY SlotReturned
