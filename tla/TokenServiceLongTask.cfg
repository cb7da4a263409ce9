SPECIFICATION Spec
CONSTANTS
  Callers = {w1, w2}
  None = None
  Ahead = 2
  AccessLife = 5
  CallMax = 1
  TaskMax = 4
  MaxNow = 8
  MaxRestarts = 0
CHECK_DEADLOCK FALSE
INVARIANT RejectedMeansDead
