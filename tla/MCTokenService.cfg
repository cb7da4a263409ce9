SPECIFICATION Spec
CONSTANTS
  Callers = {w1, w2}
  None = None
  Ahead = 2
  AccessLife = 3
  CallMax = 1
  TaskMax = 1
  MaxNow = 6
  MaxRestarts = 1
CHECK_DEADLOCK FALSE
INVARIANTS
  RejectedMeansDead
  RotationKept
  TokenOutlivesTask
  ReloginMeansGone
PROPERTY CallersAnswered
