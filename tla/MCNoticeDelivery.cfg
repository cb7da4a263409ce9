SPECIFICATION Spec
CONSTANTS
  Posts = {p1, p2}
  Apps = {n1}
  Operators = {o1}
  None = None
  Old = {p1}
  Stale = 0
  RoundMax = 1
  MaxNow = 2
  MaxAsked = 2
  MaxFaults = 1
CHECK_DEADLOCK FALSE
INVARIANTS
  AnnouncedOnce
  FirstRoundSilent
  NoBacklog
  PushesAccounted
PROPERTY DueIsSent
