SPECIFICATION Spec
CONSTANTS
  Attempts = {a1}
  Callbacks = {c1}
  Asks = {r1}
  None = None
  Ttl = 1
  Window = 1
  Retention = 2
  Interval = 1
  CallbackMax = 1
  RefreshLife = 9
  MaxNow = 6
  MaxRestarts = 1
CHECK_DEADLOCK FALSE
INVARIANT OrphanSessionsCollected
