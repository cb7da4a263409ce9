SPECIFICATION Spec
CONSTANTS
  Attempts = {a1}
  Callbacks = {c1, c2}
  Asks = {r1, r2}
  None = None
  Ttl = 1
  Window = 1
  Retention = 2
  Interval = 1
  CallbackMax = 1
  RefreshLife = 3
  MaxNow = 4
  MaxRestarts = 1
SYMMETRY Symmetry
CHECK_DEADLOCK FALSE
INVARIANTS
  OneSessionPerLogin
  RedeemedOnce
  HandedOutSessionKept
  ReceiptSessionTracked
  DeadPairSoonGone
  ReceiptDecides
