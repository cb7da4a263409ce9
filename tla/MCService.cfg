SPECIFICATION Spec
CONSTANTS
  Requests = {r1, r2}
  NoCall = NoCall
  None = None
  Logins = {l1, l2}
  FirstLogin = l1
  FewPersons = {1, 2}
  Hashes = {h1}
  Persons = {1, 2, 3}
  Records = {1}
  MaxNow <- MCMaxNow
  Grace <- MCGrace
  Devices = {d1, d2}
  NoUpload = NoUpload
  Unset = Unset
  Ids = {1}
  Prices = {10, 30}
  SoldAt = {1}
  MaxClock = 2
  Retention = 0
  NoNight = 0
  MaxNight = 3
  TradePrices = {10, 30}
  ShortDays = 1
  LongDays = 2
  MinSample = 3
  ShownDays = 3
  TradeIds = {1, 2, 3, 4}
  MaxDay = 5
  Pages = {p1, p2, p3}
  Rps = 1
  Scenes <- AllScenes
CHECK_DEADLOCK FALSE
INVARIANTS
  
  MostOfSampleCounts
  EntryItemsWhole
PROPERTIES
  OnlyKeyPersonsMerge
  MergeKeepsLatest
  BandFollowsNexon
  PastVerdictsStay
  TradeTimeKept
  EveryPageEnds
