SPECIFICATION Spec
CONSTANTS
  Requests = {r1}
  NoCall = NoCall
  None = None
  Absent = Absent
  Keys = {1, 2, 3}
  FewKeys = {1, 2}
  Texts = {1, 2}
  Names = {1, 2, 3}
  Days = {1, 2, 3}
  SeedSize = 2
  MaxOrder = 2
  MinLevels = {1, 2}
  MaxStar = 2
  Boundaries <- MCBoundaries
  Scenes = {"prices"}
  Together = {}
CHECK_DEADLOCK FALSE
PROPERTY EveryChangeTold
