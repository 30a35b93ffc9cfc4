CONSTANTS
  left = left
  right = right
  one = one
  two = two
  Ids = {"alice"}
  Windows = {left, right}
  Tasks = {one, two}
  WindowOf <- MCTwoWindows
  OthersCarry = TRUE
  MaxTime = 1
  MaxSaves = 1
  MaxLocks = 1
  MaxCloses = 0
  MaxCopies = 0
  MaxGone = 0
  PanelWindow = {"a", "b"}
  MaxClicks = 2
  MaxRuns = 2
  MaxMoves = 3
  PubLine = {1, 2, 3, 4}
  Oversized = {4}
  Unusable = {3}
  MaxKeys = 2
  MaxLookups = 2
SPECIFICATION PanelSpec
CHECK_DEADLOCK FALSE
INVARIANTS
  LookupsAreHonest
PROPERTIES
  SelectionsArrive
  TranslationsAreTrue
  EveryWaitEnds
