CONSTANTS
  alice = alice
  left = left
  right = right
  one = one
  two = two
  Ids = {alice}
  Windows = {left, right}
  Tasks = {one, two}
  WindowOf <- MCTwoWindows
  OthersCarry = FALSE
  MaxTime = 2
  MaxSaves = 2
  MaxLocks = 0
  MaxCloses = 0
  MaxCopies = 1
  MaxGone = 0
SPECIFICATION WindowsSpec
SYMMETRY MCSwap
INVARIANTS
  TypeOK
  FloorHolds
  OlderCopyIsReported
PROPERTIES
  NothingIsForgotten
