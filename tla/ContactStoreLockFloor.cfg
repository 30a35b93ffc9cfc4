CONSTANTS
  alice = alice
  left = left
  right = right
  one = one
  two = two
  Ids = {alice}
  Windows = {left}
  Tasks = {one}
  WindowOf <- MCOneWindow
  OthersCarry = FALSE
  MaxTime = 2
  MaxSaves = 2
  MaxLocks = 1
  MaxCloses = 0
  MaxCopies = 0
  MaxGone = 0
SPECIFICATION Spec
PROPERTIES
  FloorOnlyGrows
