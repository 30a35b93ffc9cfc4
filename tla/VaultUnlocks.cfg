CONSTANTS
  Attempts = {first, second}
  Method = "passkey"
  Writes = {}
  Tabs = {}
  MaxUnlocks = 2
  MaxLocks = 1
  MaxOps = 1
SPECIFICATION Spec
CHECK_DEADLOCK FALSE
INVARIANTS
  TypeOK
PROPERTIES
  OpeningEnds
