CONSTANTS
  Attempts = {first}
  Method = "passkey"
  Writes = {}
  Tabs = {}
  MaxUnlocks = 2
  MaxLocks = 1
  MaxOps = 0
SPECIFICATION Spec
CHECK_DEADLOCK FALSE
PROPERTIES OsLockStopsUnlocks
