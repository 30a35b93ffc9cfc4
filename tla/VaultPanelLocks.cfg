CONSTANTS
  Attempts = {first, second}
  Method = "passkey"
  Writes = {save}
  Tabs = {tab}
  MaxUnlocks = 2
  MaxLocks = 1
  MaxOps = 0
SPECIFICATION Spec
SYMMETRY AttemptsAlike
CHECK_DEADLOCK FALSE
INVARIANTS
  ScreenIsTrue
  SettledByItsOwnUnlock
  LockedTabsAreBlank
  SettledListsAreRead
  OpenVaultHasTimer
