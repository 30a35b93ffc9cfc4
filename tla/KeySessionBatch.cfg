CONSTANTS
  pgpKey = pgpKey
  sshKey = sshKey
  typed = typed
  touch = touch
  touch2 = touch2
  open = open
  make = make
  NoKey = NoKey
  Keys <- MCKeys
  Kinds = {"pgp", "ssh"}
  KindOf <- MCBothPgp
  Calls = {open, typed}
  Via <- MCVia
  MaxHandle = 3
  MaxLocks = 2
SPECIFICATION Spec
INVARIANTS
  StaleHandleIsHarmless
PROPERTIES
  ImplementsKeyAccess
