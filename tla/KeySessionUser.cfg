CONSTANTS
  pgpKey = pgpKey
  sshKey = sshKey
  typed = typed
  touch = touch
  touch2 = touch2
  open = open
  make = make
  NoKey = NoKey
  Keys <- MCKeys
  Kinds = {"pgp", "ssh"}
  KindOf <- MCKindOf
  Calls = {make, touch, touch2}
  Via <- MCVia
  MaxHandle = 3
  MaxLocks = 1
SPECIFICATION Spec
INVARIANTS
  TypeOK
  SessionInv
  NoUnlockSurvivesALock
  MapIsLive
  NoLostHandle
PROPERTIES
  LockedKeysAreWiped
