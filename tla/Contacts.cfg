CONSTANTS
  alice = alice
  left = left
  right = right
  one = one
  two = two
  Ids = {alice}
  Windows = {left}
  Tasks = {one}
  WindowOf <- MCOneWindow
  OthersCarry = TRUE
  MaxTime = 2
  MaxSaves = 3
  MaxLocks = 0
  MaxCloses = 1
  MaxCopies = 1
  MaxGone = 1
  SshKey = {1, 2, 3}
  OwnSsh = {3}
  Account = {"gh"}
  Comment = {"a@x"}
  MaxImports = 3
  MaxEdits = 1
  Fp = {1, 2}
  Uid = {"a@x", "b@x", "c@x"}
  Carried = {{"a@x"}, {"b@x"}, {"c@x"}}
  Query = {"a@x"}
  MaxReads = 2
  MaxTouches = 1
  Private = {"a", "b", "s"}
  Locked = {"a", "s"}
  SshText = {"s"}
  Public = {"p"}
  MaxTexts = 3
  MaxFiles = 1
  Key = {"k1", "k2"}
  Crx = {"x1"}
  Cert = {"c1", "c2"}
  Half <- MCHalf
  MaxAttempts = 3
  MaxOthers = 1
  Record = {"c1", "c2", "k1"}
  OwnRecord = {"k1"}
  Casts <- MCCasts
  Aliases <- MCAliases
  Refreshed <- MCRefreshed
  MaxRenames = 1
SPECIFICATION ContactsSpec
CHECK_DEADLOCK FALSE
INVARIANTS
  WarningsAreTrue
  ShownKeyIsImported
PROPERTIES
  SshContactsAreTheUsers
  ContactsAreWhoTheyWere
