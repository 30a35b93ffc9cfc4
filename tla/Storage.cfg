CONSTANTS
  LockCall = {c1, c2, c3}
  NoCall = NoCall
  ChunkedValue <- MCChunkedValue
  Writer = {"a", "b"}
  MaxCalls = 3
  FullChunk = 2
  MoveWindow = {"a", "b"}
  StoreKey <- MCStoreKey
  MaxMoveOps = 2
  RingCall = {"c", "d"}
  KeyId = {"k", "l"}
  MaxFlips = 1
  MaxSaves = 2
  MaxFaults = 2
  Update = {"u", "v"}
  MaxTurns = 1
  HistWindow = {"a", "b"}
  PerSegment = 1
  MaxEntries = 3
  MaxUpsets = 1
SPECIFICATION StorageSpec
CHECK_DEADLOCK FALSE
INVARIANTS
  ChunksAreWhole
PROPERTIES
  CallsTakeTurns
  TheVaultIsKept
  KeysAreKept
  SettingsHold
  ShownIsStored
  HistoryIsWhole
