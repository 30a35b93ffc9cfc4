CONSTANTS
  Requests <- MCRequests
  None = None
  MAX_DECRYPTED_BYTES = 6
  MAX_EXPANSION_RATIO = 4
  MIN_EXPANSION_ALLOWANCE = 5
  MAX_VERIFIED_BYTES = 5
  MAX_SIGNED_INPUT_BYTES = 2
  MAX_SIGNED_LINES = 10
  ReadAhead = 8
  Flows = {c1, c2}
  Ids = {"p1", "p2", "s1", "x1"}
  KindOf <- MCKindOf
  Passwords = {"w1"}
  Outputs = {"f1", "f2"}
  MasterOutput = "f1"
  Found <- MCFound
  PublicOnly = PublicOnly
  Absent = Absent
  MAX_HANDLE = 3
  MaxEntries = 1
  Slots = {"keyring", "history"}
  Masters = {"m1", "m2"}
  Unset = Unset
  MaxDraftKeys = 2
  SigningKeys = {1, 2}
  Archives <- MCArchives
  MaxSigned = 2
  MaxEdits = 2
  Nobody = Nobody
  Lines <- MCLines
  AgeTag <- MCTag
  ElsewhereStanzas <- MCElsewhere
  AGE_HEADER_SCAN_LIMIT = 2
  MaxLines = 2
  PgpIds = {"p1"}
  CrxIds = {"x1", "x2"}
  ByPasskeyIds = {"x2"}
  NoId = NoId
  MaxOpens = 2
  Vaults <- MCVaults
  OwnIds = {"k1"}
  SigningIds = {}
  PeopleIds = {"c1", "c2"}
  NewPgp = "k2"
  NewCrx = "x2"
  NoKey = NoKey
  DAY = 1
  Fixed = 9
  MaxPages = 2
  MaxClock = 1
SPECIFICATION EngineSpec
SYMMETRY MCFlows
CHECK_DEADLOCK FALSE
INVARIANTS
  AnswersAreTrue
  SecretsAreKept
