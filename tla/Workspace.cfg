CONSTANTS
  RunSlot = {r1, r2}
  MaxInputs = 2
  Copy = {1}
  RKey = {"p1", "p2", "s1", "s2"}
  Ssh = {"s1", "s2"}
  MyKey = {"p2", "s2"}
  Group = {{"s1", "s2"}}
  MaxChanges = 2
  SignerId = {"a", "b"}
  Me = "me"
  Other = "other"
  MaxMessages = 2
  MaxLetters = 5
  MaxBoxEdits = 2
  Replacements <- MCReplacements
  BoxTexts <- MCBoxTexts
  MaxToggles = 3
  Bases <- MCBases
SPECIFICATION WorkspaceSpec
SYMMETRY MCSlots
CHECK_DEADLOCK FALSE
INVARIANTS
  GreenIsEarned
PROPERTIES
  ResultsAreTrue
  SealedAsChosen
  EditorIsExact
