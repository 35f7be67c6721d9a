SPECIFICATION Spec
CONSTANTS
  Files = {"AUTHORITY.md", "attestation_record.py"}
  Versions = {"pinned", "edited", "absent"}
  Absent = "absent"
  Pinned <- MCPinned
  SealOrder <- ByPath
  NameOrder <- ByName
  Roster = "current"
  Foreign <- MCForeign
  MaxEdits = 0
  None = None
  Formers <- MCFormers
  TufRoster = "current"
  MaxSwaps = 0
INVARIANT
  GenuineRunValid
CHECK_DEADLOCK FALSE
