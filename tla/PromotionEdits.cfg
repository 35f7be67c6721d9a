SPECIFICATION Spec
CONSTANTS
  Files = {"attestation_record.py", "notes.txt"}
  Versions = {"pinned", "edited", "absent"}
  Absent = "absent"
  Pinned <- MCPinned
  SealOrder <- ByName
  NameOrder <- ByName
  Roster = "current"
  Foreign <- MCForeign
  MaxEdits = 5
  None = None
  Formers <- MCFormers
  TufRoster = "current"
  MaxSwaps = 2
INVARIANTS
  TreeChoosesNoBytes
  AttestedRanPinned
  LastingEditSeen
  GenuineRunValid
  GrantedRanPinned
  GrantedIsAttested
CHECK_DEADLOCK FALSE
