SPECIFICATION FairSpec
CONSTANTS
  Gates = {g1, g2}
  NumStores = 2
  Heads <- MCSiblings
  Genesis <- MCGenesis
  Forgeries <- MCNone
  MaxFaults = 2
INVARIANTS
  AnchoredLinear
  StoresNeverAhead
PROPERTIES
  GatesNeverRollBack
  ImplementsLinearHead
  AlwaysRecoverable
