SPECIFICATION Spec
CONSTANTS
  Gates = {g1}
  NumStores = 2
  Heads <- MCHeads
  Genesis <- MCGenesis
  Forgeries <- MCForkedHead
  MaxFaults = 1
PROPERTIES
  RepairOverwritesOnlyAncestors
