SPECIFICATION Spec
CONSTANTS
  p1 = p1
  p2 = p2
  p3 = p3
  Procs = {p1, p2, p3}
  NoProc = NoProc
  Heads <- MCHeads
  Genesis <- MCGenesis
  Receipts <- MCForkedLedger
  MaxOutages = 2
SYMMETRY Symmetry
INVARIANTS TypeOK NoSiblings AlwaysReadable
PROPERTIES ImplementsLinearHead
