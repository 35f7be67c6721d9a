SPECIFICATION Spec
CONSTANTS
  p1 = p1
  p2 = p2
  p3 = p3
  Procs = {p1, p2}
  NoProc = NoProc
  Heads <- MCHeads
  Genesis <- MCGenesis
  Receipts <- MCForkedLedger
  MaxOutages = 1
SYMMETRY Symmetry
INVARIANTS ObservedNeverRollsBack
