SPECIFICATION Spec
CONSTANTS
  d1 = d1
  d2 = d2
  d3 = d3
  d4 = d4
  n1 = n1
  n2 = n2
  Deciders = {d1, d2, d3, d4}
  Tokens = {n1, n2}
  TokenOf <- MCTokenOf
  Provisioned = FALSE
  MaxOutages = 1
SYMMETRY SameNonce
INVARIANTS OneAllowPerNonce
CHECK_DEADLOCK FALSE
