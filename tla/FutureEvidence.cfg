SPECIFICATION WindowSpec
CONSTANTS
  MaxDate = 6
  MaxAge = 2
  Skew = 1
INVARIANT NoFutureEvidence
CHECK_DEADLOCK FALSE
