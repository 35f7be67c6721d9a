SPECIFICATION FairSpec
CONSTANTS
  r1 = r1
  r2 = r2
  r3 = r3
  Runs = {r1, r2, r3}
  Nonces = {"n1", "n2"}
  NonceOf <- MCRetry
  NumServices = 2
  MaxRestores = 1
INVARIANTS
  OneReleasePerNonce
  ReleasedOnRecord
  EarlierServicesAhead
PROPERTIES
  WedgeStaysClosed
  ImplementsLinearHead
  RunsEnd
CHECK_DEADLOCK FALSE
