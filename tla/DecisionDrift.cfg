SPECIFICATION FairSpec
CONSTANTS
  d1 = d1
  d2 = d2
  Deciders <- Threads
  MaxSlots = 1
  Cases = 2
  Opens = 1
  Closes = 1
  Lag = 0
  MaxTime = 2
INVARIANTS SlotsAccounted NoDriftSurvives EveryCaseAnswered AllowedBeganInWindow
PROPERTY DecisionsEnd
CHECK_DEADLOCK FALSE
