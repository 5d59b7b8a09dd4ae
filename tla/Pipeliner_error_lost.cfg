SPECIFICATION Spec
CONSTANTS
  nParallel = 2
  MaxItems = 3
  ItMayFail = TRUE
INVARIANT InOrder
