SPECIFICATION FairSpec
CONSTANTS
  nParallel = 3
  MaxItems = 4
  ItMayFail = FALSE
INVARIANTS TypeOK InOrder NoPanic
PROPERTIES ImplementsOrderedStream CallsReturn
