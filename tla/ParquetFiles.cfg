SPECIFICATION FairSpec
CONSTANTS
  Inodes = {1, 2}
  MaxVersion = 3
  Bad = {2}
  Ids = {1, 2}
INVARIANTS TypeOK DecodesAreOwned
PROPERTIES CloseReturns StableVersionShipped
