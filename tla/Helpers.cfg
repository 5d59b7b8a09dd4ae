SPECIFICATION MCSpec
CONSTANTS
  Key = {k1, k2, k3}
  nBuckets = 3
  Loopers = {p1, p2}
  Sleepers = {q1}
  MaxCalls = 2
  Letters = {1, 2}
  Token = 0
  MaxSizes = {0, 2}
  MaxChunk = 4
  MaxFed = 5
  nParallel = 3
  MaxItems = 3
INVARIANTS
  HelpersTypeOK CurrentIsMade
  EventIsSafe
  CutsDoNotMatter
  OnlyTruncates
PROPERTIES
  ImplementsAgingSet StopReachesEverybody
