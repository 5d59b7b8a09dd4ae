SPECIFICATION AllSpec
CONSTANTS
  N = 3
  MaxTime = 6
  Interval = 1
  LongOverlap = 4
  MaxSpan = 4
  Confs <- MCConfs
  CursorTime = 6
  BoxWindow = 3
  BoxKeeps = 3
  CursorConfs <- MCCursorConfs
  CatoPageSize = 2
  MaxRetries = 1
  MaxErrors = 3
  MaxStarts = 3
  CatoConfs <- MCCatoConfs
INVARIANTS PollersTypeOK NoEventTwice NoEventMissed SavedIsShipped
