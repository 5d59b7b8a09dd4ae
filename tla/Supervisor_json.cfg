SPECIFICATION ProcessesSpec
CONSTANTS
  MaxSlots = 3
  MaxUpdates = 2
  Confs <- MCOneJSON
  Conns = {1, 2}
  Only = 1
  SyslogConfs <- MCSyslogConfs
  Endpoints = {1, 2}
  N = 2
  MaxTime = 3
  MaxRetryAttempts = 2
  Back = 1
  S1Confs <- MCS1Confs
INVARIANT OneRunPerDocument
