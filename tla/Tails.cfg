SPECIFICATION AdaptersSpec
CONSTANTS
  Files = {1, 2}
  MaxGen = 2
  MaxLines = 2
  Tails = {1, 2, 3, 4}
  Confs <- MCTailConfs
  Pods = {1, 2}
  Containers = {1, 2}
  MaxLogs = 2
  PodLines = 1
  K8sConfs <- MCK8sConfs
INVARIANTS
  TailsTypeOK TailsAreListed LateIsBounded NoLineTwice CrashNeedsBareContainer
PROPERTIES
  ClosesReturn LinesAreShipped
