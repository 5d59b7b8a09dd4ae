SPECIFICATION StoresSpec
CONSTANTS
  Keys = {1, 2, 3}
  PageSize = 2
  ParallelFetch = 2
  Confs <- MCConfs
  Messages <- MCMessages
  FilesOf <- MCFilesOf
  RegionOf <- MCRegionOf
  Workers <- MCWorkers
  MaxBatch = 2
  QueueConfs <- MCQueueConfs
INVARIANTS
  StoresTypeOK DeletedWasShipped DeletedIsAccountedFor NoneIngestedTwice
PROPERTIES
  StoresEnd StoresAreShipped
