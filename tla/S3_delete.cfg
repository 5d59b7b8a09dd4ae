SPECIFICATION StoresSpec
CONSTANTS
  Keys = {1, 2}
  PageSize = 2
  ParallelFetch = 2
  Confs <- MCDeletes
  Messages <- MCMessages
  FilesOf <- MCFilesOf
  RegionOf <- MCRegionOf
  Workers <- MCWorkers
  MaxBatch = 2
  QueueConfs <- MCQueueConfs
INVARIANT IngestedOnce
