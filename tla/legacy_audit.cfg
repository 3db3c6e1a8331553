CONSTANTS
  w1 = w1
  w2 = w2
  k1 = k1
  k2 = k2
  Worker = {w1, w2}
  Checker = {k1, k2}
  QueryLimit = 1
  NoFinding = NoFinding
  Copies = {0, 1}
  ChunkSize = 1
  BatchSizes = {1}
  TreeSizes = {1, 2}
  Malformed = {}
  Pivots = {0}
  MaxOpen = 1
  MaxDeleted = 1
  MaxTaken = 1
SPECIFICATION MCSpec
INVARIANTS ChunksPartition CompletedHasBatch OneWorkerPerRange 
PROPERTIES FailedRequeued GapReported RangesComplete
