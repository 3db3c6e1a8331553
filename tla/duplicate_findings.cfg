CONSTANTS
  w1 = w1
  w2 = w2
  k1 = k1
  k2 = k2
  Worker = {w1}
  Checker = {k1, k2}
  QueryLimit = 1
  NoFinding = NoFinding
  Copies = {0, 1}
  ChunkSize = 1
  BatchSizes = {1}
  TreeSizes = {1}
  Malformed = {}
  Pivots = {0}
  MaxOpen = 1
  MaxDeleted = 0
  MaxTaken = 0
SPECIFICATION Spec
INVARIANTS NoDuplicateFindings
