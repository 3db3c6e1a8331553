CONSTANTS
  w1 = w1
  w2 = w2
  Worker = {w1, w2}
  NoWorker = NoWorker
  BatchSizes = {1, 2}
  InitFromEnd = 1
  MaxTree = 2
SPECIFICATION Spec
SYMMETRY WorkerSymmetry
INVARIANTS TypeOK TailCovered OneAtWork TailInv
PROPERTIES CursorForward
