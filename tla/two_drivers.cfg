CONSTANTS
  w1 = w1
  w2 = w2
  l1 = l1
  Worker = {w1, w2}
  NoWorker = NoWorker
  Log = {l1}
  NoLog = NoLog
  BatchSizes = {1}
  Pivots = {1}
  Heads = {1}
  OldEntries = {}
  MaxAttempts = 2
  MaxExtensions = 1
  FailureKinds = {}
  ShortAnswers = FALSE
  HasLimit = FALSE
SPECIFICATION Spec
SYMMETRY WorkerSymmetry
INVARIANTS AtMostOneDriver
