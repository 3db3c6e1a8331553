CONSTANTS
  w1 = w1
  w2 = w2
  l1 = l1
  Worker = {w1, w2}
  NoWorker = NoWorker
  BatchSizes = {1}
  Log = {l1}
  NoLog = NoLog
  Pivots = {1}
  Heads = {1}
  OldEntries = {}
  MaxAttempts = 1
  MaxExtensions = 0
  FailureKinds = {"transient"}
  ShortAnswers = FALSE
  HasLimit = TRUE
  InitFromEnd = 1
  MaxTree = 1
SPECIFICATION Spec
PROPERTIES OrphanReclaimed CalmCompletes LeaseReturns TailCatchesUp
