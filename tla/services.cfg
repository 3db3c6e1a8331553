CONSTANTS
  w1 = w1
  w2 = w2
  Writer = {w1, w2}
  Entry <- MCEntry
  Cutoff = 2
  CertModes = {"none", "metadata"}
  MaxRetries = 1
  HostBatch = 1
  MaxClock = 4
  p1 = p1
  p2 = p2
  Pruner = {p1, p2}
  NoPruner = NoPruner
  Category = {1, 2}
  MaxRuns = 2
  n1 = n1
  n2 = n2
  Worker = {n1, n2}
  Snapshotter = {n1}
  Operator = Operator
  MaxRows = 2
  c1 = c1
  c2 = c2
  Client = {c1, c2}
  Payload <- MCPayload
  Archive <- MCArchive
  Bootstrap <- MCBootstrap
  MaxUpdates = 3
  b1 = b1
  b2 = b2
  Batcher = {b1, b2}
  Requested <- MCRequested
  Ratio = {0, 4, 8}
  AlphaInverse = 2
  HighRatio = 5
  LowRatio = 1
  RecoveryWindows = 2
  SleepStep = 2
  MaxSleep = 3
  MinBatch = 2
  BatchGrowth = 2
  HostId = {1, 2, 3}
  Date = {1, 2}
  PageLimits = {1, 2}
  t1 = t1
  t2 = t2
  Taker = {t1, t2}
  v1 = v1
  Viewer = {v1}
  MaxAge = 2
  StaleAfter = 1
  Retention = 2
  MaxTime = 3
  RangeLength <- MCRangeLength
  TreeSize = 4
  NextIndexes = {3, 5}
  Observations = {0, 3}
  DatabaseSize = {2, 5}
  Estimate = {1, 9}
  MaxSettings = 2
  g1 = g1
  g2 = g2
  Ingester = {g1, g2}
  TailIngester = {g1}
  BatchLimit = 2
  MaxStored = 3
SPECIFICATION Spec
INVARIANTS ServicesTypeOK StoredIsWhole LatestIsBest NoWaitCycle
INVARIANTS OneProfilePrune EnforcedMeansPruned
INVARIANTS SettledIsCurrent PacingBounded PagedOnce ServedFresh
INVARIANTS ProjectionsHonest CountedOnce
PROPERTIES PrunesOnlySuperseded GoneStaysStopped PressureNeverLoosens
PROPERTIES GoneIsReaped AliveIsListed PressureEnds
CHECK_DEADLOCK FALSE
