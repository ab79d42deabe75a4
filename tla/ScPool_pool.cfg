CONSTANTS
  t1 = t1
  t2 = t2
  t3 = t3
  t4 = t4
  Nobody = Nobody
  Threads <- ThreeThreads
  Num <- OnePair
  PathFlags = {}
  PoolFlags <- WaitOnce
  Faults <- Anything
  AppErrors <- JustBroken
SPECIFICATION Spec
CHECK_DEADLOCK FALSE
SYMMETRY Perms
INVARIANTS TypeOK Exclusive NoneLost WeightCounts UsageCounts
PROPERTIES NoSocketLeak ImplementsConnPool
