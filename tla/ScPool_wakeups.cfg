CONSTANTS
  t1 = t1
  t2 = t2
  t3 = t3
  t4 = t4
  Nobody = Nobody
  Threads <- FourThreads
  Num <- OnePair
  PathFlags = {0, 1}
  PoolFlags = {}
  Faults <- Reliable
  AppErrors <- AnyError
SPECIFICATION Spec
SYMMETRY Perms
CONSTRAINT UsageBound
INVARIANTS NoLostWakeup TableOutlivesUse
