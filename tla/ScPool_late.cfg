CONSTANTS
  t1 = t1
  t2 = t2
  t3 = t3
  t4 = t4
  Nobody = Nobody
  Threads <- TwoThreads
  Num <- OneConn
  PathFlags = {0}
  PoolFlags <- NeverWait
  Faults <- Unreachable
  AppErrors <- JustBroken
SPECIFICATION Spec
SYMMETRY Perms
PROPERTIES HandedOutLive
