CONSTANTS
  t1 = t1
  t2 = t2
  Nobody = Nobody
  Threads <- TwoThreads
  Num <- TwoSingles
  PathFlags = {1}
  PoolFlags <- Waiting
  Faults <- SecondReliable
  AppErrors <- JustBroken
  MaxCalls = 2
SPECIFICATION LiveSpec
CHECK_DEADLOCK FALSE
INVARIANTS LoadingHasLoader
PROPERTIES CallsReturn WaitersServed ForeverMeansForever
