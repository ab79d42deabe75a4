CONSTANTS
  TCBs = {t1}
  Workers = {w1, w2}
  RdyNum = 1
  Races = {}
  InMemory = TRUE
  Nobody = nobody
SPECIFICATION Spec
PROPERTIES SyncOnlyBrokenIn
SYMMETRY Alike
CHECK_DEADLOCK FALSE
