CONSTANTS
  TCBs = {t1, t2}
  Workers = {w1, w2, w3}
  RdyNum = 1
  Races = {}
  InMemory = FALSE
  Nobody = nobody
SPECIFICATION Spec
PROPERTIES RecycledComplete
SYMMETRY Alike
CHECK_DEADLOCK FALSE
