CONSTANTS
  TCBs = {t1}
  Workers = {w1, w2, w3}
  RdyNum = 1
  Races = {}
  InMemory = TRUE
  Nobody = nobody
SPECIFICATION FairSpec
INVARIANTS OneRunner TasksKept
PROPERTIES FiberIntact RecycledComplete ReadyServed
