SPECIFICATION Spec
CONSTANTS
  Threads = {t1, t2}
  Retries = 1
  MaxRuns = 2
INVARIANTS
  AloneUnlessRetried
  
PROPERTIES
  EveryFetchEnds
CHECK_DEADLOCK FALSE
