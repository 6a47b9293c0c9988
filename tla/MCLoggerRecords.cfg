CONSTANTS
  Threads = {t1, t2}
  Records = 2
  Frames = 1
SPECIFICATION FairSpec
INVARIANT RecordsWhole
CHECK_DEADLOCK FALSE
