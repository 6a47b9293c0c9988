CONSTANTS
  Threads = {t1, t2}
  Records = 1
  Frames = 1
SPECIFICATION FairSpec
PROPERTIES
  ProgramEnds
CHECK_DEADLOCK FALSE

