CONSTANTS
  Threads = {t1, t2}
  NoThread = none
  Byte = {a, b}
  Unset = unset
  DefaultSize = 2
  MaxSize = 2
  MaxCount = 3
SPECIFICATION FairSpec
INVARIANTS
  IndicesAgree
PROPERTIES
  AtomicCalls
  CallsReturn
