CONSTANTS
  Procs = {p1, p2}
  Files = {f1, f2}
  Buffers = {b1, b2, b3, b4}
  NoBuffer = none
  MaxUnloads = 2
SPECIFICATION Spec
CHECK_DEADLOCK FALSE
INVARIANTS
  SingleOpen
  NeverBackAfterGivingUp
  OneLeakPerUnload
PROPERTIES
  RolledBack
  FaultsOnlyWhileLoading

