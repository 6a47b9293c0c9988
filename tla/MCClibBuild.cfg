SPECIFICATION Spec
CONSTANTS
  a = a
  b = b
  c = c
  d = d
  Packages = {a, b, c, d}
  Flag = flag
  Here = a
  Worlds <- MCWorlds
  Development <- MCDevelopment
  Concurrencies = {0, 2}
  MaxFailures = 1
  CommandLines <- MCCommandLines
INVARIANTS
  EverythingBuilt
  
  CutOnlyIf
PROPERTIES
  RunEnds
CHECK_DEADLOCK FALSE
