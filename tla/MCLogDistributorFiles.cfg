CONSTANTS
  f1 = f1
  f2 = f2
  u1 = u1
  u2 = u2
  r = r
  dash = dash
  FileNames = {f1, f2}
  Lines <- MCLines
  MaxThreads = 2
  IntMax = 7
  Dash = dash
  MaxLines = 2
  MaxRotations = 1
SPECIFICATION Spec
SYMMETRY Symmetry
INVARIANTS
  EveryLogRead
CHECK_DEADLOCK FALSE
