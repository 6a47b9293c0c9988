SPECIFICATION FormatsSpec
SYMMETRY Symmetry
VIEW View
CONSTANTS
  Procs = {p1, p2}
  NoProc = none
  MaxAnswers = 2
  Sizes = {1}
  f1 = f1
  f2 = f2
  u1 = u1
  u2 = u2
  referer = referer
  Dash = dash
  FileNames = {f1, f2}
  Lines <- MCLines
  MaxThreads = 2
  IntMax = 15
  MaxLines = 2
  MaxRotations = 1
  a = a
  b = b
  b2 = b2
  c = c
  Slugs = {a, b, b2, c}
  NameOf <- MCNameOf
  Graphs <- MCGraphs
  Development <- MCDevelopment
  Wanted = {{a}, {a, b}}
  MaxDepth = 6
  Columns <- MCColumns
  PageSize = 4
  Contents <- MCContents
  Pictures <- MCPictures
  Archives <- MCArchives
  Rests <- MCRests
  Beyond <- MCBeyond
  Names = {"KOI8-R", "CP-1251", "ISO-8859-5", "UTF-8"}
  Octets = {10, 127, 128, 152, 163, 173, 192, 255}
  MaxText = 2
  BufSize = 8
  Threads = {t1, t2}
  Records = 2
  Frames = 0
INVARIANTS
  OneServes
  AnswersCurrent
  TerminateEndsLog
  BytesExact
  ReferersExact
  UndefinedOnlyIf
  CyclesEnd
  
  StatisticsExact
  FirstStatementLeft
  CrcExact
  VerdictRight
  Readable
  AnswerUnlessCut
  NothingLost
CHECK_DEADLOCK FALSE
