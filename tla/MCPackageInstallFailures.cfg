SPECIFICATION Spec
CONSTANTS
  Sources = 3
  Concurrency = 1
  Makefile = FALSE
  MaxRuns = 2
INVARIANTS
  FailedInstallReported
