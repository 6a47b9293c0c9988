SPECIFICATION Spec
CONSTANTS
  Sources = 3
  Concurrency = 1
  Makefile = TRUE
  MaxRuns = 2
INVARIANTS
  OnlyBatchLastsEscape
  FreedWhenUnused
  IncompleteExplained
PROPERTIES
  WholeFilesStay

