SPECIFICATION Spec
CONSTANTS
  p1 = p1
  p2 = p2
  x1 = x1
  x2 = x2
  Null = Null
  Process = {p1, p2}
  Change = {x1, x2}
  MaxReads = 2
  Modes <- All
SYMMETRY Symmetry
INVARIANT WriterAlone
INVARIANT DiskIsWhatWasSaved
INVARIANT MemoryIsCurrent
INVARIANT LocksGivenBack
