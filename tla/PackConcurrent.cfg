SPECIFICATION Spec
CONSTANTS
  p1 = p1
  p2 = p2
  r1 = r1
  r2 = r2
  None = None
  Proc = {p1, p2}
  Rev = {r1, r2}
  Gens = 2
  MaxPacks = 1
  Scenarios <- Concurrent
  Collide = FALSE
SYMMETRY Symmetry
INVARIANT NamesBacked
INVARIANT MissingPackIsRetried
INVARIANT NothingLeftBehind
PROPERTY ReachableStays
PROPERTY CommitIsPublished
\* A packer for which the bound Gens leaves no name waits for ever.
CHECK_DEADLOCK FALSE
