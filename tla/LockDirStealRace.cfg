SPECIFICATION Spec
CONSTANTS
  p1 = p1
  p2 = p2
  p3 = p3
  None = None
  Empty = Empty
  Corrupt = Corrupt
  Proc = {p1, p2, p3}
  K = 2
  Host <- OneHost
  StealDead = TRUE
  MovesInto = FALSE
  InfoLoss = FALSE
  Breakers = {}
  TokenUsers = {}
SYMMETRY ProcSymmetry
INVARIANT LiveHolderKeepsLock
\* Every process may die, after which nothing happens.
CHECK_DEADLOCK FALSE
