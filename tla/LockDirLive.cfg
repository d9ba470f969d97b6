SPECIFICATION FairSpec
CONSTANTS
  p1 = p1
  p2 = p2
  p3 = p3
  None = None
  Empty = Empty
  Corrupt = Corrupt
  Proc = {p1, p2}
  K = 2
  Host <- OneHost
  StealDead = TRUE
  MovesInto = FALSE
  InfoLoss = TRUE
  Breakers = {p2}
  TokenUsers = {p1}
INVARIANT HolderBacked
PROPERTY CallsEnd
PROPERTY DeadLockIsStolen
\* Every process may die, after which nothing happens.
CHECK_DEADLOCK FALSE
