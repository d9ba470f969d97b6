\* The transform ends: CHECK_DEADLOCK FALSE.
SPECIFICATION Spec
CONSTANTS
  d1 = d1
  d2 = d2
  f1 = f1
  x = x
  y = y
  Dir = {d1, d2}
  File = {f1}
  Name = {x, y}
  Root = Root
  Limbo = Limbo
  Deletion = Deletion
  None = None
CHECK_DEADLOCK FALSE
INVARIANT TypeOK
INVARIANT NothingLost
INVARIANT NothingLeft
INVARIANT UndoPossible
PROPERTY TransformIsAtomic
PROPERTY TransformEnds
