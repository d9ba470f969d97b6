SPECIFICATION Spec
CONSTANTS
  p1 = p1
  p2 = p2
  r1 = r1
  r2 = r2
  r3 = r3
  None = None
  Proc = {p1, p2}
  Rev = {r1, r2, r3}
  Gens = 1
  MaxPacks = 1
  Scenarios <- Packing
  Collide = TRUE
SYMMETRY Symmetry
INVARIANT NamesBacked
\* A packer for which the bound Gens leaves no name waits for ever.
CHECK_DEADLOCK FALSE
