SPECIFICATION Spec
CONSTANTS
  c1 = c1
  c2 = c2
  r1 = r1
  r2 = r2
  r3 = r3
  Null = Null
  Client = {c1, c2}
  Rev = {r1, r2, r3}
  Modes <- Explored
SYMMETRY Symmetry
INVARIANT RevnoIsLength
INVARIANT WorkReferenced
PROPERTY MasterFirst
PROPERTY MasterOnlyGrows
