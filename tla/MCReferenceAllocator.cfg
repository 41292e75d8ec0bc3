SPECIFICATION Spec
CONSTANTS
  c1 = c1
  c2 = c2
  c3 = c3
  c4 = c4
  c5 = c5
  Conns = {c1, c2, c3, c4, c5}
  M = 5
SYMMETRY Symmetry
INVARIANTS
  TypeOK
  LiveRefsUnique
  ActiveIsLive
PROPERTIES
  RefusedOnlyWhenFull
