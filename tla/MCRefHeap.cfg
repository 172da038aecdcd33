SPECIFICATION Spec
CONSTANTS
  N = 3
  Fields = {1, 2}
  r1 = r1
  r2 = r2
  r3 = r3
  Root = {r1, r2}
  RcMod = 100
  Overlaid = {1}
  MaxMissed = 1
  NULL = NULL
SYMMETRY RootSymmetry
INVARIANTS
  TypeOK
  RefcountExact
  NoDangling
  MarksReachable
  NoOrphan
PROPERTIES
  CollectionComplete
