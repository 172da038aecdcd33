SPECIFICATION FairSpec
CONSTANTS
  N = 3
  Fields = {1}
  r1 = r1
  r2 = r2
  r3 = r3
  Root = {r1, r2}
  RcMod = 100
  Overlaid = {1}
  MaxMissed = 1
  NULL = NULL
PROPERTIES
  ImplementsGraph
  Settles
