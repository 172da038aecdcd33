SPECIFICATION FairSpec
CONSTANTS
  HeapSize = 20
  MinBlock = 4
  HeaderSize = 2
  Requests = {3, 5, 9}
  NULL = NULL
INVARIANTS
  TypeOK
  HeapOK
  SweepExact
PROPERTIES
  ImplementsArena
  SearchEnds
