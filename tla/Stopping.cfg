SPECIFICATION Spec
CONSTANTS
  MaxLoops = 3
  MaxFrames = 2
  MaxStops = 2
  NULL = NULL
INVARIANTS
  TypeOK
  Undisturbed
PROPERTIES
  NothingStarts
  StopEnds
