SPECIFICATION Spec
CONSTANTS
  FirstSize = 1
  Horizon = 3
  Size = 2
  Data <- MCData
  Lists <- MCLists
  Indexes <- MCIndexes
  MaxCalls = 3
  MaxLen = 4
INVARIANTS ContentsExact AsDefined NoStale Tallies
