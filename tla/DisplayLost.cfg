SPECIFICATION Spec
CONSTANTS
  Wide = 1000000
  BufSize = 6
  FromSling = TRUE
  Size = 2
  Texts <- MCTexts
  Indexes <- MCIndexes
  MaxLen = 4
  MaxSteps = 4
INVARIANTS
  WholeLines
