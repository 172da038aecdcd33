SPECIFICATION FairSpec
CONSTANTS
  IntMax = 7
  WordMax = 7
  WideMax = 127
  ExactMax = 63
  MaxArgs = 3
  MaxOut = 16
  FAULT = FAULT
  FLOAT = FLOAT
  INEXACT = INEXACT
  Jobs <- AllJobs
INVARIANTS
  DivModExact
  SubscriptExact
  GcdLcmExact
  IsqrtExact
  CombExact
  NoOverflow
  RangeExact
PROPERTIES
  LoopsEnd
