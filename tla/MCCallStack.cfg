SPECIFICATION Spec
CONSTANTS
  Fn = {"main","f"}
  Entry = "main"
  StackSize <- Sizes
  EnvSize <- EnvSizes
  NumArgs <- Params
  HasRest <- Rests
  Last = 1
  Plain = {"internal", "number"}
  MaxArgs = 1
  MaxScope = 0
  MaxFrames = 3
  NULL = NULL
INVARIANTS
  TypeOK
  Stretches
  LoopsMatchFrames
  Limits
