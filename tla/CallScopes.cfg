SPECIFICATION Spec
CONSTANTS
  Fn = {"main", "h"}
  Entry = "main"
  StackSize <- Sizes
  EnvSize <- EnvSizes
  NumArgs <- Params
  HasRest <- Rests
  Last = 1
  Plain = {"intcont"}
  MaxArgs = 2
  MaxScope = 1
  MaxFrames = 2
  NULL = NULL
PROPERTIES
  ImplementsCalls
