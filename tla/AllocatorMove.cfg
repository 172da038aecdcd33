SPECIFICATION Spec
CONSTANTS
  HeapSize = 34
  MinBlock = 4
  HeaderSize = 2
  Requests = {6, 10}
  NULL = NULL
PROPERTIES
  MoveKeepsData
CHECK_DEADLOCK FALSE
