SPECIFICATION Spec
INVARIANTS
  NothingLost
CHECK_DEADLOCK FALSE
