SPECIFICATION Spec
CONSTANTS
  None = None
  Limit = 1
  MaxWrites = 2
CHECK_DEADLOCK FALSE
INVARIANTS
  OkIsComplete
  NothingIsLeft
  OnlyOwnGroupKilled
  ReasonsAreReal
PROPERTIES
  CallsReturn
  StopsUnattended
