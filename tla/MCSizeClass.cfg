SPECIFICATION SizesSpec
CONSTANTS
  Buckets = 9
  MaxSize = 9000
INVARIANTS
  RequestHeld
CHECK_DEADLOCK FALSE
