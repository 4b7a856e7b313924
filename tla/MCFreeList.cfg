SPECIFICATION LinkedSpec
CONSTANTS
  BUDY_COUNT = 2
  SHRINK_THD = 3
  PoolStart = 128
  PageCount = 4
  Requests <- MCRequests
INVARIANTS
  ListInv
  HeadersHold
PROPERTIES
  ImplementsPool
