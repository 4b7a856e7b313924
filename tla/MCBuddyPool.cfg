SPECIFICATION FairSpec
CONSTANTS
  BUDY_COUNT = 3
  SHRINK_THD = 1
  PoolStart = 128
  PageCount = 3
  Requests <- MCRequests
INVARIANTS
  TypeOK
  Disjoint
  Covered
  CountersMatch
  NothingLeftToMerge
  HalfAligned
PROPERTIES
  RefusedOnlyWhenDry
  EveryCallReturns
  ImplementsHeap
