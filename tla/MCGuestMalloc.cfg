SPECIFICATION MallocSpec
CONSTANTS
  WORD = 44
  MemStart = 44
  MemSize = 36
  StackSize = 12
  LoadedEnd = 6
  PAGE_SIZE = 4
  POOL_HEAD = 3
  Increments = {7, 37}
  Breaks = {6, 40}
  Sizes <- MCSizes
  MaxBreak = 70
  Counts = {1, 2}
INVARIANTS
  TypeOK
  ExtentsApart
  PoolSetUp
  BlocksApart
  PagesKept
