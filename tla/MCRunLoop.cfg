SPECIFICATION FairSpec
CONSTANTS
  WORD = 64
  MemSize = 40
  HOLE = 3
  StackSizes = {1, 2, 12, 50}
  Entry = 1
  Functions = {0, 1}
  Params = {1, 2}
  Results = {0, 5}
  Junk = {0}
  Program <- MCProgram
  Layout <- MCLayout
  FRAME = 4
INVARIANTS
  TypeOK
  Behaves
PROPERTIES
  HostParamsArrive
  SystemCallSeesArguments
  ReturnsToItsCall
  StackStaysAboveFloor
  EveryRunEnds
CHECK_DEADLOCK FALSE
